------------------------- MODULE PluginCacheProofs -------------------------
(* Theorems about PluginCache, for paths of any length, any number of requests *)
(* and any number of changes.                                                  *)
EXTENDS PluginCache, TLAPS

\* The entry whose List fetches t.
SourceOf(tr, t) ==
    IF t - 1 \in tr.prefetched THEN CHOOSE s \in 2 .. (t - 1) : InVolume(tr, s, t) ELSE t - 1

Src(t) == SourceOf(tree, t)

\* A request that acts has a target.
TargetInv == \A q \in Requests : step[q] # "idle" => target[q] \in Targets

\* A listing under way is for the one entry that is walked from, under its key lock, and what
\* is not cached stays so.
GenInv ==
    /\ \A q \in Requests : gen[q] # Absent =>
          pos[q] \in 1 .. (Depth - 1) /\ pos[q] \notin Uncached /\ list[pos[q]] = Absent
    /\ \A q, v \in Requests :
          gen[q] # Absent /\ gen[v] # Absent /\ pos[q] = pos[v] => q = v
    /\ \A n \in Uncached : list[n] = Absent

\* What is cached, being listed, and carried along by a walk is new enough.
SourceInv ==
    \A t \in Targets :
        /\ settled[t] <= remote[t]
        /\ Src(t) \in Entries /\ IsResult(list[Src(t)]) => settled[t] <= list[Src(t)][t]
        /\ \A q \in Requests :
              /\ pos[q] = Src(t) /\ IsResult(gen[q]) => settled[t] <= gen[q][t]
              /\ pos[q] \in (Src(t) + 1) .. t => floor[q][t] <= snap[q][t]
              /\ floor[q][t] <= settled[t]

\* What is cached of q's target is what q's action made of it, or newer.
Clean(q) ==
    Src(target[q]) \in Entries /\ IsResult(list[Src(target[q])]) =>
        made[q] <= list[Src(target[q])][target[q]]

\* ClearCacheFor: how far it has got with the listings that may hold the target.
ActInv ==
    \A q \in Requests : step[q] # "idle" =>
        /\ made[q] <= remote[target[q]]
        /\ step[q] \in {"delete_keep", "remove"} => Src(target[q]) = target[q] - 1
        /\ step[q] \in {"probe", "delete_list", "remove"} =>
              \A v \in Requests : pos[v] = Src(target[q]) /\ IsResult(gen[v]) =>
                  made[q] <= gen[v][target[q]]
        /\ step[q] = "probe" =>
              /\ probe[q] <= target[q]
              /\ Src(target[q]) = target[q] - 1 => probe[q] = target[q] \/ Clean(q)
              /\ Src(target[q]) # target[q] - 1 => Src(target[q]) <= probe[q]
        /\ step[q] = "delete_list" =>
              probe[q] = Src(target[q]) \/ (Src(target[q]) = target[q] - 1 /\ Clean(q))

\* In a volume the listing above the source is there for as long as anything below it is in use.
ChainInv ==
    \A t \in Targets : Src(t) # t - 1 =>
        \A q \in Requests : step[q] # "idle" \/ pos[q] >= Src(t) => IsResult(list[Src(t) - 1])

IInv == TypeOK /\ TargetInv /\ GenInv /\ SourceInv /\ ActInv /\ ChainInv

-----------------------------------------------------------------------------
(* The path *)

LEMMA TreeFacts ==
    ASSUME TypeOK
    PROVE  /\ Depth \in Nat \ {0} /\ 1 \in Entries
           /\ Targets \subseteq Entries /\ Uncached \subseteq Entries /\ 1 \notin Prefetched
           /\ Prefetched \subseteq Entries
           /\ Gone \in Nat /\ Gone \in Versions /\ 0 \in Versions
           /\ \A v \in Versions : v \in Nat /\ v <= Gone
BY TreesAssumption, BoundsAssumption
   DEF TypeOK, Depth, Entries, Targets, Kinds, Uncached, Prefetched, Gone, Versions

\* The source of an entry, and what is known of the path in between.
LEMMA SrcFacts ==
    ASSUME \A tr \in Trees : HasSource(tr), TypeOK, NEW t \in Targets
    PROVE  /\ t \in Entries /\ t \in Nat /\ Src(t) \in Nat /\ Src(t) < t
           /\ Src(t) \notin Prefetched /\ t \notin Prefetched
           /\ \A n \in Entries : Src(t) < n /\ n < t => n \in Prefetched /\ n \in Uncached
           /\ Src(t) # t - 1 =>
                 /\ Targets = {t} /\ 2 <= Src(t)
                 /\ Src(t) - 1 \notin Uncached /\ Src(t) - 1 \notin Expiring
                 /\ "delete" \notin Kinds[t] /\ "clear" \notin Kinds[t]
<1>1. /\ t \in Entries /\ t \in Nat /\ Targets \subseteq Entries /\ 1 \notin Prefetched
      /\ Prefetched \subseteq Entries /\ 0 \notin Entries
  BY TreeFacts DEF Entries
<1>2. CASE t - 1 \notin Prefetched
  <2>1. Src(t) = t - 1
    BY <1>2 DEF Src, SourceOf, Prefetched
  <2>2. t \notin Prefetched
    <3>1. CASE Plain(tree)
      BY <3>1 DEF Plain, Targets, Kinds, Prefetched
    <3>2. CASE \E r, u \in 1 .. tree.depth : InVolume(tree, r, u)
      BY <3>2 DEF InVolume, Targets, Kinds, Prefetched
    <3>3. QED
      BY <3>1, <3>2 DEF HasSource, TypeOK
  <2>3. t - 1 \in Nat /\ t - 1 < t /\ \A n \in Entries : ~(t - 1 < n /\ n < t)
    BY <1>1 DEF Entries
  <2>4. QED
    BY <1>1, <1>2, <2>1, <2>2, <2>3
<1>3. CASE t - 1 \in Prefetched
  <2>1. \E r, u \in 1 .. tree.depth : InVolume(tree, r, u)
    <3>1. ~Plain(tree)
      BY <1>3 DEF Plain, Targets, Kinds, Prefetched
    <3>2. QED
      BY <3>1 DEF HasSource, TypeOK
  <2>2. \E r \in 2 .. (t - 1) : InVolume(tree, r, t)
    BY <2>1 DEF InVolume, Targets, Kinds
  <2>3. Src(t) = CHOOSE r \in 2 .. (t - 1) : InVolume(tree, r, t)
    BY <1>3 DEF Src, SourceOf, Prefetched
  <2>4. Src(t) \in 2 .. (t - 1) /\ InVolume(tree, Src(t), t)
    BY <2>2, <2>3
  <2>5. \A n \in Entries : Src(t) < n /\ n < t => n \in (Src(t) + 1) .. (t - 1)
    BY <1>1, <2>4 DEF Entries
  <2>6. QED
    BY <1>1, <2>4, <2>5 DEF InVolume, Targets, Kinds, Prefetched, Uncached, Expiring
<1>4. QED
  BY <1>2, <1>3

-----------------------------------------------------------------------------
(* Types *)

LEMMA InitType == Init => TypeOK
<1> SUFFICES ASSUME Init PROVE TypeOK
  OBVIOUS
<1>1. /\ Depth \in Nat \ {0} /\ 0 \in Versions
  BY TreesAssumption, BoundsAssumption DEF Init, Depth, Versions, Gone
<1>2. Zero \in Snapshot
  BY <1>1 DEF Zero, Snapshot
<1>3. 1 \in Entries
  BY <1>1 DEF Entries
<1>4. QED
  BY <1>1, <1>2, <1>3 DEF Init, TypeOK

LEMMA DescendType ==
    ASSUME TypeOK, NEW q \in Requests, NEW r \in Snapshot \union {Absent, Failed},
           pos[q] \in 1 .. (Depth - 1), Descend(q, r) \/ GiveUp(q)
    PROVE  pos' \in [Requests -> 0 .. Depth] /\ snap' \in [Requests -> Snapshot]
           /\ floor' \in [Requests -> Snapshot]
<1>1. Zero \in Snapshot /\ 0 \in 0 .. Depth /\ pos[q] + 1 \in 0 .. Depth
  BY TreeFacts DEF Zero, Snapshot
<1>2. /\ pos \in [Requests -> 0 .. Depth] /\ snap \in [Requests -> Snapshot]
      /\ floor \in [Requests -> Snapshot]
  BY DEF TypeOK
<1>3. QED
  BY <1>1, <1>2 DEF Descend, GiveUp, IsResult

\* The path never changes.
LEMMA SameTree ==
    ASSUME tree' = tree
    PROVE  /\ Depth' = Depth /\ Entries' = Entries /\ Targets' = Targets /\ Snapshot' = Snapshot
           /\ Uncached' = Uncached /\ \A t : Src(t)' = Src(t)
BY DEF Depth, Entries, Targets, Kinds, Snapshot, Uncached, Src

LEMMA TypeNext ==
    ASSUME TypeOK, tree' = tree, remote' \in Snapshot, settled' \in Snapshot,
           list' \in [Entries -> Snapshot \union {Absent, Failed}],
           pos' \in [Requests -> 0 .. Depth], snap' \in [Requests -> Snapshot],
           floor' \in [Requests -> Snapshot],
           gen' \in [Requests -> Snapshot \union {Absent, Failed}],
           step' \in [Requests -> {"idle", "delete", "delete_keep", "probe", "delete_list", "remove"}],
           target' \in [Requests -> Entries], probe' \in [Requests -> Entries],
           made' \in [Requests -> Versions]
    PROVE  TypeOK'
BY SameTree DEF TypeOK

LEMMA TypeStep == TypeOK /\ TargetInv /\ GenInv /\ [Next]_vars => TypeOK'
<1> SUFFICES ASSUME TypeOK, TargetInv, GenInv, [Next]_vars PROVE TypeOK'
  OBVIOUS
<1>0. /\ remote \in Snapshot /\ settled \in Snapshot /\ tree \in Trees
      /\ list \in [Entries -> Snapshot \union {Absent, Failed}]
      /\ pos \in [Requests -> 0 .. Depth] /\ snap \in [Requests -> Snapshot]
      /\ floor \in [Requests -> Snapshot]
      /\ gen \in [Requests -> Snapshot \union {Absent, Failed}]
      /\ step \in [Requests -> {"idle", "delete", "delete_keep", "probe", "delete_list", "remove"}]
      /\ target \in [Requests -> Entries] /\ probe \in [Requests -> Entries]
      /\ made \in [Requests -> Versions]
      /\ Zero \in Snapshot
  BY TreeFacts DEF TypeOK, Zero, Snapshot
<1>1. CASE UNCHANGED vars
  BY <1>1, <1>0, TypeNext DEF vars, walkVars, actVars
<1>2. ASSUME NEW q \in Requests, FindEntry(q) PROVE TypeOK'
  <2>1. 1 \in 0 .. Depth
    BY TreeFacts
  <2>2. QED
    BY <1>0, <1>2, <2>1, TypeNext DEF FindEntry, actVars
<1>3. ASSUME NEW q \in Requests, RequestDone(q) PROVE TypeOK'
  <2>1. 0 \in 0 .. Depth
    BY TreeFacts
  <2>2. QED
    BY <1>0, <1>3, <2>1, TypeNext DEF RequestDone, GiveUp, actVars
<1>4. ASSUME NEW q \in Requests, ListUncached(q) PROVE TypeOK'
  <2>1. Listing(q) \in Snapshot \union {Absent, Failed}
    BY <1>0 DEF Listing
  <2>2. /\ pos' \in [Requests -> 0 .. Depth] /\ snap' \in [Requests -> Snapshot]
        /\ floor' \in [Requests -> Snapshot]
    BY <1>4, <2>1, DescendType DEF ListUncached, Walking
  <2>3. QED
    BY <1>0, <1>4, <2>2, TypeNext DEF ListUncached, actVars
<1>5. ASSUME NEW q \in Requests, ListCached(q) PROVE TypeOK'
  <2>1. pos[q] \in 1 .. (Depth - 1) /\ pos[q] \in Entries
    BY <1>0, <1>5, TreeFacts DEF ListCached, Walking, Entries
  <2>2. /\ pos' \in [Requests -> 0 .. Depth] /\ snap' \in [Requests -> Snapshot]
        /\ floor' \in [Requests -> Snapshot]
    BY <1>0, <1>5, <2>1, DescendType DEF ListCached
  <2>3. QED
    BY <1>0, <1>5, <2>2, TypeNext DEF ListCached, actVars
<1>6. ASSUME NEW q \in Requests, BeginList(q) PROVE TypeOK'
  <2>1. Listing(q) \in Snapshot
    BY <1>0 DEF Listing
  <2>2. gen' \in [Requests -> Snapshot \union {Absent, Failed}]
    BY <1>0, <1>6, <2>1 DEF BeginList
  <2>3. QED
    BY <1>0, <1>6, <2>2, TypeNext DEF BeginList, actVars
<1>7. ASSUME NEW q \in Requests, EndList(q) PROVE TypeOK'
  <2>1. pos[q] \in 1 .. (Depth - 1) /\ pos[q] \in Entries
    BY <1>7, TreeFacts DEF EndList, GenInv, Entries
  <2>2. /\ pos' \in [Requests -> 0 .. Depth] /\ snap' \in [Requests -> Snapshot]
        /\ floor' \in [Requests -> Snapshot]
    BY <1>0, <1>7, <2>1, DescendType DEF EndList
  <2>3. QED
    BY <1>0, <1>7, <2>2, TypeNext DEF EndList, actVars
<1>8. ASSUME NEW q \in Requests, NEW t \in Targets, NEW v \in Versions,
             NEW s \in {"delete", "delete_keep"}, Start(q, t, v, s)
      PROVE  TypeOK'
  <2>1. 0 \in 0 .. Depth /\ t \in Entries
    BY TreeFacts
  <2>2. remote' \in Snapshot
    BY <1>0, <1>8 DEF Start, Snapshot
  <2>3. QED
    BY <1>0, <1>8, <2>1, <2>2, TypeNext DEF Start, GiveUp
<1>9. ASSUME NEW q \in Requests, NEW t \in Targets,
             Signal(q, t) \/ Delete(q, t) \/ DeletePending(q, t) \/ CacheHandler(q, t)
      PROVE  TypeOK'
  <2>1. remote[t] \in Versions /\ Gone \in Versions
    BY <1>0, TreeFacts DEF Snapshot
  <2>2. remote[t] < MaxVersion => remote[t] + 1 \in Versions
    BY <2>1, BoundsAssumption DEF Versions, Gone
  <2>3. QED
    BY <1>8, <1>9, <2>1, <2>2 DEF Signal, Delete, DeletePending, CacheHandler
<1>10. ASSUME NEW q \in Requests, Settle(q), target[q] \in Targets
       PROVE  /\ settled' \in Snapshot
              /\ step' \in [Requests -> {"idle", "delete", "delete_keep", "probe", "delete_list", "remove"}]
              /\ target' \in [Requests -> Entries] /\ probe' \in [Requests -> Entries]
              /\ made' \in [Requests -> Versions]
  <2>1. 1 \in Entries /\ 0 \in Versions
    BY TreeFacts
  <2>2. settled[target[q]] \in Versions /\ made[q] \in Versions
    BY <1>0, <1>10 DEF Snapshot
  <2>3. Newer(settled[target[q]], made[q]) \in Versions
    BY <2>2 DEF Newer
  <2>4. settled' \in Snapshot
    BY <1>0, <1>10, <2>3 DEF Settle, Snapshot
  <2>5. QED
    BY <1>0, <1>10, <2>1, <2>4 DEF Settle
<1>11. ASSUME NEW q \in Requests, DeleteKeys(q) PROVE TypeOK'
  <2>1. list' \in [Entries -> Snapshot \union {Absent, Failed}]
    BY <1>0, <1>11 DEF DeleteKeys
  <2>2. QED
    BY <1>0, <1>11, <2>1, TypeNext DEF DeleteKeys, walkVars
<1>12. ASSUME NEW q \in Requests, Probe(q) PROVE TypeOK'
  <2>1. UNCHANGED <<tree, remote, list, pos, snap, gen, floor>>
    BY <1>12 DEF Probe, walkVars
  <2>2. CASE FoundSource(probe[q])
    <3>1. Source(q) \in Entries
      BY <1>0, <2>2, TreeFacts DEF Source, FoundSource, getCachedEntry, Entries
    <3>2. QED
      BY <1>0, <1>12, <2>1, <2>2, <3>1, TypeNext DEF Probe
  <2>3. CASE ~FoundSource(probe[q]) /\ probe[q] = 1
    BY <1>0, <1>10, <1>12, <2>1, <2>3, TypeNext DEF Probe, TargetInv
  <2>4. CASE ~FoundSource(probe[q]) /\ probe[q] # 1
    <3>1. probe[q] - 1 \in Entries
      BY <1>0, <2>4, TreeFacts DEF Entries
    <3>2. QED
      BY <1>0, <1>12, <2>1, <2>4, <3>1, TypeNext DEF Probe
  <2>5. QED
    BY <2>2, <2>3, <2>4
<1>13. ASSUME NEW q \in Requests, DeleteSourceList(q) PROVE TypeOK'
  <2>1. list' \in [Entries -> Snapshot \union {Absent, Failed}]
    BY <1>0, <1>13 DEF DeleteSourceList
  <2>2. QED
    BY <1>0, <1>10, <1>13, <2>1, TypeNext DEF DeleteSourceList, TargetInv, walkVars
<1>14. ASSUME NEW q \in Requests, RemoveFromParent(q) PROVE TypeOK'
  <2>1. list' \in [Entries -> Snapshot \union {Absent, Failed}]
    <3>1. CASE target[q] - 1 \in Entries /\ IsResult(list[target[q] - 1])
      <4>1. list[target[q] - 1] \in Snapshot
        BY <1>0, <3>1 DEF IsResult
      <4>2. [list[target[q] - 1] EXCEPT ![target[q]] = Gone] \in Snapshot
        BY <4>1, TreeFacts DEF Snapshot
      <4>3. list' = [list EXCEPT ![target[q] - 1] = [list[target[q] - 1] EXCEPT ![target[q]] = Gone]]
        BY <1>14, <3>1 DEF RemoveFromParent
      <4>4. QED
        BY <1>0, <3>1, <4>2, <4>3
    <3>2. QED
      BY <1>0, <1>14, <3>1 DEF RemoveFromParent
  <2>2. QED
    BY <1>0, <1>10, <1>14, <2>1, TypeNext DEF RemoveFromParent, TargetInv, walkVars
<1>15. ASSUME NEW n \in Entries, Expire(n) PROVE TypeOK'
  <2>1. list' \in [Entries -> Snapshot \union {Absent, Failed}]
    BY <1>0, <1>15 DEF Expire
  <2>2. QED
    BY <1>0, <1>15, <2>1, TypeNext DEF Expire, walkVars, actVars
<1>16. QED
  BY <1>1, <1>2, <1>3, <1>4, <1>5, <1>6, <1>7, <1>9, <1>11, <1>12, <1>13, <1>14, <1>15 DEF Next

-----------------------------------------------------------------------------
(* Listings under way *)

\* A request that lists nothing moves on.
LEMMA GenMove ==
    ASSUME TypeOK, GenInv, tree' = tree, gen' = gen, list' = list, NEW q \in Requests,
           gen[q] = Absent, NEW n, pos' = [pos EXCEPT ![q] = n]
    PROVE  GenInv'
<1>1. pos \in [Requests -> 0 .. Depth] /\ Depth' = Depth /\ Uncached' = Uncached
  BY SameTree DEF TypeOK
<1>2. \A v \in Requests : gen[v] # Absent => pos'[v] = pos[v]
  BY <1>1
<1>3. QED
  BY <1>1, <1>2 DEF GenInv

\* What is not cached is not cached any more than before.
LEMMA GenDrop ==
    ASSUME TypeOK, GenInv, tree' = tree, gen' = gen, pos' = pos,
           \A n \in Entries : list[n] = Absent => list'[n] = Absent
    PROVE  GenInv'
<1>1. Depth' = Depth /\ Uncached' = Uncached /\ Uncached \subseteq Entries
      /\ 1 .. (Depth - 1) \subseteq Entries
  BY SameTree, TreeFacts DEF Entries
<1>2. QED
  BY <1>1 DEF GenInv

LEMMA DescendMoves ==
    ASSUME NEW q \in Requests, NEW r, Descend(q, r) \/ GiveUp(q)
    PROVE  \E n : pos' = [pos EXCEPT ![q] = n]
BY DEF Descend, GiveUp

LEMMA GenStep ==
    ASSUME TypeOK, TargetInv, GenInv, Next
    PROVE  GenInv'
<1>0. /\ pos \in [Requests -> 0 .. Depth]
      /\ gen \in [Requests -> Snapshot \union {Absent, Failed}]
      /\ list \in [Entries -> Snapshot \union {Absent, Failed}]
      /\ Depth \in Nat
  BY TreeFacts DEF TypeOK
<1>1. ASSUME NEW q \in Requests, FindEntry(q) \/ RequestDone(q) \/ ListUncached(q) \/ ListCached(q)
      PROVE  GenInv'
  <2>1. tree' = tree /\ gen' = gen /\ list' = list
    BY <1>1 DEF FindEntry, RequestDone, ListUncached, ListCached
  <2>2. gen[q] = Absent
    BY <1>0, <1>1 DEF FindEntry, RequestDone, ListUncached, ListCached, Walking, GenInv
  <2>3. \E n : pos' = [pos EXCEPT ![q] = n]
    BY <1>1, DescendMoves DEF FindEntry, RequestDone, ListUncached, ListCached, GiveUp
  <2>4. QED
    BY <2>1, <2>2, <2>3, GenMove
<1>2. ASSUME NEW q \in Requests, NEW t \in Targets,
             Signal(q, t) \/ Delete(q, t) \/ DeletePending(q, t) \/ CacheHandler(q, t)
      PROVE  GenInv'
  <2>1. tree' = tree /\ gen' = gen /\ list' = list /\ pos' = [pos EXCEPT ![q] = 0]
    BY <1>2 DEF Signal, Delete, DeletePending, CacheHandler, Start, GiveUp
  <2>2. gen[q] = Absent
    BY <1>0, <1>2 DEF Signal, Delete, DeletePending, CacheHandler, At, GenInv
  <2>3. QED
    BY <2>1, <2>2, GenMove
<1>3. ASSUME NEW q \in Requests, BeginList(q) PROVE GenInv'
  <2>1. /\ tree' = tree /\ list' = list /\ pos' = pos /\ Depth' = Depth /\ Uncached' = Uncached
        /\ \A v \in Requests : v # q => gen'[v] = gen[v]
    BY <1>0, <1>3, SameTree DEF BeginList
  <2>2. /\ pos[q] \in 1 .. (Depth - 1) /\ pos[q] \notin Uncached /\ list[pos[q]] = Absent
        /\ \A v \in Requests : pos[v] = pos[q] => gen[v] = Absent
    BY <1>3 DEF BeginList, Walking
  <2>3. QED
    BY <2>1, <2>2 DEF GenInv
<1>4. ASSUME NEW q \in Requests, EndList(q) PROVE GenInv'
  <2>1. /\ Depth' = Depth /\ Uncached' = Uncached /\ Uncached \subseteq Entries
        /\ gen' = [gen EXCEPT ![q] = Absent] /\ list' = [list EXCEPT ![pos[q]] = gen[q]]
    BY <1>4, SameTree, TreeFacts DEF EndList
  <2>2. PICK n : pos' = [pos EXCEPT ![q] = n]
    BY <1>4, DescendMoves DEF EndList
  <2>3. gen[q] # Absent /\ pos[q] \notin Uncached
    BY <1>4 DEF EndList, GenInv
  <2>4. \A v \in Requests : gen'[v] # Absent =>
           v # q /\ gen[v] # Absent /\ pos'[v] = pos[v] /\ pos[v] # pos[q] /\ pos[v] \in Entries
    BY <1>0, <2>1, <2>2, <2>3 DEF GenInv, Entries
  <2>5. QED
    BY <1>0, <2>1, <2>3, <2>4 DEF GenInv
<1>5. ASSUME NEW q \in Requests,
             DeleteKeys(q) \/ Probe(q) \/ DeleteSourceList(q) \/ RemoveFromParent(q)
      PROVE  GenInv'
  <2>1. tree' = tree /\ gen' = gen /\ pos' = pos
    BY <1>5 DEF DeleteKeys, Probe, DeleteSourceList, RemoveFromParent, walkVars
  <2>2. \A n \in Entries : list[n] = Absent => list'[n] = Absent
    BY <1>0, <1>5 DEF DeleteKeys, Probe, DeleteSourceList, RemoveFromParent, IsResult
  <2>3. QED
    BY <2>1, <2>2, GenDrop
<1>6. ASSUME NEW n \in Entries, Expire(n) PROVE GenInv'
  <2>1. tree' = tree /\ gen' = gen /\ pos' = pos
        /\ \A m \in Entries : list[m] = Absent => list'[m] = Absent
    BY <1>0, <1>6 DEF Expire, walkVars
  <2>2. QED
    BY <2>1, GenDrop
<1>7. QED
  BY <1>1, <1>2, <1>3, <1>4, <1>5, <1>6 DEF Next

LEMMA TargetStep ==
    ASSUME TypeOK, TargetInv, Next
    PROVE  TargetInv'
<1>0. step \in [Requests -> {"idle", "delete", "delete_keep", "probe", "delete_list", "remove"}]
      /\ target \in [Requests -> Entries]
  BY DEF TypeOK
<1>1. tree' = tree /\ Targets' = Targets
  <2>1. tree' = tree
    BY DEF Next, FindEntry, RequestDone, ListUncached, ListCached, BeginList, EndList, Signal, Delete,
           DeletePending, CacheHandler, Start, DeleteKeys, Probe, DeleteSourceList,
           RemoveFromParent, Expire
  <2>2. QED
    BY <2>1, SameTree
<1>2. CASE UNCHANGED <<step, target>>
  BY <1>1, <1>2 DEF TargetInv
<1>3. ASSUME NEW q \in Requests, NEW t \in Targets, NEW v, NEW s, Start(q, t, v, s) PROVE TargetInv'
  BY <1>0, <1>1, <1>3 DEF TargetInv, Start
<1>4. ASSUME NEW q \in Requests, Settle(q) PROVE TargetInv'
  BY <1>0, <1>1, <1>4 DEF TargetInv, Settle
<1>5. ASSUME NEW q \in Requests, target' = target, step[q] # "idle", NEW s, step' = [step EXCEPT ![q] = s]
      PROVE  TargetInv'
  BY <1>0, <1>1, <1>5 DEF TargetInv
<1>6. ASSUME NEW q \in Requests, DeleteKeys(q) \/ Probe(q) PROVE TargetInv'
  <2>1. step[q] # "idle"
    BY <1>6 DEF DeleteKeys, Probe
  <2>2. CASE DeleteKeys(q)
    BY <1>5, <2>1, <2>2 DEF DeleteKeys
  <2>3. CASE Probe(q)
    BY <1>2, <1>4, <1>5, <2>1, <2>3 DEF Probe
  <2>4. QED
    BY <1>6, <2>2, <2>3
<1>7. QED
  BY <1>2, <1>3, <1>4, <1>6
  DEF Next, FindEntry, RequestDone, ListUncached, ListCached, BeginList, EndList, Signal, Delete,
      DeletePending, CacheHandler, DeleteSourceList, RemoveFromParent, Expire, actVars

-----------------------------------------------------------------------------
(* A walk *)

\* Where a step of its walk takes q is new enough.
Arrives(q) ==
    \A t \in Targets :
        /\ floor'[q][t] <= settled[t]
        /\ pos'[q] \in (Src(t) + 1) .. t => floor'[q][t] <= snap'[q][t]
        /\ Src(t) # t - 1 /\ pos'[q] >= Src(t) => IsResult(list'[Src(t) - 1])

OnlyMoves(q) ==
    \A v \in Requests \ {q} : pos'[v] = pos[v] /\ snap'[v] = snap[v] /\ floor'[v] = floor[v]

LEMMA GiveUpArrives ==
    ASSUME \A tr \in Trees : HasSource(tr), TypeOK, NEW q \in Requests, GiveUp(q)
    PROVE  Arrives(q) /\ OnlyMoves(q)
<1>1. pos'[q] = 0 /\ floor'[q] = Zero /\ OnlyMoves(q)
  BY DEF TypeOK, GiveUp, OnlyMoves
<1>2. ASSUME NEW t \in Targets
      PROVE  /\ Zero[t] = 0 /\ settled[t] \in Nat /\ Src(t) \in Nat
             /\ Src(t) # t - 1 => 2 <= Src(t)
  BY <1>2, TreeFacts, SrcFacts DEF TypeOK, Snapshot, Zero
<1>3. QED
  BY <1>1, <1>2 DEF Arrives

LEMMA DescendArrives ==
    ASSUME \A tr \in Trees : HasSource(tr), TypeOK, SourceInv, NEW q \in Requests,
           pos[q] \in 1 .. (Depth - 1), NEW r \in Snapshot \union {Absent, Failed}, Descend(q, r),
           \A t \in Targets : IsResult(r) =>
               /\ pos[q] = Src(t) => settled[t] <= r[t]
               /\ Src(t) < pos[q] /\ pos[q] < t => floor[q][t] <= r[t]
               /\ Src(t) # t - 1 /\ Src(t) <= pos[q] + 1 => IsResult(list'[Src(t) - 1])
    PROVE  Arrives(q) /\ OnlyMoves(q)
<1>1. CASE ~(IsResult(r) /\ There(r, pos[q] + 1))
  BY <1>1, GiveUpArrives DEF Descend
<1>2. CASE IsResult(r) /\ There(r, pos[q] + 1)
  <2>1. pos'[q] = pos[q] + 1 /\ snap'[q] = r /\ floor' = floor /\ OnlyMoves(q)
    BY <1>2 DEF TypeOK, Descend, OnlyMoves
  <2>2. r \in Snapshot /\ pos[q] \in Nat
    BY <1>2, TreeFacts DEF IsResult
  <2>3. ASSUME NEW t \in Targets
        PROVE  /\ r[t] \in Nat /\ settled[t] \in Nat /\ floor[q][t] \in Nat
               /\ Src(t) \in Nat /\ t \in Nat /\ Src(t) < t
               /\ floor[q][t] <= settled[t]
    BY <2>2, <2>3, TreeFacts, SrcFacts DEF TypeOK, Snapshot, SourceInv
  <2>4. ASSUME NEW t \in Targets, pos[q] + 1 \in (Src(t) + 1) .. t
        PROVE  floor[q][t] <= r[t]
    <3>1. pos[q] = Src(t) \/ (Src(t) < pos[q] /\ pos[q] < t)
      BY <2>2, <2>3, <2>4
    <3>2. QED
      BY <1>2, <2>3, <2>4, <3>1
  <2>5. QED
    BY <1>2, <2>1, <2>2, <2>3, <2>4 DEF Arrives
<1>3. QED
  BY <1>1, <1>2

\* A walk that only moves on.
LEMMA WalkMove ==
    ASSUME TypeOK, GenInv, SourceInv, ActInv, ChainInv, NEW q \in Requests, Arrives(q), OnlyMoves(q),
           gen[q] = Absent,
           UNCHANGED <<tree, remote, list, gen, actVars>>
    PROVE  SourceInv' /\ ActInv' /\ ChainInv'
<1>1. /\ Targets' = Targets /\ Entries' = Entries /\ \A t : Src(t)' = Src(t)
      /\ UNCHANGED <<step, target, probe, made, settled>>
  BY SameTree DEF actVars
<1>2. ~IsResult(gen[q])
  BY DEF IsResult
<1>3. SourceInv'
  BY <1>1, <1>2 DEF SourceInv, Arrives, OnlyMoves
<1>4. ActInv'
  BY <1>1, <1>2 DEF ActInv, Clean, OnlyMoves
<1>5. ChainInv'
  BY <1>1 DEF ChainInv, Arrives, OnlyMoves
<1>6. QED
  BY <1>3, <1>4, <1>5

FactInv == SourceInv /\ ActInv /\ ChainInv

LEMMA WalkStep ==
    ASSUME \A tr \in Trees : HasSource(tr), IInv, NEW q \in Requests,
           FindEntry(q) \/ RequestDone(q) \/ ListUncached(q) \/ ListCached(q)
    PROVE  FactInv'
<1> USE DEF IInv
<1>0. /\ pos \in [Requests -> 0 .. Depth] /\ snap \in [Requests -> Snapshot]
      /\ floor \in [Requests -> Snapshot] /\ remote \in Snapshot /\ settled \in Snapshot
      /\ list \in [Entries -> Snapshot \union {Absent, Failed}] /\ Depth \in Nat
  BY TreeFacts DEF TypeOK
<1>1. UNCHANGED <<tree, remote, list, gen, actVars>>
  BY DEF FindEntry, RequestDone, ListUncached, ListCached
<1>2. gen[q] = Absent
  BY <1>0 DEF FindEntry, RequestDone, ListUncached, ListCached, Walking, GenInv
<1>3. CASE FindEntry(q)
  <2>1. pos'[q] = 1 /\ snap'[q] = remote /\ floor'[q] = settled /\ OnlyMoves(q)
    BY <1>0, <1>3 DEF FindEntry, OnlyMoves
  <2>2. ASSUME NEW t \in Targets
        PROVE  /\ settled[t] \in Nat /\ remote[t] \in Nat /\ settled[t] <= remote[t]
               /\ Src(t) # t - 1 => 2 <= Src(t) /\ Src(t) \in Nat
    BY <1>0, <2>2, TreeFacts, SrcFacts DEF Snapshot, SourceInv
  <2>3. Arrives(q)
    BY <2>1, <2>2 DEF Arrives
  <2>4. QED
    BY <1>1, <1>2, <2>1, <2>3, WalkMove DEF FactInv
<1>4. CASE RequestDone(q)
  BY <1>1, <1>2, <1>4, GiveUpArrives, WalkMove DEF RequestDone, FactInv
<1>5. CASE ListUncached(q)
  <2>1. /\ pos[q] \in 1 .. (Depth - 1) /\ pos[q] \in Uncached /\ pos[q] \in Entries
        /\ pos[q] \in Nat
    BY <1>0, <1>5 DEF ListUncached, Walking, Entries
  <2>2. Listing(q) \in Snapshot
    BY <1>0 DEF Listing
  <2>3. ASSUME NEW t \in Targets
        PROVE  /\ pos[q] = Src(t) => settled[t] <= Listing(q)[t]
               /\ Src(t) < pos[q] /\ pos[q] < t => floor[q][t] <= Listing(q)[t]
               /\ Src(t) # t - 1 /\ Src(t) <= pos[q] + 1 => IsResult(list'[Src(t) - 1])
    <3>1. pos[q] = Src(t) => settled[t] <= Listing(q)[t]
      BY <2>3, SrcFacts DEF Listing, SourceInv
    <3>2. ASSUME Src(t) < pos[q], pos[q] < t PROVE floor[q][t] <= Listing(q)[t]
      <4>1. Listing(q) = snap[q] /\ pos[q] \in (Src(t) + 1) .. t
        BY <2>1, <2>3, <3>2, SrcFacts DEF Listing
      <4>2. QED
        BY <2>3, <4>1 DEF SourceInv
    <3>3. ASSUME Src(t) # t - 1, Src(t) <= pos[q] + 1 PROVE IsResult(list'[Src(t) - 1])
      <4>1. Src(t) - 1 # pos[q] /\ Src(t) \in Nat
        BY <2>1, <2>3, <3>3, SrcFacts
      <4>2. pos[q] >= Src(t)
        BY <2>1, <3>3, <4>1
      <4>3. QED
        BY <1>1, <2>3, <3>3, <4>2 DEF ChainInv
    <3>4. QED
      BY <3>1, <3>2, <3>3
  <2>4. Arrives(q) /\ OnlyMoves(q)
    BY <1>5, <2>1, <2>2, <2>3, DescendArrives, GiveUpArrives DEF ListUncached
  <2>5. QED
    BY <1>1, <1>2, <2>4, WalkMove DEF FactInv
<1>6. CASE ListCached(q)
  <2>1. /\ pos[q] \in 1 .. (Depth - 1) /\ pos[q] \notin Uncached /\ pos[q] \in Entries
        /\ pos[q] \in Nat /\ Descend(q, list[pos[q]])
    BY <1>0, <1>6 DEF ListCached, Walking, Entries
  <2>2. list[pos[q]] \in Snapshot \union {Absent, Failed}
    BY <1>0, <2>1
  <2>3. ASSUME NEW t \in Targets, IsResult(list[pos[q]])
        PROVE  /\ pos[q] = Src(t) => settled[t] <= list[pos[q]][t]
               /\ ~(Src(t) < pos[q] /\ pos[q] < t)
               /\ Src(t) # t - 1 /\ Src(t) <= pos[q] + 1 => IsResult(list'[Src(t) - 1])
    <3>1. /\ pos[q] = Src(t) => settled[t] <= list[pos[q]][t]
          /\ ~(Src(t) < pos[q] /\ pos[q] < t)
      BY <2>1, <2>3, SrcFacts DEF SourceInv
    <3>2. ASSUME Src(t) # t - 1, Src(t) <= pos[q] + 1 PROVE IsResult(list'[Src(t) - 1])
      <4>1. pos[q] >= Src(t) \/ pos[q] = Src(t) - 1
        BY <2>1, <2>3, <3>2, SrcFacts
      <4>2. QED
        BY <1>1, <2>3, <3>2, <4>1 DEF ChainInv
    <3>3. QED
      BY <3>1, <3>2
  <2>4. Arrives(q) /\ OnlyMoves(q)
    BY <2>1, <2>2, <2>3, DescendArrives
  <2>5. QED
    BY <1>1, <1>2, <2>4, WalkMove DEF FactInv
<1>7. QED
  BY <1>3, <1>4, <1>5, <1>6

LEMMA BeginStep ==
    ASSUME \A tr \in Trees : HasSource(tr), IInv, NEW q \in Requests, BeginList(q)
    PROVE  FactInv'
<1> USE DEF IInv
<1>1. /\ UNCHANGED <<tree, remote, list, pos, snap, floor, step, target, probe, made, settled>>
      /\ \A v \in Requests : v # q => gen'[v] = gen[v]
      /\ gen'[q] \in {Listing(q), Failed}
  BY DEF BeginList, actVars, TypeOK
<1>2. /\ Targets' = Targets /\ Entries' = Entries /\ \A t : Src(t)' = Src(t)
  BY <1>1, SameTree
<1>3. ASSUME NEW t \in Targets, pos[q] = Src(t), IsResult(gen'[q])
      PROVE  gen'[q] = remote
  BY <1>1, <1>3, SrcFacts DEF Listing, IsResult
<1>4. SourceInv'
  BY <1>1, <1>2, <1>3 DEF SourceInv
<1>5. ActInv'
  <2> SUFFICES ASSUME NEW p \in Requests, step[p] # "idle", NEW v \in Requests,
                      pos[v] = Src(target[p]), IsResult(gen'[v]),
                      step[p] \in {"probe", "delete_list", "remove"}
               PROVE  made[p] <= gen'[v][target[p]]
    BY <1>1, <1>2 DEF ActInv, Clean
  <2>1. target[p] \in Targets
    BY DEF TargetInv
  <2>2. CASE v = q
    BY <1>3, <2>1, <2>2 DEF ActInv
  <2>3. CASE v # q
    BY <1>1, <2>3 DEF ActInv
  <2>4. QED
    BY <2>2, <2>3
<1>6. ChainInv'
  BY <1>1, <1>2 DEF ChainInv
<1>7. QED
  BY <1>4, <1>5, <1>6 DEF FactInv

LEMMA EndStep ==
    ASSUME \A tr \in Trees : HasSource(tr), IInv, NEW q \in Requests, EndList(q)
    PROVE  FactInv'
<1> USE DEF IInv
<1>0. /\ gen[q] # Absent /\ pos[q] \in 1 .. (Depth - 1) /\ pos[q] \notin Uncached
      /\ list[pos[q]] = Absent /\ pos[q] \in Entries /\ pos[q] \in Nat /\ ~IsResult(Absent)
  BY TreeFacts DEF EndList, GenInv, Entries, IsResult
<1>1. /\ UNCHANGED <<tree, remote, step, target, probe, made, settled>>
      /\ gen'[q] = Absent /\ \A v \in Requests : v # q => gen'[v] = gen[v]
      /\ list'[pos[q]] = gen[q] /\ \A n \in Entries : n # pos[q] => list'[n] = list[n]
      /\ Descend(q, gen[q]) /\ gen[q] \in Snapshot \union {Absent, Failed}
  BY <1>0 DEF EndList, actVars, TypeOK
<1>2. /\ Targets' = Targets /\ Entries' = Entries /\ \A t : Src(t)' = Src(t)
  BY <1>1, SameTree
<1>3. \A n \in Entries : IsResult(list[n]) => list'[n] = list[n]
  BY <1>0, <1>1
<1>4. \A t \in Targets : Src(t) # t - 1 => Src(t) - 1 \in Entries
  BY SrcFacts, TreeFacts DEF Entries
<1>5. Arrives(q) /\ OnlyMoves(q)
  <2>1. ASSUME NEW t \in Targets, IsResult(gen[q])
        PROVE  /\ pos[q] = Src(t) => settled[t] <= gen[q][t]
               /\ ~(Src(t) < pos[q] /\ pos[q] < t)
               /\ Src(t) # t - 1 /\ Src(t) <= pos[q] + 1 => IsResult(list'[Src(t) - 1])
    <3>1. /\ pos[q] = Src(t) => settled[t] <= gen[q][t]
          /\ ~(Src(t) < pos[q] /\ pos[q] < t)
      BY <1>0, <2>1, SrcFacts DEF SourceInv
    <3>2. ASSUME Src(t) # t - 1, Src(t) <= pos[q] + 1 PROVE IsResult(list'[Src(t) - 1])
      <4>1. pos[q] >= Src(t) \/ pos[q] = Src(t) - 1
        BY <1>0, <2>1, <3>2, SrcFacts
      <4>2. CASE pos[q] >= Src(t)
        BY <1>3, <1>4, <2>1, <3>2, <4>2 DEF ChainInv
      <4>3. CASE pos[q] = Src(t) - 1
        BY <1>1, <2>1, <4>3
      <4>4. QED
        BY <4>1, <4>2, <4>3
    <3>3. QED
      BY <3>1, <3>2
  <2>2. QED
    BY <1>0, <1>1, <2>1, DescendArrives
<1>6. SourceInv'
  <2> SUFFICES ASSUME NEW t \in Targets
               PROVE  /\ settled[t] <= remote[t]
                      /\ Src(t) \in Entries /\ IsResult(list'[Src(t)]) => settled[t] <= list'[Src(t)][t]
                      /\ \A v \in Requests :
                            /\ pos'[v] = Src(t) /\ IsResult(gen'[v]) => settled[t] <= gen'[v][t]
                            /\ pos'[v] \in (Src(t) + 1) .. t => floor'[v][t] <= snap'[v][t]
                            /\ floor'[v][t] <= settled[t]
    BY <1>1, <1>2 DEF SourceInv
  <2>1. Src(t) \in Entries /\ IsResult(list'[Src(t)]) => settled[t] <= list'[Src(t)][t]
    BY <1>1 DEF SourceInv
  <2>2. ASSUME NEW v \in Requests
        PROVE  /\ pos'[v] = Src(t) /\ IsResult(gen'[v]) => settled[t] <= gen'[v][t]
               /\ pos'[v] \in (Src(t) + 1) .. t => floor'[v][t] <= snap'[v][t]
               /\ floor'[v][t] <= settled[t]
    BY <1>0, <1>1, <1>5, <2>2 DEF SourceInv, Arrives, OnlyMoves
  <2>3. QED
    BY <2>1, <2>2 DEF SourceInv
<1>7. ActInv'
  <2> SUFFICES ASSUME NEW p \in Requests, step[p] # "idle"
               PROVE  /\ step[p] \in {"probe", "delete_list", "remove"} =>
                           \A v \in Requests : pos'[v] = Src(target[p]) /\ IsResult(gen'[v]) =>
                               made[p] <= gen'[v][target[p]]
                      /\ step[p] \in {"probe", "delete_list"} /\ Clean(p) =>
                           (Src(target[p]) \in Entries /\ IsResult(list'[Src(target[p])]) =>
                              made[p] <= list'[Src(target[p])][target[p]])
    BY <1>1, <1>2 DEF ActInv, Clean
  <2>1. ASSUME step[p] \in {"probe", "delete_list", "remove"}, NEW v \in Requests,
               pos'[v] = Src(target[p]), IsResult(gen'[v])
        PROVE  made[p] <= gen'[v][target[p]]
    BY <1>0, <1>1, <1>5, <2>1 DEF ActInv, OnlyMoves
  <2>2. ASSUME step[p] \in {"probe", "delete_list"}, Clean(p),
               Src(target[p]) \in Entries, IsResult(list'[Src(target[p])])
        PROVE  made[p] <= list'[Src(target[p])][target[p]]
    BY <1>1, <2>2 DEF ActInv, Clean
  <2>3. QED
    BY <2>1, <2>2
<1>8. ChainInv'
  <2> SUFFICES ASSUME NEW t \in Targets, Src(t) # t - 1, NEW v \in Requests,
                      step[v] # "idle" \/ pos'[v] >= Src(t)
               PROVE  IsResult(list'[Src(t) - 1])
    BY <1>1, <1>2 DEF ChainInv
  <2>1. CASE v = q /\ pos'[v] >= Src(t)
    BY <1>5, <2>1 DEF Arrives
  <2>2. CASE step[v] # "idle" \/ v # q
    BY <1>3, <1>4, <1>5, <2>2 DEF ChainInv, OnlyMoves
  <2>3. QED
    BY <2>1, <2>2
<1>9. QED
  BY <1>6, <1>7, <1>8 DEF FactInv

-----------------------------------------------------------------------------
(* Actions on an entry *)

LEMMA StartStep ==
    ASSUME \A tr \in Trees : HasSource(tr), IInv, NEW q \in Requests, NEW t \in Targets,
           NEW v \in Versions, remote[t] <= v, NEW s \in {"delete", "delete_keep"},
           s = "delete_keep" => Src(t) = t - 1, pos[q] = t \/ Src(t) = t - 1,
           gen[q] = Absent, Start(q, t, v, s)
    PROVE  FactInv'
<1> USE DEF IInv
<1>1. /\ UNCHANGED <<tree, list, gen, probe, settled>> /\ ~IsResult(gen[q])
      /\ step'[q] = s /\ target'[q] = t /\ made'[q] = v
      /\ \A p \in Requests : p # q =>
            step'[p] = step[p] /\ target'[p] = target[p] /\ made'[p] = made[p]
  BY DEF Start, TypeOK, IsResult
<1>2. /\ Targets' = Targets /\ Entries' = Entries /\ \A u : Src(u)' = Src(u)
  BY <1>1, SameTree
<1>3. Arrives(q) /\ OnlyMoves(q)
  BY GiveUpArrives DEF Start
<1>4. /\ remote'[t] = v /\ remote \in Snapshot /\ settled \in Snapshot
      /\ \A u \in Targets : u # t => remote'[u] = remote[u]
  BY DEF Start, TypeOK, Snapshot
<1>5. \A u \in Targets : remote[u] \in Nat /\ remote'[u] \in Nat /\ settled[u] \in Nat
                         /\ remote[u] <= remote'[u]
  BY <1>4, TreeFacts DEF Snapshot
<1>6. SourceInv'
  <2>1. \A u \in Targets : settled[u] <= remote'[u]
    BY <1>5 DEF SourceInv
  <2>2. QED
    BY <1>1, <1>2, <1>3, <2>1 DEF SourceInv, Arrives, OnlyMoves
<1>7. ActInv'
  <2>1. ASSUME NEW p \in Requests, p # q, step[p] # "idle" PROVE made[p] <= remote'[target[p]]
    <3>1. target[p] \in Targets /\ made[p] \in Nat /\ made[p] <= remote[target[p]]
      BY <2>1, TreeFacts DEF TargetInv, ActInv, TypeOK
    <3>2. QED
      BY <1>5, <3>1
  <2>2. v <= remote'[t]
    BY <1>4, TreeFacts
  <2>3. QED
    BY <1>1, <1>2, <1>3, <2>1, <2>2 DEF ActInv, Clean, OnlyMoves
<1>8. ChainInv'
  <2> SUFFICES ASSUME NEW u \in Targets, Src(u) # u - 1, NEW p \in Requests,
                      step'[p] # "idle" \/ pos'[p] >= Src(u)
               PROVE  IsResult(list[Src(u) - 1])
    BY <1>1, <1>2 DEF ChainInv
  <2>1. CASE p # q
    BY <1>1, <1>3, <2>1 DEF ChainInv, OnlyMoves
  <2>2. CASE p = q
    <3>1. u = t /\ Src(t) \in Nat /\ t \in Nat /\ Src(t) < t
      BY SrcFacts
    <3>2. pos[q] >= Src(u)
      BY <3>1
    <3>3. QED
      BY <3>2 DEF ChainInv
  <2>3. QED
    BY <2>1, <2>2
<1>9. QED
  BY <1>6, <1>7, <1>8 DEF FactInv

LEMMA ActStep ==
    ASSUME \A tr \in Trees : HasSource(tr), IInv, NEW q \in Requests, NEW t \in Targets,
           Signal(q, t) \/ Delete(q, t) \/ DeletePending(q, t) \/ CacheHandler(q, t)
    PROVE  FactInv'
<1> USE DEF IInv
<1>1. remote[t] \in Versions /\ remote[t] \in Nat /\ Gone \in Versions /\ remote[t] <= Gone
  BY TreeFacts DEF TypeOK, Snapshot
<1>2. remote[t] < MaxVersion => remote[t] + 1 \in Versions /\ remote[t] <= remote[t] + 1
  BY <1>1, BoundsAssumption DEF Versions, Gone
<1>3. CASE Signal(q, t) \/ DeletePending(q, t)
  BY <1>2, <1>3, StartStep DEF Signal, DeletePending, At
<1>4. CASE Delete(q, t)
  <2>1. Src(t) = t - 1
    BY <1>4, SrcFacts DEF Delete
  <2>2. QED
    BY <1>1, <1>4, <2>1, StartStep DEF Delete, At
<1>5. CASE CacheHandler(q, t)
  <2>1. Src(t) = t - 1
    BY <1>5, SrcFacts DEF CacheHandler
  <2>2. gen[q] = Absent
    BY <1>5 DEF CacheHandler, GenInv
  <2>3. remote[t] <= remote[t]
    BY <1>1
  <2>4. QED
    BY <1>1, <1>5, <2>1, <2>2, <2>3, StartStep DEF CacheHandler
<1>6. QED
  BY <1>3, <1>4, <1>5

-----------------------------------------------------------------------------
(* ClearCacheFor *)

LEMMA DeleteStep ==
    ASSUME \A tr \in Trees : HasSource(tr), IInv, NEW q \in Requests, DeleteKeys(q)
    PROVE  FactInv'
<1> USE DEF IInv
<1>1. /\ UNCHANGED <<tree, remote, pos, snap, gen, floor, target, made, settled>>
      /\ step[q] # "idle" /\ probe'[q] = target[q]
      /\ \A p \in Requests : p # q => step'[p] = step[p] /\ probe'[p] = probe[p]
      /\ \/ step[q] = "delete" /\ step'[q] = "probe"
         \/ step[q] = "delete_keep" /\ step'[q] = "remove"
  BY DEF DeleteKeys, TypeOK, walkVars
<1>2. /\ Targets' = Targets /\ Entries' = Entries /\ \A u : Src(u)' = Src(u)
  BY <1>1, SameTree
<1>3. /\ \A n \in Entries : IsResult(list'[n]) => list'[n] = list[n]
      /\ \A n \in Entries : n < target[q] => list'[n] = list[n]
      /\ \A v \in Requests : ~IsResult(gen[v])
  <2>1. target[q] \in Nat /\ \A n \in Entries : n \in Nat
    BY DEF TypeOK, Entries
  <2>2. QED
    BY <2>1 DEF DeleteKeys, NoneGenerating, IsResult
<1>4. target[q] \in Targets /\ target[q] \in Nat /\ Src(target[q]) \in Nat /\ Src(target[q]) < target[q]
  BY <1>1, SrcFacts DEF TargetInv
<1>5. SourceInv'
  BY <1>1, <1>2, <1>3 DEF SourceInv
<1>6. ActInv'
  BY <1>1, <1>2, <1>3, <1>4 DEF ActInv, Clean
<1>7. ChainInv'
  <2> SUFFICES ASSUME NEW u \in Targets, Src(u) # u - 1, NEW p \in Requests,
                      step'[p] # "idle" \/ pos[p] >= Src(u)
               PROVE  IsResult(list'[Src(u) - 1])
    BY <1>1, <1>2 DEF ChainInv
  <2>1. u = target[q] /\ 2 <= Src(u)
    BY <1>4, SrcFacts
  <2>2. Src(u) - 1 \in Entries /\ Src(u) - 1 < target[q]
    BY <1>4, <2>1, SrcFacts, TreeFacts DEF Entries
  <2>3. IsResult(list[Src(u) - 1])
    BY <1>1 DEF ChainInv
  <2>4. QED
    BY <1>3, <2>2, <2>3
<1>8. QED
  BY <1>5, <1>6, <1>7 DEF FactInv

LEMMA ExpireStep ==
    ASSUME \A tr \in Trees : HasSource(tr), IInv, NEW m \in Entries, Expire(m)
    PROVE  FactInv'
<1> USE DEF IInv
<1>1. /\ UNCHANGED <<tree, remote, pos, snap, gen, floor, step, target, probe, made, settled>>
      /\ \A n \in Entries : IsResult(list'[n]) => list'[n] = list[n]
      /\ \A n \in Entries : n \notin Expiring => list'[n] = list[n]
  BY DEF Expire, TypeOK, walkVars, actVars, IsResult
<1>2. /\ Targets' = Targets /\ Entries' = Entries /\ \A u : Src(u)' = Src(u)
  BY <1>1, SameTree
<1>3. \A u \in Targets : Src(u) # u - 1 => Src(u) - 1 \in Entries /\ Src(u) - 1 \notin Expiring
  BY SrcFacts, TreeFacts DEF Entries
<1>4. SourceInv'
  BY <1>1, <1>2 DEF SourceInv
<1>5. ActInv'
  BY <1>1, <1>2 DEF ActInv, Clean
<1>6. ChainInv'
  BY <1>1, <1>2, <1>3 DEF ChainInv
<1>7. QED
  BY <1>4, <1>5, <1>6 DEF FactInv

\* An action is over: everything that may still be found is as new as it made its target.
LEMMA SettleStep ==
    ASSUME \A tr \in Trees : HasSource(tr), IInv, NEW q \in Requests, step[q] # "idle", Settle(q),
           UNCHANGED <<tree, remote, walkVars>>,
           \A n \in Entries : IsResult(list'[n]) =>
               IsResult(list[n]) /\ \A u \in Targets : list[n][u] <= list'[n][u]
                                                       /\ list[n][u] \in Nat /\ list'[n][u] \in Nat,
           \A v \in Requests : pos[v] = Src(target[q]) /\ IsResult(gen[v]) =>
               made[q] <= gen[v][target[q]],
           Src(target[q]) \in Entries /\ IsResult(list'[Src(target[q])]) =>
               made[q] <= list'[Src(target[q])][target[q]],
           \A u \in Targets : Src(u) # u - 1 /\ IsResult(list[Src(u) - 1]) =>
               IsResult(list'[Src(u) - 1])
    PROVE  FactInv'
<1> USE DEF IInv
<1>1. /\ UNCHANGED <<tree, remote, pos, snap, gen, floor>> /\ step'[q] = "idle"
      /\ \A p \in Requests : p # q =>
            /\ step'[p] = step[p] /\ target'[p] = target[p]
            /\ made'[p] = made[p] /\ probe'[p] = probe[p]
  BY DEF Settle, TypeOK, walkVars
<1>2. /\ Targets' = Targets /\ Entries' = Entries /\ \A u : Src(u)' = Src(u)
  BY <1>1, SameTree
<1>3. target[q] \in Targets /\ made[q] \in Nat /\ made[q] <= remote[target[q]]
  BY TreeFacts DEF TargetInv, ActInv, TypeOK
<1>4. ASSUME NEW u \in Targets
      PROVE  /\ settled[u] \in Nat /\ settled'[u] \in Nat /\ settled[u] <= settled'[u]
             /\ remote[u] \in Nat
             /\ settled'[u] = settled[u] \/ (u = target[q] /\ settled'[u] = made[q])
  <2>1. settled \in [Targets -> Versions] /\ settled[u] \in Nat /\ remote[u] \in Nat
    BY <1>4, TreeFacts DEF TypeOK, Snapshot
  <2>2. settled'[u] = IF u = target[q] THEN Newer(settled[u], made[q]) ELSE settled[u]
    BY <1>4, <2>1 DEF Settle
  <2>3. QED
    BY <1>3, <2>1, <2>2 DEF Newer
<1>5. SourceInv'
  <2> SUFFICES ASSUME NEW u \in Targets
               PROVE  /\ settled'[u] <= remote[u]
                      /\ Src(u) \in Entries /\ IsResult(list'[Src(u)]) => settled'[u] <= list'[Src(u)][u]
                      /\ \A v \in Requests :
                            /\ pos[v] = Src(u) /\ IsResult(gen[v]) => settled'[u] <= gen[v][u]
                            /\ pos[v] \in (Src(u) + 1) .. u => floor[v][u] <= snap[v][u]
                            /\ floor[v][u] <= settled'[u]
    BY <1>1, <1>2 DEF SourceInv
  <2>1. settled'[u] <= remote[u]
    BY <1>3, <1>4 DEF SourceInv
  <2>2. ASSUME Src(u) \in Entries, IsResult(list'[Src(u)]) PROVE settled'[u] <= list'[Src(u)][u]
    <3>1. /\ settled[u] <= list[Src(u)][u] /\ list[Src(u)][u] <= list'[Src(u)][u]
          /\ list[Src(u)][u] \in Nat /\ list'[Src(u)][u] \in Nat
      BY <2>2 DEF SourceInv
    <3>2. settled[u] <= list'[Src(u)][u]
      BY <1>4, <3>1
    <3>3. QED
      BY <1>4, <2>2, <3>2
  <2>3. ASSUME NEW v \in Requests
        PROVE  /\ pos[v] = Src(u) /\ IsResult(gen[v]) => settled'[u] <= gen[v][u]
               /\ pos[v] \in (Src(u) + 1) .. u => floor[v][u] <= snap[v][u]
    BY <1>4, <2>3 DEF SourceInv
  <2>4. ASSUME NEW v \in Requests PROVE floor[v][u] <= settled'[u]
    <3>1. floor[v][u] \in Nat /\ floor[v][u] <= settled[u]
      BY <2>4, TreeFacts DEF TypeOK, Snapshot, SourceInv
    <3>2. QED
      BY <1>4, <3>1
  <2>5. QED
    BY <2>1, <2>2, <2>3, <2>4
<1>6. ASSUME NEW p \in Requests, p # q, step[p] # "idle", Clean(p) PROVE Clean(p)'
  <2> SUFFICES ASSUME Src(target[p]) \in Entries, IsResult(list'[Src(target[p])])
               PROVE  made[p] <= list'[Src(target[p])][target[p]]
    BY <1>1, <1>2, <1>6 DEF Clean
  <2>1. target[p] \in Targets /\ made[p] \in Nat
    BY <1>6, TreeFacts DEF TargetInv, TypeOK
  <2>2. /\ made[p] <= list[Src(target[p])][target[p]]
        /\ list[Src(target[p])][target[p]] <= list'[Src(target[p])][target[p]]
        /\ list[Src(target[p])][target[p]] \in Nat /\ list'[Src(target[p])][target[p]] \in Nat
    BY <1>6, <2>1 DEF Clean
  <2>3. QED
    BY <2>1, <2>2
<1>7. ActInv'
  BY <1>1, <1>2, <1>6 DEF ActInv
<1>8. ChainInv'
  BY <1>1, <1>2 DEF ChainInv
<1>9. QED
  BY <1>5, <1>7, <1>8 DEF FactInv

LEMMA ProbeStep ==
    ASSUME \A tr \in Trees : HasSource(tr), IInv, NEW q \in Requests, Probe(q)
    PROVE  FactInv'
<1> USE DEF IInv
<1> DEFINE t == target[q]
<1>1. /\ UNCHANGED <<tree, remote, list, walkVars>> /\ step[q] = "probe"
      /\ t \in Targets /\ t \in Nat /\ Src(t) \in Nat /\ Src(t) < t /\ probe[q] \in Nat
      /\ probe[q] \in Entries /\ probe[q] <= t /\ 1 <= probe[q]
      /\ t \notin Prefetched
      /\ \A n \in Entries : Src(t) < n /\ n < t => n \in Prefetched
  BY SrcFacts, TreeFacts DEF Probe, TargetInv, ActInv, TypeOK, Entries
<1> HIDE DEF t
<1>2. /\ Targets' = Targets /\ Entries' = Entries /\ \A u : Src(u)' = Src(u)
  BY <1>1, SameTree
<1>3. /\ \A v \in Requests : pos[v] = Src(t) /\ IsResult(gen[v]) => made[q] <= gen[v][t]
      /\ Src(t) = t - 1 => probe[q] = t \/ Clean(q)
      /\ Src(t) # t - 1 => Src(t) <= probe[q]
  BY <1>1 DEF ActInv, t
\* In a volume the search ends at the source.
<1>4. ASSUME Src(t) # t - 1
      PROVE  /\ FoundSource(probe[q]) <=> probe[q] = Src(t)
             /\ 2 <= Src(t)
  <2>1. /\ Targets = {t} /\ 2 <= Src(t) /\ Src(t) - 1 \in Entries /\ Src(t) \notin Prefetched
        /\ t - 1 \in Uncached
    <3>1. t - 1 \in Entries
      BY <1>1, <1>4, SrcFacts, TreeFacts DEF Entries
    <3>2. QED
      BY <1>1, <1>4, <3>1, SrcFacts, TreeFacts DEF Entries
  <2>2. IsResult(list[Src(t) - 1])
    BY <1>1, <1>4 DEF ChainInv
  <2>3. CASE probe[q] = Src(t)
    <3>1. Src(t) \notin Targets /\ Src(t) > 1
      BY <1>1, <2>1
    <3>2. QED
      BY <2>1, <2>2, <2>3, <3>1 DEF FoundSource, getCachedEntry, There
  <2>4. CASE probe[q] = t
    <3>1. list[t - 1] = Absent
      BY <2>1 DEF GenInv
    <3>2. QED
      BY <1>1, <2>1, <2>4, <3>1 DEF FoundSource, getCachedEntry, IsResult
  <2>5. CASE Src(t) < probe[q] /\ probe[q] < t
    BY <1>1, <2>1, <2>5 DEF FoundSource
  <2>6. QED
    BY <1>1, <1>3, <1>4, <2>1, <2>3, <2>4, <2>5
\* Elsewhere the parent's listing is found, or there is none that has the target.
<1>5. ASSUME Src(t) = t - 1, probe[q] = t, ~FoundSource(t) PROVE Clean(q)
  <2> SUFFICES ASSUME t - 1 \in Entries, IsResult(list[t - 1]) PROVE made[q] <= list[t - 1][t]
    BY <1>5 DEF Clean, t
  <2>1. t > 1
    BY <1>1 DEF Entries
  <2>2. list[t - 1][t] = Gone
    BY <1>1, <1>5, <2>1 DEF FoundSource, getCachedEntry, There
  <2>3. made[q] <= Gone
    BY TreeFacts DEF TypeOK
  <2>4. QED
    BY <2>2, <2>3
<1>6. SourceInv /\ ChainInv /\ UNCHANGED <<target, made, settled>> /\ (step'[q] # "idle")
      /\ (\A p \in Requests : p # q => step'[p] = step[p]) => SourceInv' /\ ChainInv'
  <2>1. UNCHANGED <<pos, snap, gen, floor>>
    BY <1>1 DEF walkVars
  <2>2. UNCHANGED settled => SourceInv'
    BY <1>1, <1>2, <2>1 DEF SourceInv
  <2>3. (\A p \in Requests : p # q => step'[p] = step[p]) => ChainInv'
    BY <1>1, <1>2, <2>1 DEF ChainInv
  <2>4. QED
    BY <2>2, <2>3
<1>7. CASE FoundSource(probe[q])
  <2>1. /\ probe'[q] = Source(q) /\ step'[q] = "delete_list" /\ UNCHANGED <<target, made, settled>>
        /\ \A p \in Requests : p # q => step'[p] = step[p] /\ probe'[p] = probe[p]
    BY <1>7 DEF Probe, TypeOK
  <2>2. Source(q) = Src(t) \/ (Src(t) = t - 1 /\ Clean(q))
    BY <1>1, <1>3, <1>4, <1>7 DEF Source, t
  <2>3. ActInv'
    BY <1>1, <1>2, <1>3, <2>1, <2>2 DEF ActInv, Clean, t, walkVars
  <2>4. QED
    BY <1>6, <2>1, <2>3 DEF FactInv
<1>8. CASE ~FoundSource(probe[q]) /\ probe[q] = 1
  <2>1. Settle(q)
    BY <1>8 DEF Probe
  <2>2. Src(t) = t - 1
    BY <1>1, <1>3, <1>4, <1>8
  <2>3. Clean(q)
    BY <1>3, <1>5, <1>8, <2>2
  <2>4. \A n \in Entries, u \in Targets : IsResult(list[n]) => list[n][u] \in Nat
    BY TreeFacts DEF TypeOK, Snapshot, IsResult
  <2>5. QED
    BY <1>1, <1>3, <2>1, <2>3, <2>4, SettleStep DEF Clean, t
<1>9. CASE ~FoundSource(probe[q]) /\ probe[q] # 1
  <2>1. /\ probe'[q] = probe[q] - 1 /\ UNCHANGED <<step, target, made, settled>>
        /\ \A p \in Requests : p # q => probe'[p] = probe[p]
    BY <1>9 DEF Probe, TypeOK
  <2>2. /\ probe[q] - 1 <= t
        /\ Src(t) = t - 1 => Clean(q)
        /\ Src(t) # t - 1 => Src(t) <= probe[q] - 1
    BY <1>1, <1>3, <1>4, <1>5, <1>9
  <2>3. ActInv'
    BY <1>1, <1>2, <1>3, <2>1, <2>2 DEF ActInv, Clean, t, walkVars
  <2>4. QED
    BY <1>1, <1>6, <2>1, <2>3 DEF FactInv
<1>10. QED
  BY <1>7, <1>8, <1>9

LEMMA SourceListStep ==
    ASSUME \A tr \in Trees : HasSource(tr), IInv, NEW q \in Requests, DeleteSourceList(q)
    PROVE  FactInv'
<1> USE DEF IInv
<1>1. /\ UNCHANGED <<tree, remote, walkVars>> /\ step[q] = "delete_list" /\ Settle(q)
      /\ list' = [list EXCEPT ![probe[q]] = Absent] /\ ~IsResult(Absent)
      /\ target[q] \in Targets
      /\ list \in [Entries -> Snapshot \union {Absent, Failed}]
  BY DEF DeleteSourceList, TargetInv, TypeOK, IsResult
<1>2. /\ probe[q] = Src(target[q]) \/ (Src(target[q]) = target[q] - 1 /\ Clean(q))
      /\ \A v \in Requests : pos[v] = Src(target[q]) /\ IsResult(gen[v]) => made[q] <= gen[v][target[q]]
  BY <1>1 DEF ActInv
<1>3. \A n \in Entries : IsResult(list'[n]) => list'[n] = list[n]
  BY <1>1
<1>4. \A n \in Entries, u \in Targets : IsResult(list[n]) => list[n][u] \in Nat
  BY TreeFacts DEF TypeOK, Snapshot, IsResult
<1>5. ASSUME Src(target[q]) \in Entries, IsResult(list'[Src(target[q])])
      PROVE  made[q] <= list'[Src(target[q])][target[q]]
  BY <1>1, <1>2, <1>3, <1>5 DEF Clean
<1>6. ASSUME NEW u \in Targets, Src(u) # u - 1, IsResult(list[Src(u) - 1])
      PROVE  IsResult(list'[Src(u) - 1])
  <2>1. u = target[q] /\ Src(u) \in Nat /\ 2 <= Src(u) /\ Src(u) - 1 \in Entries
    BY <1>1, <1>6, SrcFacts, TreeFacts DEF Entries
  <2>2. probe[q] # Src(u) - 1
    BY <1>2, <1>6, <2>1
  <2>3. QED
    BY <1>1, <1>6, <2>1, <2>2
<1>7. QED
  BY <1>1, <1>2, <1>3, <1>4, <1>5, <1>6, SettleStep

LEMMA RemoveStep ==
    ASSUME \A tr \in Trees : HasSource(tr), IInv, NEW q \in Requests, RemoveFromParent(q)
    PROVE  FactInv'
<1> USE DEF IInv
<1> DEFINE t == target[q]
<1>1. /\ UNCHANGED <<tree, remote, walkVars>> /\ step[q] = "remove" /\ Settle(q)
      /\ t \in Targets /\ Src(t) = t - 1
      /\ \A v \in Requests : pos[v] = Src(t) /\ IsResult(gen[v]) => made[q] <= gen[v][t]
  BY DEF RemoveFromParent, TargetInv, ActInv
<1>2. /\ list \in [Entries -> Snapshot \union {Absent, Failed}] /\ made[q] <= Gone /\ Gone \in Nat
      /\ \A n \in Entries : IsResult(list[n]) => list[n] \in [Targets -> Versions]
      /\ \A v \in Versions : v \in Nat /\ v <= Gone
  BY TreeFacts DEF TypeOK, IsResult, Snapshot
<1>3. list' = IF t - 1 \in Entries /\ IsResult(list[t - 1])
              THEN [list EXCEPT ![t - 1] = [list[t - 1] EXCEPT ![t] = Gone]] ELSE list
  BY DEF RemoveFromParent
<1> HIDE DEF t
<1>4. CASE t - 1 \in Entries /\ IsResult(list[t - 1])
  <2> DEFINE r == [list[t - 1] EXCEPT ![t] = Gone]
  <2>1. /\ list[t - 1] \in [Targets -> Versions] /\ r[t] = Gone
        /\ \A u \in Targets : u # t => r[u] = list[t - 1][u]
    BY <1>1, <1>2, <1>4
  <2>2. \A u \in Targets : list[t - 1][u] <= r[u] /\ list[t - 1][u] \in Nat /\ r[u] \in Nat
    BY <1>2, <2>1
  <2> HIDE DEF r
  <2>3. list'[t - 1] = r /\ \A n \in Entries : n # t - 1 => list'[n] = list[n]
    BY <1>2, <1>3, <1>4 DEF r
  <2>4. ASSUME NEW n \in Entries, IsResult(list'[n])
        PROVE  IsResult(list[n]) /\ \A u \in Targets : list[n][u] <= list'[n][u]
                                       /\ list[n][u] \in Nat /\ list'[n][u] \in Nat
    BY <1>2, <1>4, <2>2, <2>3, <2>4
  <2>5. made[q] <= list'[t - 1][t]
    BY <1>2, <2>1, <2>3
  <2>6. ASSUME NEW u \in Targets, Src(u) # u - 1 PROVE FALSE
    BY <1>1, <2>6, SrcFacts
  <2>7. QED
    BY <1>1, <2>4, <2>5, <2>6, SettleStep DEF t
<1>5. CASE ~(t - 1 \in Entries /\ IsResult(list[t - 1]))
  <2>1. list' = list
    BY <1>3, <1>5
  <2>2. \A n \in Entries, u \in Targets : IsResult(list[n]) => list[n][u] \in Nat
    BY <1>2
  <2>3. QED
    BY <1>1, <1>5, <2>1, <2>2, SettleStep DEF t
<1>6. QED
  BY <1>4, <1>5

-----------------------------------------------------------------------------
(* Theorems *)

\* The type invariant, on any path.
THEOREM TypeCorrect == Spec => []TypeOK
<1> DEFINE Inv == TypeOK /\ TargetInv /\ GenInv
<1>1. Init => Inv
  <2>1. Init => TypeOK
    BY InitType
  <2>2. Init /\ TypeOK => TargetInv /\ GenInv
    BY TreeFacts DEF Init, TargetInv, GenInv
  <2>3. QED
    BY <2>1, <2>2
<1>2. Inv /\ [Next]_vars => Inv'
  <2> SUFFICES ASSUME Inv, [Next]_vars PROVE TypeOK' /\ TargetInv' /\ GenInv'
    OBVIOUS
  <2>1. TypeOK'
    BY TypeStep
  <2>2. CASE Next
    BY <2>1, <2>2, TargetStep, GenStep
  <2>3. CASE UNCHANGED vars
    <3>1. UNCHANGED <<tree, list, pos, gen, step, target>>
      BY <2>3 DEF vars, walkVars, actVars
    <3>2. Targets' = Targets /\ Depth' = Depth /\ Uncached' = Uncached
      BY <3>1, SameTree
    <3>3. QED
      BY <2>1, <3>1, <3>2 DEF TargetInv, GenInv
  <2>4. QED
    BY <2>2, <2>3
<1>3. QED
  BY <1>1, <1>2, PTL DEF Spec

LEMMA InitInv ==
    ASSUME \A tr \in Trees : HasSource(tr), Init
    PROVE  IInv
<1>1. TypeOK
  BY InitType
<1>2. TargetInv /\ ActInv
  BY DEF Init, TargetInv, ActInv
<1>3. GenInv
  BY <1>1, TreeFacts DEF Init, GenInv
<1>4. ~IsResult(Absent) /\ 0 <= 0 /\ \A t \in Targets : Zero[t] = 0
  BY DEF IsResult, Zero
<1>5. SourceInv
  BY <1>4 DEF Init, SourceInv
<1>6. ChainInv
  <2>1. \A t \in Targets : Src(t) # t - 1 => ~(0 >= Src(t))
    BY <1>1, SrcFacts
  <2>2. QED
    BY <2>1 DEF Init, ChainInv
<1>7. QED
  BY <1>1, <1>2, <1>3, <1>5, <1>6 DEF IInv

LEMMA InvStep ==
    ASSUME \A tr \in Trees : HasSource(tr), IInv, [Next]_vars
    PROVE  IInv'
<1> USE DEF IInv
<1>1. CASE UNCHANGED vars
  <2>1. UNCHANGED <<tree, remote, list, pos, snap, gen, floor, step, target, probe, made, settled>>
    BY <1>1 DEF vars, walkVars, actVars
  <2>2. TypeOK'
    BY TypeStep
  <2>3. /\ Targets' = Targets /\ Entries' = Entries /\ Depth' = Depth /\ Uncached' = Uncached
        /\ \A u : Src(u)' = Src(u)
    BY <2>1, SameTree
  <2>4. TargetInv' /\ GenInv' /\ SourceInv' /\ ActInv' /\ ChainInv'
    BY <2>1, <2>3 DEF TargetInv, GenInv, SourceInv, ActInv, Clean, ChainInv
  <2>5. QED
    BY <2>2, <2>4
<1>2. CASE Next
  <2>1. TypeOK' /\ TargetInv' /\ GenInv'
    BY <1>2, TypeStep, TargetStep, GenStep
  <2>2. FactInv'
    BY <1>2, WalkStep, BeginStep, EndStep, ActStep, DeleteStep, ProbeStep, SourceListStep,
       RemoveStep, ExpireStep DEF Next
  <2>3. QED
    BY <2>1, <2>2 DEF FactInv
<1>3. QED
  BY <1>1, <1>2

\* methodWrappers.go:258-259, 271-278: on paths on which every target has a source that
\* ClearCacheFor finds (HasSource), nothing that was cached, being listed, or carried along
\* while Signal, Delete or DELETE /cache ran is found by a lookup that begins after it.
THEOREM FreshAfterActionCorrect ==
    ASSUME \A tr \in Trees : HasSource(tr)
    PROVE  Spec => []FreshAfterAction
<1>1. (Init => IInv) /\ (IInv /\ [Next]_vars => IInv')
  BY InitInv, InvStep
<1>2. IInv => FreshAfterAction
  <2> SUFFICES ASSUME IInv, NEW q \in Requests, pos[q] \in Targets
               PROVE  snap[q][pos[q]] >= floor[q][pos[q]]
    BY DEF FreshAfterAction
  <2>1. TypeOK
    BY DEF IInv
  <2>2. pos[q] \in (Src(pos[q]) + 1) .. pos[q]
    BY <2>1, SrcFacts
  <2>3. floor[q][pos[q]] <= snap[q][pos[q]]
    BY <2>2 DEF IInv, SourceInv
  <2>4. QED
    BY <2>3
<1>3. QED
  BY <1>1, <1>2, PTL DEF Spec
=============================================================================
