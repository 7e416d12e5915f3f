----------------------- MODULE ServerLifecycleProofs -----------------------
(* Theorems about ServerLifecycle, for any plugins, any number of requests and *)
(* any size of the analytics queue, whatever fails.                            *)
EXTENDS ServerLifecycle, FiniteSetTheorems, TLAPS

-----------------------------------------------------------------------------
(* The registry *)

\* The goroutine that holds mux is the only one that appends, and it appends to the
\* list as it is; the list, the map and failedPlugins hold what has been registered
\* so far.
RegInv ==
    /\ RegTypeOK
    /\ \A p \in Plugins : loader[p] \in {"append", "panicked"} <=> regMux = p
    /\ DOMAIN plugins = {p \in Plugins : loader[p] \in {"append", "report", "done"}}
    /\ \A p \in Plugins : loader[p] = "append" => read[p] = pluginRoots
    /\ Range(pluginRoots) = {p \in Plugins : loader[p] \in {"report", "done"}}
    /\ Len(pluginRoots) = Cardinality(Range(pluginRoots))
    /\ \A p \in Plugins : loader[p] = "report" => p \in Internal /\ plugins[p] = "stub"
    /\ failed = {p \in Plugins \intersect Internal : loader[p] = "done" /\ plugins[p] = "stub"}

LEMMA SeqElement ==
    ASSUME NEW S, NEW q \in Seq(S), NEW i \in 1 .. Len(q)
    PROVE  q[i] \in S
OBVIOUS

LEMMA RangeFacts ==
    ASSUME NEW S, NEW q \in Seq(S)
    PROVE  /\ Range(q) = {q[i] : i \in 1 .. Len(q)}
           /\ Range(q) \subseteq S
           /\ Len(q) \in Nat
<1>1. DOMAIN q = 1 .. Len(q) /\ Len(q) \in Nat
  OBVIOUS
<1>2. Range(q) = {q[i] : i \in 1 .. Len(q)}
  BY <1>1, Zenon DEF Range
<1>3. Range(q) \subseteq S
  <2>1. \A i \in 1 .. Len(q) : q[i] \in S
    BY SeqElement
  <2>2. QED
    BY <1>2, <2>1
<1>4. QED
  BY <1>1, <1>2, <1>3

LEMMA AppendFacts ==
    ASSUME NEW S, NEW q \in Seq(S), NEW x \in S
    PROVE  /\ Append(q, x) \in Seq(S)
           /\ Len(q) \in Nat
           /\ Len(Append(q, x)) = Len(q) + 1
           /\ Append(q, x)[Len(q) + 1] = x
           /\ \A i \in 1 .. Len(q) : Append(q, x)[i] = q[i]
OBVIOUS

LEMMA AppendRange ==
    ASSUME NEW S, NEW q \in Seq(S), NEW x \in S
    PROVE  Range(Append(q, x)) = Range(q) \union {x}
<1> DEFINE r == Append(q, x)
           n == Len(q)
<1>1. /\ r \in Seq(S) /\ n \in Nat /\ Len(r) = n + 1 /\ r[n + 1] = x
      /\ \A i \in 1 .. n : r[i] = q[i]
  BY AppendFacts
<1> HIDE DEF r, n
<1>2. Range(r) = {r[i] : i \in 1 .. (n + 1)} /\ Range(q) = {q[i] : i \in 1 .. n}
  <2>1. Range(q) = {q[i] : i \in 1 .. Len(q)}
    BY RangeFacts
  <2>2. Range(r) = {r[i] : i \in 1 .. Len(r)}
    BY <1>1, RangeFacts
  <2>3. QED
    BY <1>1, <2>1, <2>2, Zenon DEF n
<1>3. 1 .. (n + 1) = (1 .. n) \union {n + 1}
  BY <1>1
<1>4. QED
  BY <1>1, <1>2, <1>3 DEF r

LEMMA RegInitial == RegInit => RegInv
<1> SUFFICES ASSUME RegInit PROVE RegInv
  OBVIOUS
<1>1. RegTypeOK
  BY DEF RegInit, RegTypeOK
<1>2. Range(pluginRoots) = {} /\ Len(pluginRoots) = 0
  BY DEF RegInit, Range
<1>3. Cardinality({}) = 0
  BY FS_EmptySet
<1>4. QED
  BY <1>1, <1>2, <1>3, PluginsAssumption DEF RegInit, RegInv

\* Every step of a goroutine that loads a plugin.
LEMMA LoaderStep ==
    ASSUME RegInv, NEW p \in Plugins, LoaderNext(p)
    PROVE  RegInv'
<1> USE DEF RegInv, RegTypeOK
<1>1. CASE PluginInit(p)
  <2>1. PICK root \in {"root", "stub"} : loader' = [loader EXCEPT ![p] = root]
    BY <1>1 DEF PluginInit
  <2>2. \A q \in Plugins : loader'[q] # loader[q] => loader[q] = "init" /\ loader'[q] \in {"root", "stub"}
    BY <1>1, <2>1 DEF PluginInit
  <2>3. RegTypeOK'
    BY <1>1, <2>1 DEF PluginInit
  <2>4. QED
    BY ZenonT(40), <1>1, <2>2, <2>3 DEF PluginInit
<1>2. CASE Register(p) /\ loader[p] = "root" /\ p \in Unfit
  <2>1. \A q \in Plugins : loader'[q] = IF q = p THEN "panicked" ELSE loader[q]
    BY <1>2 DEF Register
  <2>2. RegTypeOK' /\ regMux = "free" /\ regMux' = p /\ UNCHANGED <<plugins, pluginRoots, read, failed>>
    BY <1>2 DEF Register
  <2>3. \A q \in Plugins : loader'[q] \in {"append", "panicked"} <=> regMux' = q
    BY <2>1, <2>2, PluginsAssumption
  <2>4. /\ DOMAIN plugins' = {q \in Plugins : loader'[q] \in {"append", "report", "done"}}
        /\ Range(pluginRoots') = {q \in Plugins : loader'[q] \in {"report", "done"}}
        /\ failed' = {q \in Plugins \intersect Internal : loader'[q] = "done" /\ plugins'[q] = "stub"}
    BY <1>2, <2>1, <2>2
  <2>5. QED
    BY <2>1, <2>2, <2>3, <2>4
<1>3. CASE Register(p) /\ ~(loader[p] = "root" /\ p \in Unfit)
  <2>1. \A q \in Plugins : loader'[q] = IF q = p THEN "append" ELSE loader[q]
    BY <1>3 DEF Register
  <2>2. /\ DOMAIN plugins' = DOMAIN plugins \union {p}
        /\ plugins'[p] = loader[p]
        /\ \A q \in DOMAIN plugins : q # p => plugins'[q] = plugins[q]
    BY <1>3 DEF Register
  <2>3. p \notin DOMAIN plugins
    BY <1>3 DEF Register
  <2>4. RegTypeOK'
    <3>1. plugins' \in [DOMAIN plugins' -> {"root", "stub"}] /\ DOMAIN plugins' \subseteq Plugins
      BY <1>3, <2>3 DEF Register
    <3>2. loader' \in [Plugins -> {"init", "root", "stub", "append", "report", "done", "panicked"}]
      BY <1>3 DEF Register
    <3>3. read' \in [Plugins -> Seq(Plugins)]
      BY <1>3 DEF Register
    <3>4. regMux' \in Plugins /\ UNCHANGED <<pluginRoots, failed>>
      BY <1>3 DEF Register
    <3>5. QED
      BY <3>1, <3>2, <3>3, <3>4
  <2>5. read'[p] = pluginRoots /\ \A q \in Plugins \ {p} : read'[q] = read[q]
    BY <1>3 DEF Register
  <2>6. \A q \in Plugins : loader'[q] \in {"append", "panicked"} <=> regMux' = q
    BY <1>3, <2>1, PluginsAssumption DEF Register
  <2>7. failed' = {q \in Plugins \intersect Internal : loader'[q] = "done" /\ plugins'[q] = "stub"}
    BY <1>3, <2>1, <2>2 DEF Register
  <2>8. \A q \in Plugins : loader'[q] = "report" => q \in Internal /\ plugins'[q] = "stub"
    BY <1>3, <2>1, <2>2 DEF Register
  <2>9. /\ DOMAIN plugins' = {q \in Plugins : loader'[q] \in {"append", "report", "done"}}
        /\ \A q \in Plugins : loader'[q] = "append" => read'[q] = pluginRoots
        /\ Range(pluginRoots) = {q \in Plugins : loader'[q] \in {"report", "done"}}
        /\ UNCHANGED pluginRoots
    <3>1. regMux = "free" /\ loader[p] \in {"root", "stub"} /\ UNCHANGED pluginRoots
      BY <1>3 DEF Register
    <3>2. \A q \in Plugins : loader[q] # "append"
      BY <3>1, PluginsAssumption
    <3>3. DOMAIN plugins' = {q \in Plugins : loader'[q] \in {"append", "report", "done"}}
      BY <2>1, <2>2
    <3>4. \A q \in Plugins : loader'[q] = "append" => read'[q] = pluginRoots
      BY <2>1, <2>5, <3>2
    <3>5. Range(pluginRoots) = {q \in Plugins : loader'[q] \in {"report", "done"}}
      BY <2>1, <3>1
    <3>6. QED
      BY <3>1, <3>3, <3>4, <3>5
  <2>10. QED
    BY <2>4, <2>6, <2>7, <2>8, <2>9
<1>4. CASE RegisterReturns(p)
  <2> DEFINE l == IF plugins[p] = "stub" /\ p \in Internal THEN "report" ELSE "done"
  <2>1. /\ loader[p] = "append" /\ regMux = p /\ read[p] = pluginRoots
        /\ regMux' = "free" /\ UNCHANGED <<plugins, failed>>
        /\ pluginRoots' = Append(pluginRoots, p)
    BY <1>4 DEF RegisterReturns
  <2>2. \A q \in Plugins : loader'[q] = IF q = p THEN l ELSE loader[q]
    BY <1>4 DEF RegisterReturns
  <2>3. /\ pluginRoots' \in Seq(Plugins) /\ Len(pluginRoots') = Len(pluginRoots) + 1
        /\ Range(pluginRoots') = Range(pluginRoots) \union {p}
    BY <2>1, AppendFacts, AppendRange
  <2>4. RegTypeOK'
    <3>1. loader' \in [Plugins -> {"init", "root", "stub", "append", "report", "done", "panicked"}]
      BY <1>4 DEF RegisterReturns
    <3>2. read' \in [Plugins -> Seq(Plugins)]
      BY <1>4 DEF RegisterReturns
    <3>3. QED
      BY <2>1, <2>3, <3>1, <3>2
  <2>5. Len(pluginRoots') = Cardinality(Range(pluginRoots'))
    <3>1. IsFiniteSet(Range(pluginRoots))
      BY PluginsAssumption, FS_Subset
    <3>2. p \notin Range(pluginRoots)
      BY <2>1
    <3>3. Cardinality(Range(pluginRoots) \union {p}) = Cardinality(Range(pluginRoots)) + 1
      BY <3>1, <3>2, FS_AddElement
    <3>4. QED
      BY <2>3, <3>3
  <2>6. \A q \in Plugins : loader'[q] \in {"append", "panicked"} <=> regMux' = q
    BY <2>1, <2>2, PluginsAssumption
  <2>7. /\ DOMAIN plugins' = {q \in Plugins : loader'[q] \in {"append", "report", "done"}}
        /\ \A q \in Plugins : loader'[q] # "append"
    BY <2>1, <2>2
  <2>8. Range(pluginRoots') = {q \in Plugins : loader'[q] \in {"report", "done"}}
    BY <2>1, <2>2, <2>3
  <2>9. \A q \in Plugins : loader'[q] = "report" => q \in Internal /\ plugins'[q] = "stub"
    BY <2>1, <2>2
  <2>10. failed' = {q \in Plugins \intersect Internal : loader'[q] = "done" /\ plugins'[q] = "stub"}
    BY <2>1, <2>2
  <2>11. QED
    BY <2>4, <2>5, <2>6, <2>7, <2>8, <2>9, <2>10
<1>5. CASE ReportFailed(p)
  <2>1. \A q \in Plugins : loader'[q] = IF q = p THEN "done" ELSE loader[q]
    BY <1>5 DEF ReportFailed
  <2>2. RegTypeOK'
    BY <1>5 DEF ReportFailed
  <2>3. failed' = {q \in Plugins \intersect Internal : loader'[q] = "done" /\ plugins'[q] = "stub"}
    BY <1>5, <2>1 DEF ReportFailed
  <2>4. loader[p] = "report" /\ UNCHANGED <<regMux, plugins, pluginRoots, read>>
    BY <1>5 DEF ReportFailed
  <2>5. /\ DOMAIN plugins' = {q \in Plugins : loader'[q] \in {"append", "report", "done"}}
        /\ Range(pluginRoots') = {q \in Plugins : loader'[q] \in {"report", "done"}}
    BY <2>1, <2>4
  <2>6. QED
    BY <2>1, <2>2, <2>3, <2>4, <2>5
<1>6. QED
  BY <1>1, <1>2, <1>3, <1>4, <1>5 DEF LoaderNext

\* Once every goroutine has ended the registry is complete.
LEMMA LoadedComplete == RegInv /\ AllLoaded => RegistryComplete
<1> SUFFICES ASSUME RegInv, AllLoaded PROVE RegistryComplete
  OBVIOUS
<1>1. Range(pluginRoots) = Plugins /\ DOMAIN plugins = Plugins
  BY DEF RegInv, AllLoaded
<1>2. QED
  BY <1>1 DEF RegInv, AllLoaded, RegistryComplete

-----------------------------------------------------------------------------
(* The analytics client *)

\* Hits are numbered and each is queued once; the thread that posts holds the lock;
\* without a client nothing happens.
AnaInv ==
    /\ AnaTypeOK
    /\ \A t \in Threads : at[t] = "post" <=> queueLock = t
    /\ \A c \in Callers : at[c] # "idle" =>
          /\ hit[c] <= submits
          /\ \A i \in 1 .. Len(enqueued) : enqueued[i] # hit[c]
          /\ \A d \in Callers : d # c /\ at[d] # "idle" => hit[d] # hit[c]
    /\ \A i \in 1 .. Len(enqueued) : enqueued[i] <= submits
    /\ \A i, j \in 1 .. Len(enqueued) : i # j => enqueued[i] # enqueued[j]
    /\ dropped \subseteq Range(enqueued)
    /\ client # "real" => enqueued = <<>> /\ \A t \in Threads : at[t] = "idle"
    /\ HitsOnce

LEMMA LastIndex ==
    ASSUME NEW n \in Nat
    PROVE  \A i \in 1 .. (n + 1) : i \in 1 .. n \/ i = n + 1
OBVIOUS

\* The first of the conditions of HitsOnce, and the order.
Ordered(s, e) ==
    \A i, j \in 1 .. Len(s), k, l \in 1 .. Len(e) : i < j /\ s[i] = e[k] /\ s[j] = e[l] => k < l
Accounted(s, e, lost) == Range(s) = Range(e) \ lost /\ Ordered(s, e)

LEMMA RangeElement ==
    ASSUME NEW S, NEW q \in Seq(S)
    PROVE  /\ \A i \in 1 .. Len(q) : q[i] \in Range(q)
           /\ \A x \in Range(q) : \E i \in 1 .. Len(q) : q[i] = x
BY RangeFacts

LEMMA ConcatFacts ==
    ASSUME NEW S, NEW d \in Seq(S), NEW q \in Seq(S)
    PROVE  /\ d \o q \in Seq(S)
           /\ Len(d) \in Nat /\ Len(q) \in Nat
           /\ Len(d \o q) = Len(d) + Len(q)
           /\ \A i \in 1 .. Len(d) : (d \o q)[i] = d[i]
           /\ \A i \in 1 .. Len(q) : (d \o q)[Len(d) + i] = q[i]
OBVIOUS

LEMMA ConcatAppend ==
    ASSUME NEW S, NEW d \in Seq(S), NEW q \in Seq(S), NEW x \in S
    PROVE  d \o Append(q, x) = Append(d \o q, x)
OBVIOUS

LEMMA ConcatEmpty ==
    ASSUME NEW S, NEW d \in Seq(S)
    PROVE  d \o <<>> = d
OBVIOUS

\* A hit that joins the queue is the last one of both.
LEMMA AccountedAppend ==
    ASSUME NEW s \in Seq(Nat), NEW e \in Seq(Nat), NEW lost \in SUBSET Range(e),
           NEW x \in Nat, x \notin Range(e), Accounted(s, e, lost)
    PROVE  Accounted(Append(s, x), Append(e, x), lost)
<1> DEFINE t == Append(s, x)
           f == Append(e, x)
<1>1. /\ Len(s) \in Nat /\ Len(t) = Len(s) + 1 /\ t[Len(s) + 1] = x
      /\ \A i \in 1 .. Len(s) : t[i] = s[i]
  BY AppendFacts
<1>2. /\ Len(e) \in Nat /\ Len(f) = Len(e) + 1 /\ f[Len(e) + 1] = x
      /\ \A i \in 1 .. Len(e) : f[i] = e[i]
  BY AppendFacts
<1>3. Range(t) = Range(s) \union {x} /\ Range(f) = Range(e) \union {x}
  BY AppendRange
<1>4. \A i \in 1 .. Len(s) : s[i] # x
  BY RangeElement DEF Accounted
<1>5. \A k \in 1 .. Len(e) : e[k] # x
  BY RangeElement
<1>6. Range(t) = Range(f) \ lost
  BY <1>3 DEF Accounted
<1> HIDE DEF t, f
<1>7. Ordered(t, f)
  <2> SUFFICES ASSUME NEW i \in 1 .. Len(t), NEW j \in 1 .. Len(t),
                      NEW k \in 1 .. Len(f), NEW l \in 1 .. Len(f),
                      i < j, t[i] = f[k], t[j] = f[l]
               PROVE  k < l
    BY DEF Ordered
  <2>0. /\ j \in 1 .. Len(s) \/ j = Len(s) + 1
        /\ k \in 1 .. Len(e) \/ k = Len(e) + 1
        /\ l \in 1 .. Len(e) \/ l = Len(e) + 1
    <3>1. j \in 1 .. (Len(s) + 1) /\ k \in 1 .. (Len(e) + 1) /\ l \in 1 .. (Len(e) + 1)
      BY <1>1, <1>2, Zenon
    <3>2. Len(s) \in Nat /\ Len(e) \in Nat
      BY <1>1, <1>2
    <3>3. QED
      BY <3>1, <3>2, LastIndex, Zenon
  <2>1. i \in 1 .. Len(s)
    BY <1>1
  <2>2. t[i] = s[i] /\ s[i] # x
    BY <1>1, <1>4, <2>1
  <2>3. k \in 1 .. Len(e) /\ s[i] = e[k]
    BY <1>2, <2>0, <2>2
  <2>4. CASE j \in 1 .. Len(s)
    <3>1. t[j] = s[j] /\ s[j] # x
      BY <1>1, <1>4, <2>4
    <3>2. l \in 1 .. Len(e) /\ s[j] = e[l]
      BY <1>2, <2>0, <3>1
    <3>3. QED
      BY <2>1, <2>3, <2>4, <3>2 DEF Accounted, Ordered
  <2>5. CASE j = Len(s) + 1
    <3>1. f[l] = x
      BY <1>1, <2>5
    <3>2. l = Len(e) + 1
      BY <1>2, <1>5, <2>0, <3>1
    <3>3. QED
      BY <1>2, <2>3, <3>2
  <2>6. QED
    BY <2>0, <2>4, <2>5
<1>8. QED
  BY <1>6, <1>7 DEF Accounted, t, f

\* A queue that is dropped leaves what was delivered before it.
LEMMA AccountedDrop ==
    ASSUME NEW d \in Seq(Nat), NEW q \in Seq(Nat), NEW e \in Seq(Nat), NEW lost \in SUBSET Range(e),
           Accounted(d \o q, e, lost)
    PROVE  /\ Accounted(d, e, lost \union Range(q))
           /\ Range(q) \subseteq Range(e)
<1> DEFINE s == d \o q
           n == Len(d)
<1>1. /\ s \in Seq(Nat) /\ n \in Nat /\ Len(q) \in Nat /\ Len(s) = n + Len(q)
      /\ \A i \in 1 .. n : s[i] = d[i]
      /\ \A i \in 1 .. Len(q) : s[n + i] = q[i]
  BY ConcatFacts
<1>2. Range(s) = Range(e) \ lost /\ Ordered(s, e)
  BY DEF Accounted
<1>3. n = Len(d)
  OBVIOUS
<1> HIDE DEF s, n
<1>4. \A i \in 1 .. n : i \in 1 .. Len(s)
  BY <1>1
<1>5. \A i \in 1 .. Len(q) : n + i \in 1 .. Len(s)
  BY <1>1
<1>6. /\ \A i \in 1 .. n : d[i] \in Range(d)
      /\ \A x \in Range(d) : \E i \in 1 .. n : d[i] = x
  BY <1>3, RangeElement, Zenon
<1>7. /\ \A i \in 1 .. Len(q) : q[i] \in Range(q)
      /\ \A x \in Range(q) : \E i \in 1 .. Len(q) : q[i] = x
  BY RangeElement, Zenon
<1>8. /\ \A i \in 1 .. Len(s) : s[i] \in Range(s)
      /\ \A x \in Range(s) : \E i \in 1 .. Len(s) : s[i] = x
  BY <1>1, RangeElement, Zenon
<1>9. \A x \in Range(e) : \E k \in 1 .. Len(e) : e[k] = x
  BY RangeElement, Zenon
<1>10. Range(d) \subseteq Range(s)
  <2> SUFFICES ASSUME NEW x \in Range(d) PROVE x \in Range(s)
    OBVIOUS
  <2>1. PICK i \in 1 .. n : d[i] = x
    BY <1>6
  <2>2. QED
    BY <1>1, <1>4, <1>8, <2>1
<1>11. Range(q) \subseteq Range(s)
  <2> SUFFICES ASSUME NEW x \in Range(q) PROVE x \in Range(s)
    OBVIOUS
  <2>1. PICK i \in 1 .. Len(q) : q[i] = x
    BY <1>7
  <2>2. QED
    BY <1>1, <1>5, <1>8, <2>1
<1>12. Range(s) \subseteq Range(d) \union Range(q)
  <2> SUFFICES ASSUME NEW i \in 1 .. Len(s) PROVE s[i] \in Range(d) \union Range(q)
    BY <1>8
  <2>1. CASE i \in 1 .. n
    BY <1>1, <1>6, <2>1
  <2>2. CASE i \notin 1 .. n
    <3>1. i - n \in 1 .. Len(q) /\ n + (i - n) = i
      BY <1>1, <2>2
    <3>2. s[i] = q[i - n]
      BY <1>1, <3>1
    <3>3. QED
      BY <1>7, <3>1, <3>2
  <2>3. QED
    BY <2>1, <2>2
<1>13. ASSUME NEW x \in Range(d), x \in Range(q) PROVE FALSE
  <2>1. PICK i \in 1 .. n : d[i] = x
    BY <1>6
  <2>2. PICK j \in 1 .. Len(q) : q[j] = x
    BY <1>7, <1>13
  <2>3. PICK k \in 1 .. Len(e) : e[k] = x
    BY <1>2, <1>9, <1>10
  <2>4. s[i] = x /\ s[n + j] = x
    BY <1>1, <2>1, <2>2
  <2>5. i < n + j /\ i \in 1 .. Len(s) /\ n + j \in 1 .. Len(s)
    BY <1>1, <1>4, <1>5
  <2>6. k < k
    BY <1>2, <2>3, <2>4, <2>5 DEF Ordered
  <2>7. QED
    BY <2>6
<1>14. Range(d) = Range(e) \ (lost \union Range(q))
  BY <1>2, <1>10, <1>11, <1>12, <1>13
<1>15. Ordered(d, e)
  BY <1>1, <1>2, <1>3, <1>4 DEF Ordered
<1>16. QED
  BY <1>2, <1>11, <1>14, <1>15 DEF Accounted

LEMMA HitsOnceIs ==
    /\ HitsOnce <=> /\ Accounted(delivered \o queuedHits, enqueued, dropped)
                    /\ Len(queuedHits) <= maxHits
    /\ HitsOnce' <=> /\ Accounted(delivered' \o queuedHits', enqueued', dropped')
                     /\ Len(queuedHits') <= maxHits
BY DEF HitsOnce, Accounted, Ordered

LEMMA AnaInitial == AnaInit => AnaInv
<1> SUFFICES ASSUME AnaInit PROVE AnaInv
  OBVIOUS
<1>1. AnaTypeOK
  BY DEF AnaInit, AnaTypeOK
<1>2. Len(enqueued) = 0 /\ 1 .. Len(enqueued) = {}
  BY DEF AnaInit
<1>3. delivered \o queuedHits = <<>> /\ Len(<<>>) = 0 /\ 1 .. 0 = {}
  BY ConcatEmpty DEF AnaInit
<1>4. HitsOnce
  <2>1. Accounted(<<>>, <<>>, {})
    BY <1>3 DEF Accounted, Ordered, Range
  <2>2. QED
    BY <1>3, <2>1, HitsOnceIs, AnalyticsAssumption DEF AnaInit
<1>5. \A t \in Threads : at[t] = "idle" /\ queueLock # t
  BY AnalyticsAssumption DEF AnaInit, Threads
<1>6. QED
  BY <1>1, <1>2, <1>4, <1>5 DEF AnaInit, AnaInv, Threads

LEMMA NewClientStep ==
    ASSUME AnaInv, client = "none", NewClient
    PROVE  AnaInv'
<1>1. AnaTypeOK'
  BY DEF AnaInv, AnaTypeOK, NewClient
<1>2. HitsOnce'
  BY DEF AnaInv, HitsOnce, NewClient
<1>3. QED
  BY <1>1, <1>2 DEF AnaInv, NewClient

\* A new hit has a number of its own.
LEMMA SubmitStep ==
    ASSUME AnaInv, NEW c \in Callers, Submit(c)
    PROVE  AnaInv'
<1> USE DEF AnaInv
<1>1. AnaTypeOK'
  <2>1. submits \in Nat /\ submits + 1 \in Nat
    BY DEF AnaTypeOK
  <2>2. hit' \in [Callers -> Nat]
    BY <2>1 DEF AnaTypeOK, Submit
  <2>3. at' \in [Threads -> {"idle", "lock", "post"}]
    BY DEF AnaTypeOK, Submit
  <2>4. QED
    BY <2>1, <2>2, <2>3 DEF AnaTypeOK, Submit
<1>2. HitsOnce'
  BY DEF HitsOnce, Submit
<1>3. /\ submits' = submits + 1 /\ submits \in Nat
      /\ UNCHANGED <<client, queuedHits, queueLock, delivered, dropped, enqueued>>
      /\ client = "real" /\ at[c] = "idle"
  BY DEF Submit, AnaTypeOK
<1>4. \A t \in Threads : at'[t] = IF t = c THEN "lock" ELSE at[t]
  BY DEF Submit, AnaTypeOK, Threads
<1>5. \A d \in Callers : hit[d] \in Nat /\ hit'[d] = IF d = c THEN submits + 1 ELSE hit[d]
  BY DEF Submit, AnaTypeOK
<1>6. \A i \in 1 .. Len(enqueued) : enqueued[i] \in Nat
  BY DEF AnaTypeOK
<1>7. \A d \in Callers : at'[d] # "idle" =>
          /\ hit'[d] <= submits'
          /\ \A i \in 1 .. Len(enqueued') : enqueued'[i] # hit'[d]
          /\ \A b \in Callers : b # d /\ at'[b] # "idle" => hit'[b] # hit'[d]
  BY <1>3, <1>4, <1>5, <1>6 DEF Threads
<1>8. \A i \in 1 .. Len(enqueued') : enqueued'[i] <= submits'
  BY <1>3, <1>6
<1>9. \A t \in Threads : at'[t] = "post" <=> queueLock' = t
  BY <1>3, <1>4
<1>10. QED
  BY <1>1, <1>2, <1>3, <1>7, <1>8, <1>9

LEMMA FlushStep ==
    ASSUME AnaInv, NEW t \in Threads \ Callers, Flush(t)
    PROVE  AnaInv'
<1> USE DEF AnaInv
<1>1. AnaTypeOK'
  BY DEF AnaTypeOK, Flush
<1>2. HitsOnce'
  BY DEF HitsOnce, Flush
<1>3. \A u \in Threads : at'[u] = IF u = t THEN "lock" ELSE at[u]
  BY DEF Flush, AnaTypeOK
<1>4. QED
  BY <1>1, <1>2, <1>3 DEF Flush, Threads

\* The end of a thread's turn with the lock, with what is left of the queue.
LEMMA UnlockStep ==
    ASSUME AnaInv, NEW t \in Threads, at[t] # "idle", queueLock \in {"free", t},
           NEW queue \in Seq(Nat), Unlock(t, queue),
           delivered' \in Seq(Nat), dropped' \subseteq Range(enqueued),
           Accounted(delivered' \o queue, enqueued, dropped'),
           Len(queue) <= maxHits, t \in Callers => Len(queue) < maxHits,
           UNCHANGED <<client, submits>>
    PROVE  AnaInv'
<1> USE DEF AnaInv
<1>1. /\ client = "real" /\ client' = "real" /\ submits \in Nat /\ submits' = submits
      /\ at \in [Threads -> {"idle", "lock", "post"}]
      /\ enqueued \in Seq(Nat)
      /\ hit \in [Callers -> Nat]
      /\ at' = [at EXCEPT ![t] = "idle"] /\ queueLock' = "free"
  BY DEF AnaTypeOK, Unlock
<1>2. \A u \in Threads : at'[u] = IF u = t THEN "idle" ELSE at[u]
  BY <1>1
<1>3. \A u \in Threads : at'[u] = "post" <=> queueLock' = u
  BY <1>1, <1>2, AnalyticsAssumption DEF Threads
<1>4. Range(enqueued) \subseteq Nat /\ Callers \subseteq Threads
  BY <1>1, RangeFacts DEF Threads
<1>5. CASE t \in Callers
  <2> DEFINE x == hit[t]
  <2>1. /\ queuedHits' = Append(queue, x) /\ enqueued' = Append(enqueued, x)
        /\ hit' = [hit EXCEPT ![t] = 0] /\ x \in Nat /\ x <= submits
        /\ \A i \in 1 .. Len(enqueued) : enqueued[i] # x
        /\ \A d \in Callers : d # t /\ at[d] # "idle" => hit[d] # x
    BY <1>1, <1>5 DEF Unlock
  <2>2. \A d \in Callers : d # t => hit'[d] = hit[d]
    BY <1>1, <2>1
  <2> HIDE DEF x
  <2>3. /\ queuedHits' \in Seq(Nat) /\ Len(queuedHits') = Len(queue) + 1 /\ Len(queue) \in Nat
    BY <2>1, AppendFacts
  <2>4. /\ enqueued' \in Seq(Nat) /\ Len(enqueued') = Len(enqueued) + 1 /\ Len(enqueued) \in Nat
        /\ enqueued'[Len(enqueued) + 1] = x
        /\ \A i \in 1 .. Len(enqueued) : enqueued'[i] = enqueued[i]
    BY <1>1, <2>1, AppendFacts
  <2>5. Range(enqueued') = Range(enqueued) \union {x}
    BY <1>1, <2>1, AppendRange
  <2>6. x \notin Range(enqueued)
    <3>1. \A y \in Range(enqueued) : \E i \in 1 .. Len(enqueued) : enqueued[i] = y
      BY <1>1, RangeElement, Zenon
    <3>2. QED
      BY <2>1, <3>1, Zenon
  <2>7. AnaTypeOK'
    <3>1. hit' \in [Callers -> Nat]
      BY <1>1, <2>1
    <3>2. at' \in [Threads -> {"idle", "lock", "post"}]
      BY <1>1
    <3>3. QED
      BY <1>1, <1>4, <2>3, <2>4, <3>1, <3>2 DEF AnaTypeOK
  <2>8. \A i \in 1 .. Len(enqueued') : i \in 1 .. Len(enqueued) \/ i = Len(enqueued) + 1
    BY <2>4, LastIndex, Zenon
  <2>9. \A i \in 1 .. Len(enqueued') : enqueued'[i] <= submits'
    BY <1>1, <2>1, <2>4, <2>8
  <2>10. \A i, j \in 1 .. Len(enqueued') : i # j => enqueued'[i] # enqueued'[j]
    <3> SUFFICES ASSUME NEW i \in 1 .. Len(enqueued'), NEW j \in 1 .. Len(enqueued'), i # j
                 PROVE  enqueued'[i] # enqueued'[j]
      OBVIOUS
    <3>1. CASE i \in 1 .. Len(enqueued) /\ j \in 1 .. Len(enqueued)
      BY <2>4, <3>1
    <3>2. CASE i = Len(enqueued) + 1 /\ j \in 1 .. Len(enqueued)
      BY <2>1, <2>4, <3>2
    <3>3. CASE i \in 1 .. Len(enqueued) /\ j = Len(enqueued) + 1
      BY <2>1, <2>4, <3>3
    <3>4. QED
      BY <2>8, <3>1, <3>2, <3>3
  <2>11. \A c \in Callers : at'[c] # "idle" =>
          /\ hit'[c] <= submits'
          /\ \A i \in 1 .. Len(enqueued') : enqueued'[i] # hit'[c]
          /\ \A d \in Callers : d # c /\ at'[d] # "idle" => hit'[d] # hit'[c]
    <3> SUFFICES ASSUME NEW c \in Callers, at'[c] # "idle"
                 PROVE  /\ hit'[c] <= submits'
                        /\ \A i \in 1 .. Len(enqueued') : enqueued'[i] # hit'[c]
                        /\ \A d \in Callers : d # c /\ at'[d] # "idle" => hit'[d] # hit'[c]
      OBVIOUS
    <3>1. c # t /\ at[c] # "idle" /\ hit'[c] = hit[c]
      BY <1>2, <1>4, <2>2
    <3>2. \A i \in 1 .. Len(enqueued') : enqueued'[i] # hit'[c]
      BY <2>1, <2>4, <2>8, <3>1
    <3>3. \A d \in Callers : d # c /\ at'[d] # "idle" => hit'[d] # hit'[c]
      BY <1>2, <1>4, <2>2, <3>1
    <3>4. QED
      BY <1>1, <3>1, <3>2, <3>3
  <2>12. HitsOnce'
    <3>1. delivered' \o queue \in Seq(Nat)
      BY ConcatFacts
    <3>2. Accounted(Append(delivered' \o queue, x), Append(enqueued, x), dropped')
      BY <1>1, <2>1, <2>6, <3>1, AccountedAppend
    <3>3. delivered' \o queuedHits' = Append(delivered' \o queue, x)
      BY <2>1, ConcatAppend
    <3>4. Len(queuedHits') <= maxHits
      BY <1>5, <2>3, AnalyticsAssumption
    <3>5. QED
      BY <2>1, <3>2, <3>3, <3>4, HitsOnceIs
  <2>13. dropped' \subseteq Range(enqueued')
    BY <2>5
  <2>14. QED
    BY <1>1, <1>3, <2>7, <2>9, <2>10, <2>11, <2>12, <2>13
<1>6. CASE t \notin Callers
  <2>1. queuedHits' = queue /\ UNCHANGED <<enqueued, hit>>
    BY <1>6 DEF Unlock
  <2>2. AnaTypeOK'
    BY <1>1, <1>4, <2>1 DEF AnaTypeOK
  <2>3. HitsOnce'
    BY <2>1, HitsOnceIs
  <2>4. QED
    BY <1>1, <1>2, <1>3, <1>4, <2>1, <2>2, <2>3
<1>7. QED
  BY <1>5, <1>6

LEMMA AcquireStep ==
    ASSUME AnaInv, NEW t \in Threads, Acquire(t)
    PROVE  AnaInv'
<1> USE DEF AnaInv
<1>1. CASE MustPost(t)
  <2>1. AnaTypeOK'
    BY <1>1 DEF Acquire, AnaTypeOK
  <2>2. HitsOnce'
    BY <1>1 DEF Acquire, HitsOnce
  <2>3. \A u \in Threads : at'[u] = IF u = t THEN "post" ELSE at[u]
    BY <1>1 DEF Acquire, AnaTypeOK
  <2>4. \A u \in Threads : at'[u] = "post" <=> queueLock' = u
    BY <1>1, <2>3, AnalyticsAssumption DEF Acquire, Threads
  <2>5. at[t] = "lock" /\ UNCHANGED <<client, queuedHits, enqueued, hit, submits, delivered, dropped>>
    BY <1>1 DEF Acquire
  <2>6. QED
    BY <2>1, <2>2, <2>3, <2>4, <2>5 DEF Threads
<1>2. CASE ~MustPost(t)
  <2>1. /\ at[t] # "idle" /\ queueLock = "free" /\ Unlock(t, queuedHits)
        /\ UNCHANGED <<client, submits, delivered, dropped>>
    BY <1>2 DEF Acquire
  <2>2. queuedHits \in Seq(Nat) /\ delivered' \in Seq(Nat) /\ Len(queuedHits) \in Nat
    BY <2>1 DEF AnaTypeOK
  <2>3. Accounted(delivered' \o queuedHits, enqueued, dropped') /\ Len(queuedHits) <= maxHits
    BY <2>1, HitsOnceIs
  <2>4. t \in Callers => Len(queuedHits) < maxHits
    BY <1>2, <2>2, AnalyticsAssumption DEF MustPost
  <2>5. QED
    BY <2>1, <2>2, <2>3, <2>4, UnlockStep
<1>3. QED
  BY <1>1, <1>2

LEMMA AnswerStep ==
    ASSUME AnaInv, NEW t \in Threads, Answer(t)
    PROVE  AnaInv'
<1> USE DEF AnaInv
<1>1. PICK ok \in BOOLEAN : Posted(t, ok)
  BY DEF Answer
<1>2. at[t] # "idle" /\ queueLock = t /\ UNCHANGED <<client, submits>> /\ Unlock(t, <<>>)
  BY <1>1 DEF Answer, Posted
<1>3. <<>> \in Seq(Nat) /\ Len(<<>>) = 0
  OBVIOUS
<1>4. Len(<<>>) <= maxHits /\ Len(<<>>) < maxHits
  BY <1>3, AnalyticsAssumption
<1>5. /\ delivered \in Seq(Nat) /\ queuedHits \in Seq(Nat) /\ enqueued \in Seq(Nat)
      /\ dropped \in SUBSET Range(enqueued)
      /\ Accounted(delivered \o queuedHits, enqueued, dropped)
  BY HitsOnceIs DEF AnaTypeOK
<1>6. /\ delivered' \in Seq(Nat) /\ dropped' \subseteq Range(enqueued)
      /\ Accounted(delivered' \o <<>>, enqueued, dropped')
  <2>1. CASE ok
    <3>1. delivered' = delivered \o queuedHits /\ dropped' = dropped
      BY <1>1, <2>1 DEF Posted
    <3>2. delivered' \in Seq(Nat)
      BY <1>5, <3>1, ConcatFacts
    <3>3. delivered' \o <<>> = delivered'
      BY <3>2, ConcatEmpty
    <3>4. QED
      BY <1>5, <3>1, <3>2, <3>3
  <2>2. CASE ~ok
    <3>1. delivered' = delivered /\ dropped' = dropped \union Range(queuedHits)
      BY <1>1, <2>2 DEF Posted
    <3>2. /\ Accounted(delivered, enqueued, dropped \union Range(queuedHits))
          /\ Range(queuedHits) \subseteq Range(enqueued)
      BY <1>5, AccountedDrop
    <3>3. delivered \o <<>> = delivered
      BY <1>5, ConcatEmpty
    <3>4. QED
      BY <1>5, <3>1, <3>2, <3>3
  <2>3. QED
    BY <2>1, <2>2
<1>7. QED
  BY <1>2, <1>3, <1>4, <1>6, UnlockStep

\* What a step of the analytics client leaves behind: more of everything.
Grows ==
    /\ \A i \in 1 .. Len(enqueued) : i \in 1 .. Len(enqueued') /\ enqueued'[i] = enqueued[i]
    /\ Len(enqueued) <= Len(enqueued')
    /\ Range(delivered) \subseteq Range(delivered')
    /\ dropped \subseteq dropped'

LEMMA SameGrows ==
    ASSUME AnaInv, UNCHANGED <<enqueued, delivered, dropped>>
    PROVE  Grows
<1>1. Len(enqueued) \in Nat
  BY DEF AnaInv, AnaTypeOK
<1>2. QED
  BY <1>1 DEF Grows

LEMMA UnlockGrows ==
    ASSUME AnaInv, NEW t \in Threads, NEW queue, Unlock(t, queue)
    PROVE  /\ \A i \in 1 .. Len(enqueued) : i \in 1 .. Len(enqueued') /\ enqueued'[i] = enqueued[i]
           /\ Len(enqueued) <= Len(enqueued')
<1>1. enqueued \in Seq(Nat) /\ hit \in [Callers -> Nat] /\ Len(enqueued) \in Nat
  BY DEF AnaInv, AnaTypeOK
<1>2. CASE t \in Callers
  <2>1. enqueued' = Append(enqueued, hit[t]) /\ hit[t] \in Nat
    BY <1>1, <1>2 DEF Unlock
  <2>2. /\ Len(enqueued') = Len(enqueued) + 1
        /\ \A i \in 1 .. Len(enqueued) : enqueued'[i] = enqueued[i]
    BY <1>1, <2>1, AppendFacts
  <2>3. QED
    BY <1>1, <2>2
<1>3. CASE t \notin Callers
  BY <1>1, <1>3 DEF Unlock
<1>4. QED
  BY <1>2, <1>3

LEMMA TurnGrows ==
    ASSUME AnaInv, NEW t \in Threads, Acquire(t) \/ Answer(t)
    PROVE  Grows
<1>1. CASE Acquire(t)
  <2>1. CASE MustPost(t)
    BY <1>1, <2>1, SameGrows DEF Acquire
  <2>2. CASE ~MustPost(t)
    BY <1>1, <2>2, UnlockGrows DEF Acquire, Grows
  <2>3. QED
    BY <2>1, <2>2
<1>2. CASE Answer(t)
  <2>1. PICK ok \in BOOLEAN : Posted(t, ok)
    BY <1>2 DEF Answer
  <2>2. delivered \in Seq(Nat) /\ queuedHits \in Seq(Nat)
    BY DEF AnaInv, AnaTypeOK
  <2>3. Range(delivered) \subseteq Range(delivered \o queuedHits)
    <3> DEFINE s == delivered \o queuedHits
    <3>1. /\ s \in Seq(Nat) /\ Len(s) = Len(delivered) + Len(queuedHits)
          /\ Len(delivered) \in Nat /\ Len(queuedHits) \in Nat
          /\ \A i \in 1 .. Len(delivered) : s[i] = delivered[i]
      BY <2>2, ConcatFacts
    <3> HIDE DEF s
    <3>2. \A i \in 1 .. Len(s) : s[i] \in Range(s)
      BY <3>1, RangeElement, Zenon
    <3>3. \A x \in Range(delivered) : \E i \in 1 .. Len(delivered) : delivered[i] = x
      BY <2>2, RangeElement, Zenon
    <3>4. \A i \in 1 .. Len(delivered) : i \in 1 .. Len(s)
      BY <3>1
    <3>5. \A x \in Range(delivered) : x \in Range(s)
      BY <3>1, <3>2, <3>3, <3>4, Zenon
    <3>6. QED
      BY <3>5 DEF s
  <2>4. Range(delivered) \subseteq Range(delivered') /\ dropped \subseteq dropped'
    BY <2>1, <2>3 DEF Posted
  <2>5. QED
    BY <2>1, <2>4, UnlockGrows DEF Posted, Grows
<1>3. QED
  BY <1>1, <1>2

\* Whoever flushes leaves an empty queue.
LEMMA FlushEmpties ==
    ASSUME AnaInv, NEW t \in Threads \ Callers, Acquire(t) \/ Answer(t), at'[t] = "idle"
    PROVE  queuedHits' = <<>>
<1>1. at \in [Threads -> {"idle", "lock", "post"}]
  BY DEF AnaInv, AnaTypeOK
<1>2. CASE Acquire(t)
  <2>1. ~MustPost(t)
    BY <1>1, <1>2 DEF Acquire
  <2>2. QED
    BY <1>2, <2>1 DEF Acquire, MustPost, Unlock
<1>3. CASE Answer(t)
  BY <1>3 DEF Answer, Posted, Unlock
<1>4. QED
  BY <1>2, <1>3

\* An empty queue: everything queued has been delivered or dropped.
LEMMA EmptyQueue ==
    ASSUME AnaInv', queuedHits' = <<>>
    PROVE  \A i \in 1 .. Len(enqueued') : enqueued'[i] \in Range(delivered') \union dropped'
<1>1. delivered' \in Seq(Nat) /\ enqueued' \in Seq(Nat)
  BY DEF AnaInv, AnaTypeOK
<1>2. delivered' \o queuedHits' = delivered'
  BY <1>1, ConcatEmpty
<1>3. Range(delivered') = Range(enqueued') \ dropped'
  BY <1>2 DEF AnaInv, HitsOnce
<1>4. \A i \in 1 .. Len(enqueued') : enqueued'[i] \in Range(enqueued')
  BY <1>1, RangeElement, Zenon
<1>5. QED
  BY <1>3, <1>4

-----------------------------------------------------------------------------
(* The servers *)

MountInv == mounted => serve = "serving"

\* How far main, the API's goroutines and the FUSE server's goroutines have got.
StopInv ==
    /\ main \in {"loadPlugins", "newClient", "startAPI"} => serving = "no" /\ stopper = "none"
    /\ serving = "yes" => stopper = "wait"
    /\ apiStopped <=> stopper = "done"
    /\ fuseStopped => serve = "exited"
    /\ MountInv
    /\ main \in {"loadPlugins", "newClient", "startAPI", "serveFuseFS", "abortAPI", "awaitAbort", "failed"}
         => serve = "none"
    /\ main \in {"sendAPIOnly", "awaitAPIOnly"} => fuseStopped
    /\ main \in {"closeFuse", "awaitFuse"} => apiStopped
    /\ main \in {"closeAll", "flush", "flushing", "exited", "timedOut"} => apiStopped /\ fuseStopped
    /\ main = "failed" => serving # "yes"
    /\ journals = "closed" => main \in {"flush", "flushing", "exited", "timedOut"}

LoadInv ==
    /\ mode # "verify" /\ main # "loadPlugins" => RegistryComplete
    /\ mode = "verify" => main # "loadPlugins"
    /\ main \in {"loadPlugins", "newClient"} => client = "none"

\* Every hit that was queued before the shutdown has left the queue once the final
\* flush has.
Gone == \A i \in 1 .. before : enqueued[i] \in Range(delivered) \union dropped
FlushInv ==
    /\ before <= Len(enqueued)
    /\ main \notin {"flush", "flushing", "exited", "timedOut"} => before = 0
    /\ main \notin {"flushing", "exited", "timedOut"} => at["final"] = "idle"
    /\ main = "flushing" /\ at["final"] = "idle" => Gone
    /\ main = "exited" => Gone

IInv == TypeOK /\ RegInv /\ AnaInv /\ StopInv /\ LoadInv /\ FlushInv

LEMMA InitInv == Init => IInv
<1> SUFFICES ASSUME Init PROVE IInv
  OBVIOUS
<1>1. RegInv /\ AnaInv
  BY RegInitial, AnaInitial DEF Init
<1>2. StopInv
  BY DEF Init, StopInv, MountInv
<1>3. LoadInv
  BY DEF Init, LoadInv, AnaInit
<1>4. FlushInv
  <2>1. enqueued = <<>> /\ Len(<<>>) = 0 /\ 1 .. 0 = {} /\ "final" \in Threads
    BY DEF Init, AnaInit, Threads
  <2>2. at["final"] = "idle"
    BY <2>1 DEF Init, AnaInit
  <2>3. QED
    BY <2>1, <2>2 DEF Init, FlushInv, Gone
<1>5. TypeOK
  BY <1>1 DEF Init, TypeOK, RegInv, AnaInv
<1>6. QED
  BY <1>1, <1>2, <1>3, <1>4, <1>5 DEF IInv

\* The types of the servers' own variables
OwnTypeOK ==
    /\ main \in {"loadPlugins", "newClient", "startAPI", "serveFuseFS", "ping", "pinging",
                 "running", "sendAPI", "sendAPIOnly", "abortAPI", "awaitAPI", "awaitAPIOnly",
                 "awaitAbort", "closeFuse", "awaitFuse", "closeAll", "flush", "flushing",
                 "failed", "fatal", "exited", "timedOut"}
    /\ mode \in Modes
    /\ apiStop \in {"open", "closed"}
    /\ stopper \in {"none", "wait", "shutdown", "done"}
    /\ serving \in {"no", "yes", "shutdown", "failed"}
    /\ active \subseteq Requests
    /\ serve \in {"none", "serving", "exited"}
    /\ cleaner \in {"none", "select", "unmount", "await", "done"}
    /\ journals \in {"open", "closed"}
    /\ ended \in BOOLEAN /\ apiStopped \in BOOLEAN /\ mounted \in BOOLEAN
    /\ busy \in BOOLEAN /\ fuseStop \in BOOLEAN /\ fuseStopped \in BOOLEAN
    /\ before \in Nat

LEMMA TypeParts == TypeOK <=> OwnTypeOK /\ RegTypeOK /\ AnaTypeOK
BY DEF TypeOK, OwnTypeOK

LEMMA TypeNext == OwnTypeOK' /\ RegInv' /\ AnaInv' => TypeOK'
BY DEF TypeOK, OwnTypeOK, RegInv, AnaInv

\* The steps that change neither the registry nor the analytics client
OwnStep ==
    \/ LoadPlugins \/ StartAPI \/ ServeFuseFS \/ ProfileFails \/ Pinged \/ WaitOrStop \/ SendAPI \/ AwaitAPI
    \/ CloseFuse \/ AwaitFuse \/ CloseAll \/ FlushEnds \/ CleanerNext \/ Shutdown \/ ServeExits
    \/ End \/ ServeFails \/ UseMount \/ LeaveMount \/ UserUnmount
    \/ \E c \in Requests : BeginRequest(c) \/ EndRequest(c)

\* The control of the servers, in each of their steps
LEMMA ControlStep ==
    ASSUME OwnTypeOK, StopInv, AnaTypeOK, ~Over, OwnStep
    PROVE  OwnTypeOK' /\ StopInv'
<1> USE DEF OwnTypeOK, StopInv, Over, rest, MountInv
<1>1. CASE LoadPlugins
  BY <1>1 DEF LoadPlugins, apiVars, fuseVars
<1>2. CASE StartAPI
  BY <1>2 DEF StartAPI, fuseVars
<1>3. CASE ServeFuseFS
  <2>1. OwnTypeOK'
    BY ZenonT(40), <1>3 DEF ServeFuseFS, apiVars
  <2>2. StopInv'
    BY <1>3 DEF ServeFuseFS, apiVars
  <2>3. QED
    BY <2>1, <2>2
<1>4. CASE Pinged
  BY <1>4 DEF Pinged, apiVars, fuseVars
<1>5. CASE WaitOrStop
  BY <1>5 DEF WaitOrStop, apiVars, fuseVars
<1>6. CASE SendAPI
  BY <1>6 DEF SendAPI, fuseVars
<1>7. CASE AwaitAPI
  BY <1>7 DEF AwaitAPI, apiVars, fuseVars
<1>8. CASE CloseFuse
  BY <1>8 DEF CloseFuse, apiVars
<1>9. CASE AwaitFuse
  BY <1>9 DEF AwaitFuse, apiVars, fuseVars
<1>10. CASE CloseAll
  <2>1. Len(enqueued) \in Nat
    BY DEF AnaTypeOK
  <2>2. QED
    BY <1>10, <2>1 DEF CloseAll, apiVars, fuseVars
<1>11. CASE FlushEnds
  BY <1>11 DEF FlushEnds, apiVars, fuseVars
<1>12. CASE CleanerNext
  <2>1. CASE CleanerSelects
    BY <2>1 DEF CleanerSelects, apiVars
  <2>2. CASE Unmount
    <3>1. /\ UNCHANGED <<main, ended, apiStop, stopper, apiStopped, serving, active, mode, before>>
          /\ UNCHANGED <<busy, serve, fuseStop, fuseStopped, journals>>
          /\ cleaner' \in {cleaner, "await"}
          /\ mounted' = FALSE \/ mounted' = mounted
      BY <2>2 DEF Unmount, apiVars
    <3> HIDE DEF MountInv, OwnTypeOK
    <3>2. OwnTypeOK'
      <4> HIDE DEF StopInv
      <4>1. ended' \in BOOLEAN /\ apiStopped' \in BOOLEAN /\ mounted' \in BOOLEAN
        BY <3>1, Zenon DEF OwnTypeOK
      <4>2. busy' \in BOOLEAN /\ fuseStop' \in BOOLEAN /\ fuseStopped' \in BOOLEAN
        BY <3>1, Zenon DEF OwnTypeOK
      <4>3. QED
        BY <3>1, <4>1, <4>2 DEF OwnTypeOK
    <3>3. MountInv'
      BY <3>1, Zenon DEF MountInv
    <3>4. StopInv'
      BY <3>1, <3>3
    <3>5. QED
      BY <3>2, <3>4
  <2>3. CASE CleanerDone
    BY <2>3 DEF CleanerDone, apiVars
  <2>4. QED
    BY <1>12, <2>1, <2>2, <2>3 DEF CleanerNext
<1>13. CASE Shutdown
  BY <1>13 DEF Shutdown, fuseVars
<1>14. CASE ServeExits
  BY <1>14 DEF ServeExits, apiVars
<1>15. CASE End
  BY <1>15 DEF End, apiVars, fuseVars
<1>16. CASE ServeFails
  BY <1>16 DEF ServeFails, fuseVars
<1>17. CASE UseMount \/ LeaveMount \/ UserUnmount
  <2>1. CASE UseMount
    BY <2>1 DEF UseMount, apiVars
  <2>2. CASE LeaveMount
    <3>1. /\ UNCHANGED <<main, ended, apiStop, stopper, apiStopped, serving, active, mode, before>>
          /\ UNCHANGED <<mounted, serve, fuseStop, cleaner, fuseStopped, journals>>
          /\ busy' = FALSE
      BY <2>2 DEF LeaveMount, apiVars
    <3> HIDE DEF MountInv, OwnTypeOK
    <3>2. OwnTypeOK'
      <4> HIDE DEF StopInv
      <4>1. ended' \in BOOLEAN /\ apiStopped' \in BOOLEAN /\ mounted' \in BOOLEAN
        BY <3>1, Zenon DEF OwnTypeOK
      <4>2. busy' \in BOOLEAN /\ fuseStop' \in BOOLEAN /\ fuseStopped' \in BOOLEAN
        BY <3>1, Zenon DEF OwnTypeOK
      <4>3. QED
        BY <3>1, <4>1, <4>2 DEF OwnTypeOK
    <3>3. MountInv'
      BY <3>1, Zenon DEF MountInv
    <3>4. StopInv'
      BY <3>1, <3>3
    <3>5. QED
      BY <3>2, <3>4
  <2>3. CASE UserUnmount
    <3>1. /\ UNCHANGED <<main, ended, apiStop, stopper, apiStopped, serving, active, mode, before>>
          /\ UNCHANGED <<busy, serve, fuseStop, cleaner, fuseStopped, journals>>
          /\ mounted' = FALSE
      BY <2>3 DEF UserUnmount, apiVars
    <3> HIDE DEF MountInv, OwnTypeOK
    <3>2. OwnTypeOK'
      <4> HIDE DEF StopInv
      <4>1. ended' \in BOOLEAN /\ apiStopped' \in BOOLEAN /\ mounted' \in BOOLEAN
        BY <3>1, Zenon DEF OwnTypeOK
      <4>2. busy' \in BOOLEAN /\ fuseStop' \in BOOLEAN /\ fuseStopped' \in BOOLEAN
        BY <3>1, Zenon DEF OwnTypeOK
      <4>3. QED
        BY <3>1, <4>1, <4>2 DEF OwnTypeOK
    <3>3. MountInv'
      BY <3>1, Zenon DEF MountInv
    <3>4. StopInv'
      BY <3>1, <3>3
    <3>5. QED
      BY <3>2, <3>4
  <2>4. QED
    BY <1>17, <2>1, <2>2, <2>3
<1>18. CASE \E c \in Requests : BeginRequest(c) \/ EndRequest(c)
  BY <1>18 DEF BeginRequest, EndRequest, fuseVars
<1>19. CASE ProfileFails
  BY <1>19 DEF ProfileFails, apiVars, fuseVars
<1>20. QED
  BY <1>1, <1>2, <1>3, <1>4, <1>5, <1>6, <1>7, <1>8, <1>9, <1>10, <1>11, <1>12, <1>13,
     <1>14, <1>15, <1>16, <1>17, <1>18, <1>19 DEF OwnStep

LEMMA RegSame ==
    ASSUME UNCHANGED regVars
    PROVE  (RegInv => RegInv') /\ (RegistryComplete => RegistryComplete')
<1>1. UNCHANGED <<loader, regMux, plugins, pluginRoots, read, failed>>
  BY DEF regVars
<1>2. QED
  BY <1>1 DEF RegInv, RegTypeOK, RegistryComplete

LEMMA AnaSame ==
    ASSUME AnaInv, UNCHANGED anaVars
    PROVE  AnaInv' /\ Grows
<1>1. UNCHANGED <<client, queuedHits, queueLock, at, submits, hit, delivered, dropped, enqueued>>
  BY DEF anaVars
<1>2. AnaTypeOK'
  BY <1>1 DEF AnaInv, AnaTypeOK
<1>3. HitsOnce'
  BY <1>1 DEF AnaInv, HitsOnce
<1>4. QED
  BY <1>1, <1>2, <1>3, SameGrows DEF AnaInv

LEMMA GoneStable ==
    ASSUME AnaInv, before \in Nat, before <= Len(enqueued), before' = before, Grows
    PROVE  /\ before' <= Len(enqueued')
           /\ Gone => Gone'
<1>1. Len(enqueued) \in Nat
  BY DEF AnaInv, AnaTypeOK
<1>2. 1 .. before \subseteq 1 .. Len(enqueued)
  BY <1>1
<1>3. Gone => Gone'
  BY <1>2 DEF Grows, Gone
<1>4. Len(enqueued') \in Nat \/ before <= Len(enqueued')
  BY <1>1 DEF Grows
<1>5. QED
  BY <1>1, <1>3 DEF Grows

\* The steps of the servers
LEMMA OwnStepInv ==
    ASSUME IInv, ~Over, OwnStep
    PROVE  IInv'
<1> USE DEF IInv
<1>1. UNCHANGED <<regVars, anaVars, mode>>
  BY DEF OwnStep, LoadPlugins, StartAPI, ServeFuseFS, ProfileFails, Pinged, WaitOrStop, SendAPI, AwaitAPI,
         CloseFuse, AwaitFuse, CloseAll, FlushEnds, CleanerNext, CleanerSelects, Unmount,
         CleanerDone, Shutdown, ServeExits, End, ServeFails, UseMount, LeaveMount, UserUnmount,
         BeginRequest, EndRequest, rest
<1>2. RegInv' /\ AnaInv' /\ Grows /\ (RegistryComplete => RegistryComplete')
  BY <1>1, RegSame, AnaSame
<1>3. OwnTypeOK' /\ StopInv'
  BY ControlStep, TypeParts
<1>4. TypeOK'
  BY <1>2, <1>3, TypeNext
<1>5. \/ LoadPlugins
      \/ CloseAll
      \/ FlushEnds
      \/ /\ before' = before
         /\ \/ main' = main
            \/ /\ main \notin {"loadPlugins", "newClient", "flush", "flushing", "exited", "timedOut"}
               /\ main' \notin {"loadPlugins", "newClient", "flush", "flushing", "exited", "timedOut"}
  BY DEF OwnStep, StartAPI, ServeFuseFS, ProfileFails, Pinged, WaitOrStop, SendAPI, AwaitAPI,
         CloseFuse, AwaitFuse, CleanerNext, CleanerSelects, Unmount,
         CleanerDone, Shutdown, ServeExits, End, ServeFails, UseMount, LeaveMount, UserUnmount,
         BeginRequest, EndRequest, rest
<1>6. before \in Nat /\ before <= Len(enqueued) /\ Len(enqueued) \in Nat
  BY DEF TypeOK, FlushInv, AnaInv, AnaTypeOK
<1>7. UNCHANGED <<client, at, enqueued, delivered, dropped, mode>>
  BY <1>1 DEF anaVars
<1>8. LoadInv'
  <2>1. CASE LoadPlugins
    <3>1. RegistryComplete'
      BY <1>2, <2>1, LoadedComplete DEF LoadPlugins
    <3>2. main' # "loadPlugins" /\ client = "none"
      BY <2>1 DEF LoadPlugins, LoadInv
    <3>3. QED
      BY <1>7, <3>1, <3>2 DEF LoadInv
  <2>2. CASE CloseAll \/ FlushEnds
    BY <1>2, <1>7, <2>2 DEF CloseAll, FlushEnds, LoadInv
  <2>3. CASE main' = main
    BY <1>2, <1>7, <2>3 DEF LoadInv
  <2>4. CASE /\ main \notin {"loadPlugins", "newClient", "flush", "flushing", "exited", "timedOut"}
             /\ main' \notin {"loadPlugins", "newClient", "flush", "flushing", "exited", "timedOut"}
    BY <1>2, <1>7, <2>4 DEF LoadInv
  <2>5. QED
    BY <1>5, <2>1, <2>2, <2>3, <2>4
<1>9. FlushInv'
  <2>0. ASSUME before = 0, before' = 0 PROVE Gone'
    <3>1. 1 .. 0 = {}
      OBVIOUS
    <3>2. QED
      BY <2>0, <3>1 DEF Gone
  <2>1. CASE LoadPlugins
    <3>1. /\ main = "loadPlugins" /\ main' \in {"failed", "newClient"} /\ before' = before
      BY <2>1 DEF LoadPlugins, rest
    <3>2. QED
      BY <1>6, <1>7, <3>1 DEF FlushInv
  <2>2. CASE CloseAll /\ mode = "verify"
    <3>1. main = "closeAll" /\ main' = "exited" /\ before' = before
      BY <2>2 DEF CloseAll
    <3>2. before = 0
      BY <3>1 DEF FlushInv
    <3>3. QED
      BY <1>6, <1>7, <2>0, <3>1, <3>2 DEF FlushInv
  <2>3. CASE CloseAll /\ mode # "verify"
    <3>1. main = "closeAll" /\ main' = "flush" /\ before' = Len(enqueued)
      BY <2>3 DEF CloseAll
    <3>2. QED
      BY <1>6, <1>7, <3>1 DEF FlushInv
  <2>4. CASE FlushEnds
    <3>1. /\ main = "flushing" /\ before' = before
          /\ main' = IF at["final"] = "idle" THEN "exited" ELSE "timedOut"
      BY <2>4 DEF FlushEnds, rest
    <3>2. before' <= Len(enqueued') /\ (Gone => Gone')
      BY <1>2, <1>6, <3>1, GoneStable
    <3>3. QED
      BY <1>7, <3>1, <3>2 DEF FlushInv
  <2>5. CASE /\ before' = before
             /\ main' = main
    <3>1. before' <= Len(enqueued') /\ (Gone => Gone')
      BY <1>2, <1>6, <2>5, GoneStable
    <3>2. QED
      BY <1>7, <2>5, <3>1 DEF FlushInv
  <2>6. CASE /\ before' = before
             /\ main \notin {"loadPlugins", "newClient", "flush", "flushing", "exited", "timedOut"}
             /\ main' \notin {"loadPlugins", "newClient", "flush", "flushing", "exited", "timedOut"}
    BY <1>6, <1>7, <2>6 DEF FlushInv
  <2>7. QED
    BY <1>5, <2>1, <2>2, <2>3, <2>4, <2>5, <2>6
<1>10. QED
  BY <1>2, <1>3, <1>4, <1>8, <1>9

LEMMA LoadsInv ==
    ASSUME IInv, NEW p \in Plugins, Loads(p)
    PROVE  IInv'
<1> USE DEF IInv
<1>1. /\ main = "loadPlugins" /\ UNCHANGED anaVars
      /\ UNCHANGED <<main, ended, apiStop, stopper, apiStopped, serving, active, mode, before>>
      /\ UNCHANGED <<mounted, busy, serve, fuseStop, cleaner, fuseStopped, journals>>
  BY DEF Loads, apiVars, fuseVars
<1>2. RegInv'
  BY LoaderStep DEF Loads
<1>3. AnaInv' /\ Grows
  BY <1>1, AnaSame
<1>4. OwnTypeOK' /\ StopInv'
  BY <1>1, TypeParts DEF OwnTypeOK, StopInv, MountInv
<1>5. TypeOK'
  BY <1>2, <1>3, <1>4, TypeNext
<1>6. UNCHANGED <<client, at, enqueued>>
  BY <1>1 DEF anaVars
<1>7. LoadInv' /\ FlushInv'
  BY <1>1, <1>6 DEF LoadInv, FlushInv
<1>8. QED
  BY <1>2, <1>3, <1>4, <1>5, <1>7

\* The steps of the analytics client
AnaStep ==
    \/ MakeClient \/ Ping \/ FlushAnalytics \/ Tick
    \/ \E c \in Requests : RequestSubmits(c)
    \/ \E t \in Threads : LockNext(t) \/ NetworkNext(t)

LEMMA AnaStepInv ==
    ASSUME IInv, ~Over, AnaStep
    PROVE  IInv'
<1> USE DEF IInv
<1>1. /\ UNCHANGED regVars
      /\ UNCHANGED <<ended, apiStop, stopper, apiStopped, serving, active, mode, before>>
      /\ UNCHANGED <<mounted, busy, serve, fuseStop, cleaner, fuseStopped, journals>>
  BY DEF AnaStep, MakeClient, Ping, FlushAnalytics, Tick, RequestSubmits, LockNext, NetworkNext,
         apiVars, fuseVars
<1>2. /\ "final" \in Threads \ Callers /\ "ticker" \in Threads \ Callers /\ "final" # "ticker"
      /\ "main" \in Callers /\ Requests \subseteq Callers /\ Callers \subseteq Threads
  BY AnalyticsAssumption, CallersAssumption DEF Threads, Requests
<1>3. RegInv' /\ (RegistryComplete => RegistryComplete')
  BY <1>1, RegSame
<1>4. \/ main' = main
      \/ main = "newClient" /\ main' \in {"startAPI", "failed"}
      \/ main = "ping" /\ main' \in {"pinging", "running"}
      \/ main = "flush" /\ main' \in {"flushing", "exited"}
  BY DEF AnaStep, MakeClient, Ping, FlushAnalytics, Tick, RequestSubmits, LockNext, NetworkNext
<1>5. OwnTypeOK' /\ StopInv'
  <2>1. OwnTypeOK
    BY TypeParts
  <2>2. OwnTypeOK'
    BY <1>1, <1>4, <2>1 DEF OwnTypeOK
  <2>3. StopInv'
    BY <1>1, <1>4, <2>1 DEF OwnTypeOK, StopInv, MountInv
  <2>4. QED
    BY <2>2, <2>3
<1>6. at \in [Threads -> {"idle", "lock", "post"}] /\ before \in Nat /\ before <= Len(enqueued)
  BY DEF TypeOK, AnaTypeOK, FlushInv
<1>7. AnaInv' /\ Grows /\ LoadInv' /\ FlushInv'
  <2>1. CASE MakeClient
    <3>1. main = "newClient" /\ client = "none" /\ main' \in {"startAPI", "failed"}
      BY <2>1 DEF MakeClient, LoadInv
    <3>2. UNCHANGED <<at, delivered, dropped, enqueued>>
      BY <2>1 DEF MakeClient, NewClient, anaVars
    <3>3. AnaInv'
      BY <2>1, <3>1, NewClientStep, AnaSame DEF MakeClient
    <3>4. Grows
      BY <3>2, SameGrows
    <3>5. LoadInv'
      BY <1>1, <1>3, <3>1 DEF LoadInv
    <3>6. FlushInv'
      BY <1>1, <1>6, <3>1, <3>2 DEF FlushInv
    <3>7. QED
      BY <3>3, <3>4, <3>5, <3>6
  <2>2. CASE Ping
    <3>1. main = "ping" /\ main' \in {"pinging", "running"}
      BY <2>2 DEF Ping
    <3>2. UNCHANGED <<delivered, dropped, enqueued>> /\ at'["final"] = at["final"]
      BY <1>2, <1>6, <2>2 DEF Ping, Submit, anaVars
    <3>3. AnaInv'
      BY <1>2, <2>2, SubmitStep, AnaSame DEF Ping
    <3>4. Grows
      BY <3>2, SameGrows
    <3>5. LoadInv'
      BY <1>1, <1>3, <3>1 DEF LoadInv
    <3>6. FlushInv'
      BY <1>1, <1>6, <3>1, <3>2 DEF FlushInv
    <3>7. QED
      BY <3>3, <3>4, <3>5, <3>6
  <2>3. CASE FlushAnalytics
    <3>1. main = "flush" /\ main' \in {"flushing", "exited"}
      BY <2>3 DEF FlushAnalytics
    <3>2. UNCHANGED <<delivered, dropped, enqueued>>
      BY <2>3 DEF FlushAnalytics, Flush, anaVars
    <3>3. AnaInv'
      BY <1>2, <2>3, FlushStep, AnaSame DEF FlushAnalytics
    <3>4. Grows
      BY <3>2, SameGrows
    <3>5. LoadInv'
      BY <1>1, <1>3, <3>1 DEF LoadInv
    <3>6. FlushInv'
      <4>1. CASE client = "real"
        <5>1. main' = "flushing" /\ at'["final"] = "lock"
          BY <1>2, <1>6, <2>3, <4>1 DEF FlushAnalytics, Flush
        <5>2. QED
          BY <1>1, <1>6, <3>2, <5>1 DEF FlushInv
      <4>2. CASE client # "real"
        <5>1. enqueued = <<>> /\ Len(<<>>) = 0
          BY <4>2 DEF AnaInv
        <5>2. before = 0 /\ 1 .. 0 = {}
          BY <1>6, <5>1
        <5>3. Gone'
          BY <1>1, <5>2 DEF Gone
        <5>4. main' = "exited"
          BY <2>3, <4>2 DEF FlushAnalytics
        <5>5. QED
          BY <1>1, <1>6, <3>2, <5>3, <5>4 DEF FlushInv
      <4>3. QED
        BY <4>1, <4>2
    <3>7. QED
      BY <3>3, <3>4, <3>5, <3>6
  <2>4. CASE Tick \/ \E c \in Requests : RequestSubmits(c)
    <3>1. main' = main /\ client' = client
      BY <2>4 DEF Tick, RequestSubmits, Flush, Submit
    <3>2. UNCHANGED <<delivered, dropped, enqueued>> /\ at'["final"] = at["final"]
      BY <1>2, <1>6, <2>4 DEF Tick, RequestSubmits, Flush, Submit
    <3>3. AnaInv'
      BY <1>2, <2>4, FlushStep, SubmitStep DEF Tick, RequestSubmits
    <3>4. Grows
      BY <3>2, SameGrows
    <3>5. LoadInv'
      BY <1>1, <1>3, <3>1 DEF LoadInv
    <3>6. before' <= Len(enqueued') /\ (Gone => Gone')
      BY <1>1, <1>6, <3>4, GoneStable
    <3>7. FlushInv'
      BY <1>1, <3>1, <3>2, <3>6 DEF FlushInv
    <3>8. QED
      BY <3>3, <3>4, <3>5, <3>7
  <2>5. CASE \E t \in Threads : LockNext(t) \/ NetworkNext(t)
    <3>1. PICK t \in Threads : LockNext(t) \/ NetworkNext(t)
      BY <2>5
    <3>2. Acquire(t) \/ Answer(t)
      BY <3>1 DEF LockNext, NetworkNext
    <3>3. main' = main /\ client' = client
      BY <3>1 DEF LockNext, NetworkNext, Acquire, Answer
    <3>4. AnaInv'
      BY <3>2, AcquireStep, AnswerStep
    <3>5. Grows
      BY <3>2, TurnGrows
    <3>6. LoadInv'
      BY <1>1, <1>3, <3>3 DEF LoadInv
    <3>7. before' <= Len(enqueued') /\ (Gone => Gone')
      BY <1>1, <1>6, <3>5, GoneStable
    <3>8. CASE t = "final"
      <4>1. at[t] # "idle"
        BY <3>2 DEF Acquire, Answer
      <4>2. main = "flushing"
        BY <3>8, <4>1 DEF FlushInv, Over
      <4>3. at'["final"] = "idle" => Gone'
        <5> SUFFICES ASSUME at'["final"] = "idle" PROVE Gone'
          OBVIOUS
        <5>1. queuedHits' = <<>>
          BY <1>2, <3>2, <3>8, FlushEmpties
        <5>2. \A i \in 1 .. Len(enqueued') : enqueued'[i] \in Range(delivered') \union dropped'
          BY <3>4, <5>1, EmptyQueue
        <5>3. Len(enqueued') \in Nat
          BY <3>4 DEF AnaInv, AnaTypeOK
        <5>4. 1 .. before' \subseteq 1 .. Len(enqueued')
          BY <1>1, <1>6, <3>7, <5>3
        <5>5. QED
          BY <5>2, <5>4 DEF Gone
      <4>4. QED
        BY <1>1, <3>3, <3>4, <3>5, <3>6, <3>7, <4>2, <4>3 DEF FlushInv
    <3>9. CASE t # "final"
      <4>1. at'["final"] = at["final"]
        BY <1>2, <1>6, <3>2, <3>9 DEF Acquire, Answer, Posted, Unlock
      <4>2. FlushInv'
        BY <1>1, <3>3, <3>7, <4>1 DEF FlushInv
      <4>3. QED
        BY <3>4, <3>5, <3>6, <4>2
    <3>10. QED
      BY <3>8, <3>9
  <2>6. QED
    BY <2>1, <2>2, <2>3, <2>4, <2>5 DEF AnaStep
<1>8. TypeOK'
  BY <1>3, <1>5, <1>7, TypeNext
<1>9. QED
  BY <1>3, <1>5, <1>7, <1>8

LEMMA StepInv == IInv /\ [Next]_vars => IInv'
<1> SUFFICES ASSUME IInv, [Next]_vars PROVE IInv'
  OBVIOUS
<1>1. CASE UNCHANGED vars
  <2>1. UNCHANGED regVars /\ UNCHANGED anaVars
    BY <1>1 DEF vars, rest
  <2>2. /\ UNCHANGED <<main, ended, apiStop, stopper, apiStopped, serving, active, mode, before>>
        /\ UNCHANGED <<mounted, busy, serve, fuseStop, cleaner, fuseStopped, journals>>
    BY <1>1 DEF vars, rest, apiVars, fuseVars
  <2>3. RegInv' /\ AnaInv' /\ Grows /\ (RegistryComplete => RegistryComplete')
    BY <2>1, RegSame, AnaSame DEF IInv
  <2>4. UNCHANGED <<client, at, enqueued, delivered, dropped>>
    BY <2>1 DEF anaVars
  <2>5. OwnTypeOK' /\ StopInv'
    BY <2>2, TypeParts DEF IInv, OwnTypeOK, StopInv, MountInv
  <2>6. LoadInv' /\ FlushInv'
    BY <2>2, <2>3, <2>4 DEF IInv, LoadInv, FlushInv, Gone
  <2>7. TypeOK'
    BY <2>3, <2>5, TypeNext
  <2>8. QED
    BY <2>3, <2>5, <2>6, <2>7 DEF IInv
<1>2. CASE Next /\ ~UNCHANGED vars
  <2>1. /\ ~Over
        /\ OwnStep \/ AnaStep \/ \E p \in Plugins : Loads(p)
    BY <1>2 DEF Next, Terminated, MainNext, OwnStep, AnaStep
  <2>2. QED
    BY <2>1, OwnStepInv, AnaStepInv, LoadsInv
<1>3. QED
  BY <1>1, <1>2

LEMMA Always == Spec => []IInv
BY InitInv, StepInv, PTL DEF Spec

-----------------------------------------------------------------------------
(* Theorems *)

\* The type invariant.
THEOREM TypeCorrect == Spec => []TypeOK
<1>1. IInv => TypeOK
  BY DEF IInv
<1>2. QED
  BY <1>1, Always, PTL

\* core.go:30-32, 118: nothing is served before every plugin was registered, once, although
\* their goroutines register them concurrently.
THEOREM LoadedBeforeServingCorrect == Spec => []LoadedBeforeServing
<1>1. IInv => LoadedBeforeServing
  BY DEF IInv, LoadInv, StopInv, LoadedBeforeServing
<1>2. QED
  BY <1>1, Always, PTL

\* client.go:95: a hit is sent at most once, in the order of the queue, and lost only in a post
\* that failed, whoever submits and flushes concurrently.
THEOREM HitsOnceCorrect == Spec => []HitsOnce
<1>1. IInv => HitsOnce
  BY DEF IInv, AnaInv
<1>2. QED
  BY <1>1, Always, PTL

\* core.go:201: a server that exits in time has sent what was queued before its shutdown.
THEOREM FlushedAtExitCorrect == Spec => []FlushedAtExit
<1>1. IInv => FlushedAtExit
  BY DEF IInv, FlushInv, Gone, FlushedAtExit
<1>2. QED
  BY <1>1, Always, PTL

\* core.go:174-187, 198: nothing is accepted, served or mounted any more when the journals are
\* closed and when the process ends.
THEOREM StoppedBeforeCloseCorrect == Spec => []StoppedBeforeClose
<1>1. IInv => StoppedBeforeClose
  <2> SUFFICES ASSUME IInv, journals = "closed" \/ main \in {"exited", "timedOut", "failed"}
               PROVE  /\ serving # "yes" /\ ~mounted
                      /\ serve = "exited" \/ (serve = "none" /\ main = "failed")
    BY DEF StoppedBeforeClose
  <2>1. main \in {"flush", "flushing", "exited", "timedOut", "failed"}
    BY DEF IInv, StopInv
  <2>2. CASE main = "failed"
    BY <2>2 DEF IInv, StopInv, MountInv
  <2>3. CASE main # "failed"
    <3>1. apiStopped /\ fuseStopped
      BY <2>1, <2>3 DEF IInv, StopInv
    <3>2. stopper = "done" /\ serve = "exited"
      BY <3>1 DEF IInv, StopInv
    <3>3. QED
      BY <3>2 DEF IInv, StopInv, MountInv
  <2>4. QED
    BY <2>2, <2>3
<1>2. QED
  BY <1>1, Always, PTL
=============================================================================
