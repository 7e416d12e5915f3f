--------------------------- MODULE JournalProofs ---------------------------
(* Theorems about Journal, for any number of journals, requests, followers and *)
(* recorders, whatever fails, expires or is closed.                            *)
EXTENDS Journal, TLAPS

\* What a request holds at each point: a journal of its own while it registers it,
\* a recorder once it has one, and one method to submit.
ControlInv ==
    \A t \in Threads :
        /\ pc[t] \in {"check", "add"} => jour[t] \in Journals
        /\ pc[t] \in {"touch", "print", "invoked", "mark", "submit"} => rec[t] \in Recorders
        /\ method[t] = {} \/ \E m \in Methods : method[t] = {m}
        /\ pc[t] \in {"invoked", "mark", "submit"} => method[t] # {}

TypeInv == TypeOK /\ ControlInv

\* History fits its array, and what a follower found in the array it reads is a
\* beginning of history.
FollowInv ==
    /\ Len(list) <= capacity
    /\ \A f \in Followers :
          /\ Len(base[f].items) <= Len(list)
          /\ \A i \in 1 .. Len(base[f].items) : base[f].items[i] = list[i]

\* A method that was submitted is marked; one about to be submitted is marked, was
\* not submitted yet, and no other request is about to submit it.
SubmitInv ==
    /\ \A r \in Recorders, m \in Methods : submitted[r][m] # 0 => m \in invoked[r]
    /\ \A t \in Threads : pc[t] = "submit" =>
          \A m \in method[t] : m \in invoked[rec[t]] /\ submitted[rec[t]][m] = 0
    /\ \A t, u \in Threads :
          pc[t] = "submit" /\ pc[u] = "submit" /\ t # u /\ rec[t] = rec[u] => method[t] # method[u]

IInv == TypeInv /\ RegisteredOnce /\ FollowInv /\ FollowerInOrder /\ SubmitInv /\ SubmittedOnce

-----------------------------------------------------------------------------
(* Lemmas about the operators *)

LEMMA SeqOfFunction ==
    ASSUME NEW S, NEW n \in Nat, NEW q \in [1 .. n -> S]
    PROVE  q \in Seq(S) /\ Len(q) = n
OBVIOUS

LEMMA AppendFacts ==
    ASSUME NEW S, NEW q \in Seq(S), NEW x \in S
    PROVE  /\ Append(q, x) \in Seq(S)
           /\ Len(Append(q, x)) = Len(q) + 1
           /\ Append(q, x)[Len(q) + 1] = x
           /\ \A i \in 1 .. Len(q) : Append(q, x)[i] = q[i]
OBVIOUS

LEMMA SeqElement ==
    ASSUME NEW S, NEW q \in Seq(S), NEW i \in 1 .. Len(q)
    PROVE  q[i] \in S
OBVIOUS

\* Register appends a journal and changes nothing before it.
LEMMA RegisterFacts ==
    ASSUME TypeOK, NEW j \in Journals, Register(j)
    PROVE  /\ list' \in Seq(Journals)
           /\ Len(list) \in Nat
           /\ Len(list') = Len(list) + 1
           /\ list'[Len(list) + 1] = j
           /\ \A i \in 1 .. Len(list) : list'[i] = list[i]
           /\ stored' \in [Journals -> Nat]
           /\ stored'[j] = Len(list) + 1
           /\ \A k \in Journals \ {j} : stored'[k] = stored[k]
           /\ capacity' \in Nat
           /\ Len(list) <= capacity => Len(list') <= capacity'
<1>1. list \in Seq(Journals) /\ list' = Append(list, j)
  BY DEF TypeOK, Register
<1>2. Len(list) \in Nat
  BY <1>1
<1>3. /\ list' \in Seq(Journals)
      /\ Len(list') = Len(list) + 1
      /\ list'[Len(list) + 1] = j
      /\ \A i \in 1 .. Len(list) : list'[i] = list[i]
  BY <1>1, AppendFacts
<1>4. /\ stored' \in [Journals -> Nat]
      /\ stored'[j] = Len(list) + 1
      /\ \A k \in Journals \ {j} : stored'[k] = stored[k]
  BY <1>2, <1>3 DEF TypeOK, Register
<1>5. capacity' \in Nat
  BY <1>2 DEF TypeOK, Register
<1>6. Len(list) <= capacity => Len(list') <= capacity'
  <2> DEFINE n == Len(list)
  <2>1. n \in Nat /\ capacity \in Nat /\ Len(list') = n + 1
        /\ capacity' = IF n < capacity THEN capacity ELSE IF capacity = 0 THEN 1 ELSE 2 * capacity
    BY <1>2, <1>3 DEF TypeOK, Register
  <2> HIDE DEF n
  <2>2. n <= capacity => n + 1 <= capacity'
    BY <2>1
  <2>3. QED
    BY <2>1, <2>2 DEF n
<1>7. QED
  BY <1>2, <1>3, <1>4, <1>5, <1>6

\* What a follower sends: the journals of history it has not sent yet, or garbage if
\* it reads an array that history has left.
LEMMA WriteFacts ==
    ASSUME TypeOK, FollowInv, FollowerInOrder, NEW f \in Followers, WriteHistory(f)
    PROVE  /\ out' \in [Followers -> Seq(Journals \cup {"garbage"})]
           /\ Len(out'[f]) = Len(list)
           /\ \A i \in 1 .. Len(list) : i \in torn'[f] \/ out'[f][i] = list[i]
           /\ \A g \in Followers \ {f} : out'[g] = out[g] /\ torn'[g] = torn[g]
           /\ torn' \in [Followers -> SUBSET Nat]
<1> DEFINE G == Journals \cup {"garbage"}
           k == Len(out[f])
           n == Len(list) - k
           new == [i \in 1 .. n |-> Item(f, k + i)]
<1>1. out[f] \in Seq(G) /\ k \in Nat /\ Len(list) \in Nat /\ n \in Nat
  BY DEF TypeOK, FollowerInOrder
<1>2. list \in Seq(Journals) /\ base[f].items \in Seq(Journals) /\ base[f].cap \in Nat
  BY DEF TypeOK
<1>3. ASSUME NEW i \in 1 .. n
      PROVE  /\ Item(f, k + i) \in {list[k + i], "garbage"} /\ list[k + i] \in Journals
             /\ base[f].cap = capacity => Item(f, k + i) = list[k + i]
  <2>1. k + i \in 1 .. Len(list)
    BY <1>1
  <2>2. list[k + i] \in Journals
    BY <1>2, <2>1, SeqElement
  <2>3. CASE k + i <= Len(base[f].items)
    <3>1. k + i \in 1 .. Len(base[f].items)
      BY <1>1, <1>2, <2>1, <2>3
    <3>2. QED
      BY <2>2, <2>3, <3>1 DEF Item, FollowInv
  <2>4. CASE ~(k + i <= Len(base[f].items))
    <3>1. Item(f, k + i) = IF k + i <= base[f].cap THEN list[k + i] ELSE "garbage"
      BY <2>4 DEF Item
    <3>2. base[f].cap = capacity => k + i <= base[f].cap
      <4> DEFINE x == k + i
                 l == Len(list)
      <4>1. x \in 1 .. l /\ l \in Nat /\ l <= capacity /\ capacity \in Nat
        BY <1>1, <2>1 DEF FollowInv, TypeOK
      <4> HIDE DEF x, l
      <4>2. x <= capacity
        BY <4>1
      <4>3. QED
        BY <4>2 DEF x
    <3>3. QED
      BY <2>2, <3>1, <3>2
  <2>5. QED
    BY <2>3, <2>4
<1>4. new \in [1 .. n -> G]
  BY <1>3
<1>5. new \in Seq(G) /\ Len(new) = n
  BY <1>1, <1>4, SeqOfFunction
<1>6. out' = [out EXCEPT ![f] = out[f] \o new]
  BY DEF WriteHistory
<1>7. \A i \in 1 .. n : new[i] = Item(f, k + i)
  OBVIOUS
<1> HIDE DEF new, n, G
<1>8. /\ out[f] \o new \in Seq(G)
      /\ Len(out[f] \o new) = k + n
      /\ \A i \in 1 .. k : (out[f] \o new)[i] = out[f][i]
      /\ \A i \in 1 .. n : (out[f] \o new)[k + i] = new[i]
  <2> DEFINE q == out[f]
  <2>1. q \in Seq(G) /\ Len(q) = k
    BY <1>1
  <2> HIDE DEF q, k
  <2>2. /\ q \o new \in Seq(G)
        /\ Len(q \o new) = k + n
        /\ \A i \in 1 .. k : (q \o new)[i] = q[i]
        /\ \A i \in 1 .. n : (q \o new)[k + i] = new[i]
    BY <1>5, <2>1
  <2>3. QED
    BY <2>2 DEF q
<1>9. out'[f] = out[f] \o new /\ \A g \in Followers \ {f} : out'[g] = out[g]
  BY <1>6 DEF TypeOK
<1>10. out' \in [Followers -> Seq(G)]
  BY <1>6, <1>8 DEF TypeOK, G
<1> DEFINE sent == IF base[f].cap = capacity THEN {} ELSE (k + 1) .. Len(list)
<1>11. torn' = [torn EXCEPT ![f] = torn[f] \cup sent] /\ torn \in [Followers -> SUBSET Nat]
  BY DEF WriteHistory, Tear, TypeOK
<1>12. sent \in SUBSET Nat
  BY <1>1
<1>13. base[f].cap # capacity => sent = (k + 1) .. Len(list)
  OBVIOUS
<1> HIDE DEF sent, k
<1>14. /\ torn'[f] = torn[f] \cup sent /\ torn' \in [Followers -> SUBSET Nat]
       /\ \A g \in Followers \ {f} : torn'[g] = torn[g]
  BY <1>11, <1>12
<1>15. ASSUME NEW i \in 1 .. Len(list) PROVE i \in torn'[f] \/ out'[f][i] = list[i]
  <2>1. CASE i \in 1 .. k
    BY <1>8, <1>9, <1>14, <2>1 DEF FollowerInOrder, k
  <2>2. CASE i \notin 1 .. k
    <3>1. i - k \in 1 .. n /\ k + (i - k) = i /\ i \in (k + 1) .. Len(list)
      BY <1>1, <2>2 DEF n
    <3> DEFINE x == i - k
    <3>2. CASE base[f].cap = capacity
      <4>1. x \in 1 .. n /\ k + x = i
        BY <3>1
      <4> HIDE DEF x
      <4>2. Item(f, k + x) = list[k + x]
        BY <1>3, <3>2, <4>1
      <4>3. out'[f][k + x] = Item(f, k + x)
        BY <1>7, <1>8, <1>9, <4>1
      <4>4. QED
        BY <4>1, <4>2, <4>3
    <3>3. CASE base[f].cap # capacity
      BY <1>13, <1>14, <3>1, <3>3
    <3>4. QED
      BY <3>2, <3>3
  <2>3. QED
    BY <2>1, <2>2
<1>16. QED
  BY <1>1, <1>8, <1>9, <1>10, <1>14, <1>15 DEF n, G


-----------------------------------------------------------------------------
(* Types *)

LEMMA InitType == Init => TypeInv
<1> SUFFICES ASSUME Init PROVE TypeInv
  OBVIOUS
<1> USE DEF Init
<1>1. list \in Seq(Journals) /\ stored \in [Journals -> Nat] /\ capacity \in Nat
  <2>1. Earlier \in Seq(Journals) /\ Len(Earlier) \in Nat
    BY EarlierAssumption
  <2>2. stored \in [Journals -> Nat]
    BY <2>1
  <2>3. capacity \in Nat
    BY <2>1 DEF Grown
  <2>4. QED
    BY <2>1, <2>2, <2>3
<1>2. /\ cached \in [AllJournals -> {NoRecorder, OpenError} \cup Recorders]
      /\ expired \subseteq AllJournals /\ open \subseteq Recorders
  OBVIOUS
<1>3. nextRec \in 1 .. (MaxRecorders + 1)
  BY LimitAssumption
<1>4. invoked \in [Recorders -> SUBSET Methods] /\ submitted \in [Recorders -> [Methods -> Nat]]
  OBVIOUS
<1>5. /\ pc \in [Threads -> {"idle"}]
      /\ jour \in [Threads -> AllJournals]
      /\ method \in [Threads -> {{}}]
      /\ rec \in [Threads -> {NoRecorder} \cup Recorders]
      /\ panicked \in {"none", "request", "process"}
  BY DEF AllJournals
<1>6. /\ fpc \in [Followers -> {"array", "length"}]
      /\ out \in [Followers -> Seq(Journals \cup {"garbage"})]
      /\ torn \in [Followers -> SUBSET Nat]
  OBVIOUS
<1>7. base \in [Followers -> [cap : Nat, items : Seq(Journals)]]
  BY DEF NoArray
<1> HIDE DEF Init
<1>8. TypeOK
  BY <1>1, <1>2, <1>3, <1>4, <1>5, <1>6, <1>7 DEF TypeOK
<1>9. ControlInv
  BY <1>5 DEF ControlInv
<1>10. QED
  BY <1>8, <1>9 DEF TypeInv

\* The parts of the state that a step may change.
ThreadTypes ==
    /\ pc \in [Threads -> {"idle", "check", "add", "get", "touch", "make", "print",
                           "invoked", "mark", "submit"}]
    /\ jour \in [Threads -> AllJournals]
    /\ method \in [Threads -> SUBSET Methods]
    /\ rec \in [Threads -> {NoRecorder} \cup Recorders]
    /\ ControlInv
HistoryTypes == list \in Seq(Journals) /\ stored \in [Journals -> Nat] /\ capacity \in Nat
CacheTypes ==
    /\ cached \in [AllJournals -> {NoRecorder, OpenError} \cup Recorders]
    /\ expired \subseteq AllJournals
    /\ open \subseteq Recorders
    /\ nextRec \in 1 .. (MaxRecorders + 1)
CallTypes ==
    /\ invoked \in [Recorders -> SUBSET Methods]
    /\ submitted \in [Recorders -> [Methods -> Nat]]
FollowTypes ==
    /\ fpc \in [Followers -> {"array", "length"}]
    /\ base \in [Followers -> [cap : Nat, items : Seq(Journals)]]
    /\ out \in [Followers -> Seq(Journals \cup {"garbage"})]
    /\ torn \in [Followers -> SUBSET Nat]
PanicTypes == panicked \in {"none", "request", "process"}

LEMMA TypeParts ==
    TypeInv <=> ThreadTypes /\ HistoryTypes /\ CacheTypes /\ CallTypes /\ FollowTypes /\ PanicTypes
BY DEF TypeInv, TypeOK, ThreadTypes, HistoryTypes, CacheTypes, CallTypes, FollowTypes, PanicTypes

LEMMA TypePartsNext ==
    ASSUME ThreadTypes', HistoryTypes', CacheTypes', CallTypes', FollowTypes', PanicTypes'
    PROVE  TypeInv'
BY DEF TypeInv, TypeOK, ThreadTypes, HistoryTypes, CacheTypes, CallTypes, FollowTypes, PanicTypes

LEMMA Untouched ==
    ASSUME TypeInv
    PROVE  /\ UNCHANGED historyVars => HistoryTypes'
           /\ UNCHANGED cacheVars => CacheTypes'
           /\ UNCHANGED callVars => CallTypes'
           /\ UNCHANGED followVars => FollowTypes'
           /\ UNCHANGED panicked => PanicTypes'
           /\ UNCHANGED <<pc, locals>> => ThreadTypes'
<1>1. ThreadTypes /\ HistoryTypes /\ CacheTypes /\ CallTypes /\ FollowTypes /\ PanicTypes
  BY TypeParts
<1>2. UNCHANGED historyVars => HistoryTypes'
  BY <1>1 DEF HistoryTypes, historyVars
<1>3. UNCHANGED cacheVars => CacheTypes'
  BY <1>1 DEF CacheTypes, cacheVars
<1>4. UNCHANGED callVars => CallTypes'
  BY <1>1 DEF CallTypes, callVars
<1>5. UNCHANGED followVars => FollowTypes'
  BY <1>1 DEF FollowTypes, followVars
<1>6. UNCHANGED panicked => PanicTypes'
  BY <1>1 DEF PanicTypes
<1>7. UNCHANGED <<pc, locals>> => ThreadTypes'
  BY <1>1 DEF ThreadTypes, ControlInv, locals
<1>8. QED
  BY <1>2, <1>3, <1>4, <1>5, <1>6, <1>7

LEMMA ReturnTypes ==
    ASSUME TypeInv, NEW t \in Threads, Return(t)
    PROVE  ThreadTypes'
BY DEF TypeInv, TypeOK, ControlInv, Return, ThreadTypes, AllJournals

\* Storing and evicting keep the cache.
LEMMA StoredTypes ==
    ASSUME TypeInv, NEW t \in Threads, NEW r \in {OpenError} \cup Recorders, Stored(t, r)
    PROVE  /\ cached' \in [AllJournals -> {NoRecorder, OpenError} \cup Recorders]
           /\ expired' \subseteq AllJournals
BY DEF TypeInv, TypeOK, Stored

LEMMA EvictTypes ==
    ASSUME TypeInv, NEW J \in SUBSET AllJournals, Evict(J), UNCHANGED nextRec
    PROVE  CacheTypes'
BY DEF TypeInv, TypeOK, Evict, CacheTypes


\* Every step keeps the types and what a request holds.
LEMMA TypeStep ==
    ASSUME TypeInv, FollowInv, FollowerInOrder, [Next]_vars
    PROVE  TypeInv'
<1>1. ASSUME NEW t \in Threads, NEW j \in AllJournals, NEW ms \in SUBSET Methods, NEW l,
             Start(t, j, ms, l), l = "get" \/ (l = "check" /\ j # DeadLetter),
             ms = {} \/ \E m \in Methods : ms = {m}
      PROVE  TypeInv'
  <2>1. ThreadTypes'
    BY <1>1 DEF Start, TypeInv, TypeOK, ThreadTypes, ControlInv, AllJournals
  <2>2. QED
    BY <1>1, <2>1, Untouched, TypePartsNext DEF Start
<1>2. ASSUME NEW t \in Threads, CheckHistory(t) PROVE TypeInv'
  <2>1. ThreadTypes'
    BY <1>2 DEF CheckHistory, Goto, locals, TypeInv, TypeOK, ThreadTypes, ControlInv
  <2>2. QED
    BY <1>2, <2>1, Untouched, TypePartsNext DEF CheckHistory
<1>3. ASSUME NEW t \in Threads, AddToHistory(t) PROVE TypeInv'
  <2>1. ThreadTypes'
    BY <1>3 DEF AddToHistory, Goto, locals, TypeInv, TypeOK, ThreadTypes, ControlInv
  <2>2. jour[t] \in Journals
    BY <1>3 DEF AddToHistory, TypeInv, ControlInv
  <2>3. Register(jour[t]) => HistoryTypes'
    BY <2>2, RegisterFacts DEF HistoryTypes, TypeInv
  <2>4. HistoryTypes'
    BY <1>3, <2>3, Untouched DEF AddToHistory
  <2>5. QED
    BY <1>3, <2>1, <2>4, Untouched, TypePartsNext DEF AddToHistory
<1>4. ASSUME NEW t \in Threads, Hit(t) PROVE TypeInv'
  <2>1. ThreadTypes'
    <3>1. CASE cached[jour[t]] = OpenError
      BY <1>4, <3>1, ReturnTypes DEF Hit, Panic
    <3>2. CASE cached[jour[t]] # OpenError
      <4>1. cached[jour[t]] \in Recorders
        BY <1>4, <3>2 DEF Hit, Live, TypeInv, TypeOK
      <4>2. QED
        BY <1>4, <3>2, <4>1 DEF Hit, GotRecorder, TypeInv, TypeOK, ThreadTypes, ControlInv
    <3>3. QED
      BY <3>1, <3>2
  <2>2. PanicTypes'
    BY <1>4 DEF Hit, Panic, PanicTypes, TypeInv, TypeOK
  <2>3. QED
    BY <1>4, <2>1, <2>2, Untouched, TypePartsNext DEF Hit
<1>5. ASSUME NEW t \in Threads, Touch(t) PROVE TypeInv'
  <2>1. ThreadTypes'
    BY <1>5 DEF Touch, Use, Goto, locals, TypeInv, TypeOK, ThreadTypes, ControlInv
  <2>2. rec[t] \in Recorders
    BY <1>5 DEF Touch, TypeInv, ControlInv
  <2>3. CacheTypes'
    BY <1>5, <2>2, StoredTypes DEF Touch, CacheTypes, TypeInv, TypeOK
  <2>4. QED
    BY <1>5, <2>1, <2>3, Untouched, TypePartsNext DEF Touch
<1>6. ASSUME NEW t \in Threads, Miss(t) PROVE TypeInv'
  <2>1. ThreadTypes'
    BY <1>6 DEF Miss, Misses, Goto, locals, TypeInv, TypeOK, ThreadTypes, ControlInv
  <2>2. QED
    BY <1>6, <2>1, Untouched, TypePartsNext DEF Miss
<1>7. ASSUME NEW t \in Threads, MissAtLimit(t) PROVE TypeInv'
  <2>1. ThreadTypes'
    BY <1>7, Untouched DEF MissAtLimit, Misses, Goto, locals, TypeInv, TypeOK, ThreadTypes, ControlInv
  <2>2. CacheTypes'
    <3>1. ASSUME NEW j \in LiveItems, Evict({j}) PROVE CacheTypes'
      BY <1>7, <3>1, EvictTypes DEF LiveItems, Items, MissAtLimit
    <3>2. CASE UNCHANGED <<cached, expired, open>>
      BY <1>7, <3>2, Untouched DEF MissAtLimit, cacheVars
    <3>3. QED
      BY <1>7, <3>1, <3>2 DEF MissAtLimit
  <2>3. PanicTypes'
    BY <1>7 DEF MissAtLimit, PanicTypes, TypeInv, TypeOK
  <2>4. QED
    BY <1>7, <2>1, <2>2, <2>3, Untouched, TypePartsNext DEF MissAtLimit
<1>8. ASSUME NEW t \in Threads, MakeRecorder(t) PROVE TypeInv'
  <2>1. nextRec \in Recorders /\ nextRec + 1 \in 1 .. (MaxRecorders + 1)
    BY <1>8, LimitAssumption DEF MakeRecorder, TypeInv, TypeOK, Recorders
  <2>2. ThreadTypes'
    BY <1>8, <2>1 DEF MakeRecorder, GotRecorder, Use, TypeInv, TypeOK, ThreadTypes, ControlInv
  <2>3. CacheTypes'
    BY <1>8, <2>1, StoredTypes DEF MakeRecorder, CacheTypes, TypeInv, TypeOK
  <2>4. QED
    BY <1>8, <2>2, <2>3, Untouched, TypePartsNext DEF MakeRecorder
<1>9. ASSUME NEW t \in Threads, MakeFails(t) PROVE TypeInv'
  <2>1. CacheTypes'
    BY <1>9, StoredTypes DEF MakeFails, CacheTypes, TypeInv, TypeOK
  <2>2. ThreadTypes' /\ PanicTypes'
    BY <1>9, ReturnTypes DEF MakeFails, Panic, PanicTypes
  <2>3. QED
    BY <1>9, <2>1, <2>2, Untouched, TypePartsNext DEF MakeFails
<1>10. ASSUME NEW t \in Threads, PrintMessage(t) PROVE TypeInv'
  BY <1>10, ReturnTypes, Untouched, TypePartsNext DEF PrintMessage
<1>11. ASSUME NEW t \in Threads, CheckInvoked(t) PROVE TypeInv'
  <2>1. Goto(t, "mark") => ThreadTypes'
    BY <1>11 DEF CheckInvoked, Goto, locals, TypeInv, TypeOK, ThreadTypes, ControlInv
  <2>2. QED
    BY <1>11, <2>1, ReturnTypes, Untouched, TypePartsNext DEF CheckInvoked
<1>12. ASSUME NEW t \in Threads, MarkInvoked(t) PROVE TypeInv'
  <2>1. Goto(t, "submit") => ThreadTypes'
    BY <1>12 DEF MarkInvoked, Goto, locals, TypeInv, TypeOK, ThreadTypes, ControlInv
  <2>2. CallTypes'
    BY <1>12 DEF MarkInvoked, CallTypes, TypeInv, TypeOK, ControlInv
  <2>3. QED
    BY <1>12, <2>1, <2>2, ReturnTypes, Untouched, TypePartsNext DEF MarkInvoked
<1>13. ASSUME NEW t \in Threads, Submit(t) PROVE TypeInv'
  <2>1. CallTypes'
    BY <1>13 DEF Submit, CallTypes, TypeInv, TypeOK, ControlInv
  <2>2. QED
    BY <1>13, <2>1, ReturnTypes, Untouched, TypePartsNext DEF Submit
<1>14. ASSUME NEW j \in AllJournals, Expire(j) PROVE TypeInv'
  <2>1. CacheTypes'
    BY <1>14 DEF Expire, CacheTypes, TypeInv, TypeOK
  <2>2. QED
    BY <1>14, <2>1, Untouched, TypePartsNext DEF Expire
<1>15. ASSUME NEW J \in SUBSET AllJournals, CloseRecorders(J) PROVE TypeInv'
  <2>1. CacheTypes'
    BY <1>15, EvictTypes, Untouched DEF CloseRecorders, cacheVars
  <2>2. PanicTypes'
    BY <1>15 DEF CloseRecorders, PanicTypes, TypeInv, TypeOK
  <2>3. QED
    BY <1>15, <2>1, <2>2, Untouched, TypePartsNext DEF CloseRecorders
<1>16. CASE Janitor \/ CloseAll
  BY <1>15, <1>16 DEF Janitor, CloseAll, Items, TypeInv, TypeOK
<1>17. ASSUME NEW f \in Followers, LoadArray(f) PROVE TypeInv'
  <2>1. FollowTypes'
    BY <1>17 DEF LoadArray, FollowTypes, TypeInv, TypeOK
  <2>2. QED
    BY <1>17, <2>1, Untouched, TypePartsNext DEF LoadArray
<1>18. ASSUME NEW f \in Followers, WriteHistory(f) PROVE TypeInv'
  <2>1. out' \in [Followers -> Seq(Journals \cup {"garbage"})] /\ torn' \in [Followers -> SUBSET Nat]
    BY <1>18, WriteFacts DEF TypeInv
  <2>2. NoArray \in [cap : Nat, items : Seq(Journals)]
    BY DEF NoArray
  <2>3. FollowTypes'
    BY <1>18, <2>1, <2>2 DEF WriteHistory, FollowTypes, TypeInv, TypeOK
  <2>4. QED
    BY <1>18, <2>3, Untouched, TypePartsNext DEF WriteHistory
<1>19. CASE UNCHANGED vars
  BY <1>19, Untouched, TypePartsNext DEF vars
<1>20. ASSUME NEW t \in Threads, NEW j \in AllJournals, NEW m \in Methods,
              Record(t, j) \/ SubmitMethodInvocation(t, j, m)
       PROVE  TypeInv'
  BY <1>1, <1>20 DEF Record, SubmitMethodInvocation
<1>21. ASSUME NEW t \in Threads, NEW j \in AllJournals, Record(t, j)
       PROVE  TypeInv'
  BY <1>1, <1>21 DEF Record
<1>22. QED
  BY <1>2, <1>3, <1>4, <1>5, <1>6, <1>7, <1>8, <1>9, <1>10, <1>11, <1>12, <1>13, <1>14, <1>16,
     <1>17, <1>18, <1>19, <1>20, <1>21 DEF Next


-----------------------------------------------------------------------------
(* History *)

\* Only AddToHistory changes history, for a journal that was not there.
LEMMA HistoryStep ==
    ASSUME TypeInv, [Next]_vars
    PROVE  \/ UNCHANGED historyVars
           \/ \E j \in Journals : Register(j) /\ stored[j] = 0 /\ UNCHANGED followVars
<1>1. ASSUME NEW t \in Threads, AddToHistory(t)
      PROVE  \/ UNCHANGED historyVars
             \/ \E j \in Journals : Register(j) /\ stored[j] = 0 /\ UNCHANGED followVars
  BY <1>1 DEF AddToHistory, TypeInv, ControlInv
<1>2. QED
  BY <1>1 DEF Next, Record, SubmitMethodInvocation, Start, CheckHistory, Hit, Touch, Miss, MissAtLimit,
     MakeRecorder, MakeFails, PrintMessage, CheckInvoked, MarkInvoked, Submit, Expire, Janitor, CloseAll,
     CloseRecorders, LoadArray, WriteHistory, vars

LEMMA RegisterStep ==
    ASSUME TypeInv, RegisteredOnce, [Next]_vars
    PROVE  RegisteredOnce'
<1>1. CASE UNCHANGED historyVars
  BY <1>1 DEF RegisteredOnce, historyVars
<1>2. ASSUME NEW j \in Journals, Register(j), stored[j] = 0 PROVE RegisteredOnce'
  <2> DEFINE n == Len(list)
  <2>1. /\ n \in Nat /\ Len(list') = n + 1
        /\ list'[n + 1] = j /\ \A i \in 1 .. n : list'[i] = list[i]
        /\ stored'[j] = n + 1 /\ \A k \in Journals \ {j} : stored'[k] = stored[k]
    BY <1>2, RegisterFacts DEF TypeInv
  <2>2. \A i \in 1 .. n : list[i] \in Journals /\ list[i] # j
    BY <1>2, SeqElement DEF RegisteredOnce, TypeInv, TypeOK
  <2>3. \A k \in Journals : stored[k] \in Nat
    BY DEF TypeInv, TypeOK
  <2>4. ASSUME NEW i \in 1 .. Len(list') PROVE stored'[list'[i]] = i
    <3>1. i \in 1 .. n \/ i = n + 1
      BY <2>1
    <3>2. QED
      BY <2>1, <2>2, <3>1 DEF RegisteredOnce
  <2>5. ASSUME NEW k \in Journals, stored'[k] # 0
        PROVE  stored'[k] <= Len(list') /\ list'[stored'[k]] = k
    <3>1. CASE k = j
      BY <2>1, <3>1
    <3>2. CASE k # j
      <4>1. stored[k] \in 1 .. n /\ list[stored[k]] = k
        BY <2>1, <2>3, <2>5, <3>2 DEF RegisteredOnce
      <4>2. QED
        BY <2>1, <3>2, <4>1
    <3>3. QED
      BY <3>1, <3>2
  <2>6. QED
    BY <2>4, <2>5 DEF RegisteredOnce
<1>3. QED
  BY <1>1, <1>2, HistoryStep

\* History only grows, so what a follower has read or sent stays right.
LEMMA FollowStep ==
    ASSUME TypeInv, FollowInv, FollowerInOrder, [Next]_vars
    PROVE  FollowInv' /\ FollowerInOrder'
<1>1. CASE UNCHANGED <<list, capacity, base, out, torn>>
  BY <1>1 DEF FollowInv, FollowerInOrder
<1>2. ASSUME NEW j \in Journals, Register(j), UNCHANGED followVars PROVE FollowInv' /\ FollowerInOrder'
  <2>1. /\ Len(list) \in Nat /\ Len(list') = Len(list) + 1
        /\ \A i \in 1 .. Len(list) : list'[i] = list[i]
        /\ Len(list) <= capacity => Len(list') <= capacity'
    BY <1>2, RegisterFacts DEF TypeInv
  <2>2. \A f \in Followers : Len(base[f].items) \in Nat /\ Len(out[f]) \in Nat
    BY DEF TypeInv, TypeOK
  <2>3. FollowInv'
    BY <1>2, <2>1, <2>2 DEF FollowInv, followVars
  <2>4. FollowerInOrder'
    BY <1>2, <2>1, <2>2 DEF FollowerInOrder, followVars
  <2>5. QED
    BY <2>3, <2>4
<1>3. ASSUME NEW f \in Followers, LoadArray(f) PROVE FollowInv' /\ FollowerInOrder'
  <2>1. /\ base'[f].items = list /\ \A g \in Followers \ {f} : base'[g] = base[g]
        /\ UNCHANGED <<list, capacity, out, torn>>
    BY <1>3 DEF LoadArray, historyVars, TypeInv, TypeOK
  <2>2. Len(list) \in Nat
    BY DEF TypeInv, TypeOK
  <2>3. QED
    BY <2>1, <2>2 DEF FollowInv, FollowerInOrder
<1>4. ASSUME NEW f \in Followers, WriteHistory(f) PROVE FollowInv' /\ FollowerInOrder'
  <2>1. /\ base'[f].items = <<>> /\ \A g \in Followers \ {f} : base'[g] = base[g]
        /\ UNCHANGED <<list, capacity>>
    BY <1>4 DEF WriteHistory, NoArray, historyVars, TypeInv, TypeOK
  <2>2. Len(list) \in Nat
    BY DEF TypeInv, TypeOK
  <2>3. FollowInv'
    BY <2>1, <2>2 DEF FollowInv
  <2>4. /\ Len(out'[f]) = Len(list)
        /\ \A i \in 1 .. Len(list) : i \in torn'[f] \/ out'[f][i] = list[i]
        /\ \A g \in Followers \ {f} : out'[g] = out[g] /\ torn'[g] = torn[g]
    BY <1>4, WriteFacts DEF TypeInv
  <2>5. FollowerInOrder'
    BY <2>1, <2>2, <2>4 DEF FollowerInOrder
  <2>6. QED
    BY <2>3, <2>5
<1>5. ASSUME UNCHANGED historyVars,
             ~ \E f \in Followers : LoadArray(f) \/ WriteHistory(f)
      PROVE  UNCHANGED <<list, capacity, base, out, torn>>
  <2>1. UNCHANGED followVars
    BY <1>5 DEF Next, Record, SubmitMethodInvocation, Start, CheckHistory, AddToHistory, Hit, Touch, Miss,
       MissAtLimit, MakeRecorder, MakeFails, PrintMessage, CheckInvoked, MarkInvoked, Submit, Expire,
       Janitor, CloseAll, CloseRecorders, vars
  <2>2. QED
    BY <1>5, <2>1 DEF followVars, historyVars
<1>6. QED
  BY <1>1, <1>2, <1>3, <1>4, <1>5, HistoryStep


-----------------------------------------------------------------------------
(* Method invocations *)

\* A step that neither marks nor submits, and starts no submission.
LEMMA SubmitKept ==
    ASSUME SubmitInv, SubmittedOnce, UNCHANGED callVars,
           \A t \in Threads : pc'[t] = "submit" =>
               pc[t] = "submit" /\ rec'[t] = rec[t] /\ method'[t] = method[t]
    PROVE  SubmitInv' /\ SubmittedOnce'
BY DEF SubmitInv, SubmittedOnce, callVars

LEMMA SubmitStep ==
    ASSUME TypeInv, SubmitInv, SubmittedOnce, [Next]_vars
    PROVE  SubmitInv' /\ SubmittedOnce'
<1> USE DEF TypeInv
<1>1. ASSUME NEW t \in Threads, Return(t) PROVE
        \A u \in Threads : pc'[u] = "submit" =>
            u # t /\ pc[u] = "submit" /\ rec'[u] = rec[u] /\ method'[u] = method[u]
  BY <1>1 DEF Return, TypeOK
<1>2. ASSUME NEW t \in Threads, NEW l, Goto(t, l), l # "submit" PROVE
        \A u \in Threads : pc'[u] = "submit" =>
            pc[u] = "submit" /\ rec'[u] = rec[u] /\ method'[u] = method[u]
  BY <1>2 DEF Goto, locals, TypeOK
<1>3. ASSUME NEW t \in Threads, NEW r, NEW l, GotRecorder(t, r, l), l # "submit" PROVE
        \A u \in Threads : pc'[u] = "submit" =>
            pc[u] = "submit" /\ rec'[u] = rec[u] /\ method'[u] = method[u]
  BY <1>3 DEF GotRecorder, TypeOK
<1>4. ASSUME NEW t \in Threads, NEW j, NEW ms, NEW l, Start(t, j, ms, l), l # "submit"
      PROVE  SubmitInv' /\ SubmittedOnce'
  <2>1. \A u \in Threads : pc'[u] = "submit" =>
            pc[u] = "submit" /\ rec'[u] = rec[u] /\ method'[u] = method[u]
    BY <1>4 DEF Start, TypeOK
  <2>2. QED
    BY <1>4, <2>1, SubmitKept DEF Start
<1>5. ASSUME NEW t \in Threads, NEW j \in AllJournals,
             Record(t, j) \/ \E m \in Methods : SubmitMethodInvocation(t, j, m)
      PROVE  SubmitInv' /\ SubmittedOnce'
  BY <1>4, <1>5 DEF Record, SubmitMethodInvocation
<1>6. ASSUME NEW t \in Threads,
             CheckHistory(t) \/ AddToHistory(t) \/ Touch(t) \/ Miss(t)
      PROVE  SubmitInv' /\ SubmittedOnce'
  BY <1>2, <1>6, SubmitKept DEF CheckHistory, AddToHistory, Touch, Use, Miss
<1>7. ASSUME NEW t \in Threads, Hit(t) \/ MakeRecorder(t) \/ MakeFails(t) \/ PrintMessage(t)
      PROVE  SubmitInv' /\ SubmittedOnce'
  BY <1>1, <1>3, <1>7, SubmitKept DEF Hit, Panic, MakeRecorder, Use, MakeFails, PrintMessage
<1>8. ASSUME NEW t \in Threads, MissAtLimit(t) PROVE SubmitInv' /\ SubmittedOnce'
  BY <1>2, <1>8, SubmitKept DEF MissAtLimit, locals
<1>9. ASSUME NEW t \in Threads, CheckInvoked(t) PROVE SubmitInv' /\ SubmittedOnce'
  BY <1>1, <1>2, <1>9, SubmitKept DEF CheckInvoked
<1>10. ASSUME NEW t \in Threads, MarkInvoked(t) PROVE SubmitInv' /\ SubmittedOnce'
  <2>1. rec[t] \in Recorders
    BY <1>10 DEF MarkInvoked, ControlInv
  <2>2. PICK x \in Methods : method[t] = {x}
    BY <1>10 DEF MarkInvoked, ControlInv
  <2>3. /\ invoked'[rec[t]] = invoked[rec[t]] \cup {x}
        /\ \A r \in Recorders \ {rec[t]} : invoked'[r] = invoked[r]
        /\ UNCHANGED submitted
    BY <1>10, <2>1, <2>2 DEF MarkInvoked, TypeOK
  <2>4. \A r \in Recorders : invoked[r] \subseteq invoked'[r]
    BY <2>1, <2>3
  <2>5. \A u \in Threads : pc[u] = "submit" => rec[u] \in Recorders /\ \E m \in Methods : method[u] = {m}
    BY DEF ControlInv
  <2>6. CASE x \in invoked[rec[t]]
    <3>1. Return(t)
      BY <1>10, <2>2, <2>6 DEF MarkInvoked
    <3>2. \A u \in Threads : pc'[u] = "submit" =>
            pc[u] = "submit" /\ rec'[u] = rec[u] /\ method'[u] = method[u]
      BY <1>1, <3>1
    <3>3. QED
      BY <2>3, <2>4, <2>5, <3>2 DEF SubmitInv, SubmittedOnce
  <2>7. CASE x \notin invoked[rec[t]]
    <3>1. Goto(t, "submit")
      BY <1>10, <2>2, <2>7 DEF MarkInvoked
    <3>2. /\ UNCHANGED <<rec, method>>
          /\ \A u \in Threads \ {t} : pc'[u] = pc[u]
      BY <3>1 DEF Goto, locals, TypeOK
    <3>3. submitted[rec[t]][x] = 0
      BY <2>1, <2>7 DEF SubmitInv
    <3>4. \A u \in Threads \ {t} : pc[u] = "submit" /\ rec[u] = rec[t] => method[u] # method[t]
      BY <2>2, <2>7 DEF SubmitInv
    <3>5. \A r \in Recorders, m \in Methods : submitted'[r][m] # 0 => m \in invoked'[r]
      BY <2>3, <2>4 DEF SubmitInv
    <3>6. ASSUME NEW u \in Threads, pc'[u] = "submit", NEW m \in method'[u]
          PROVE  m \in invoked'[rec'[u]] /\ submitted'[rec'[u]][m] = 0
      <4>1. CASE u = t
        BY <2>2, <2>3, <3>2, <3>3, <3>6, <4>1
      <4>2. CASE u # t
        BY <2>3, <2>4, <2>5, <3>2, <3>6, <4>2 DEF SubmitInv
      <4>3. QED
        BY <4>1, <4>2
    <3>7. \A u, v \in Threads :
            pc'[u] = "submit" /\ pc'[v] = "submit" /\ u # v /\ rec'[u] = rec'[v] => method'[u] # method'[v]
      BY <3>2, <3>4 DEF SubmitInv
    <3>8. SubmittedOnce'
      BY <2>3 DEF SubmittedOnce
    <3>9. QED
      BY <3>5, <3>6, <3>7, <3>8 DEF SubmitInv
  <2>8. QED
    BY <2>6, <2>7
<1>11. ASSUME NEW t \in Threads, Submit(t) PROVE SubmitInv' /\ SubmittedOnce'
  <2>1. rec[t] \in Recorders /\ pc[t] = "submit"
    BY <1>11 DEF Submit, ControlInv
  <2>2. PICK x \in Methods : method[t] = {x}
    BY <2>1 DEF ControlInv
  <2>3. submitted[rec[t]][x] = 0 /\ x \in invoked[rec[t]]
    BY <2>1, <2>2 DEF SubmitInv
  <2>4. /\ UNCHANGED invoked
        /\ submitted'[rec[t]][x] = 1
        /\ \A m \in Methods \ {x} : submitted'[rec[t]][m] = submitted[rec[t]][m]
        /\ \A r \in Recorders \ {rec[t]} : submitted'[r] = submitted[r]
    BY <1>11, <2>1, <2>2, <2>3 DEF Submit, TypeOK
  <2>5. \A u \in Threads : pc'[u] = "submit" =>
            u # t /\ pc[u] = "submit" /\ rec'[u] = rec[u] /\ method'[u] = method[u]
    BY <1>1, <1>11 DEF Submit
  <2>6. SubmittedOnce'
    BY <2>1, <2>4 DEF SubmittedOnce
  <2>7. \A r \in Recorders, m \in Methods : submitted'[r][m] # 0 => m \in invoked'[r]
    BY <2>1, <2>3, <2>4 DEF SubmitInv
  <2>8. ASSUME NEW u \in Threads, pc'[u] = "submit", NEW m \in method'[u]
        PROVE  m \in invoked'[rec'[u]] /\ submitted'[rec'[u]][m] = 0
    <3>1. /\ u # t /\ pc[u] = "submit" /\ m \in method[u] /\ rec'[u] = rec[u]
          /\ m \in invoked[rec[u]] /\ submitted[rec[u]][m] = 0
      BY <2>5, <2>8 DEF SubmitInv
    <3>2. rec[u] \in Recorders /\ method[u] = {m} /\ m \in Methods
      BY <3>1 DEF ControlInv
    <3>3. rec[u] = rec[t] => m # x
      BY <2>1, <2>2, <3>1, <3>2 DEF SubmitInv
    <3>4. QED
      BY <2>1, <2>4, <3>1, <3>2, <3>3
  <2>9. QED
    BY <2>5, <2>6, <2>7, <2>8 DEF SubmitInv
<1>12. ASSUME UNCHANGED <<callVars, pc, locals>> PROVE SubmitInv' /\ SubmittedOnce'
  BY <1>12, SubmitKept DEF locals
<1>13. CASE Janitor \/ CloseAll \/ (\E j \in AllJournals : Expire(j)) \/ UNCHANGED vars
            \/ \E f \in Followers : LoadArray(f) \/ WriteHistory(f)
  BY <1>12, <1>13 DEF Janitor, CloseAll, CloseRecorders, Expire, LoadArray, WriteHistory, vars
<1>14. QED
  BY <1>5, <1>6, <1>7, <1>8, <1>9, <1>10, <1>11, <1>13 DEF Next

-----------------------------------------------------------------------------
LEMMA Inductive == Spec => []IInv
<1>1. Init => IInv
  <2> SUFFICES ASSUME Init PROVE IInv
    OBVIOUS
  <2>1. TypeInv
    BY InitType
  <2>2. /\ list = Earlier /\ Len(list) \in Nat /\ Len(list) <= capacity
        /\ \A f \in Followers : Len(base[f].items) = 0 /\ Len(out[f]) = 0
    <3>1. list = Earlier /\ Len(Earlier) \in Nat /\ capacity \in Grown(Len(Earlier))
      BY EarlierAssumption DEF Init
    <3>2. Len(list) <= capacity
      BY <3>1 DEF Grown
    <3>3. \A f \in Followers : Len(base[f].items) = 0 /\ Len(out[f]) = 0
      BY DEF Init, NoArray
    <3>4. QED
      BY <3>1, <3>2, <3>3
  <2>3. RegisteredOnce
    <3>1. \A j \in Journals :
            /\ stored[j] \in 0 .. Len(list)
            /\ IF stored[j] = 0 THEN j \notin Over ELSE list[stored[j]] = j
      BY <2>2 DEF Init
    <3>2. ASSUME NEW i \in 1 .. Len(list) PROVE stored[list[i]] = i
      <4>1. list[i] \in Journals /\ list[i] \in Over
        BY <2>2, <3>2, EarlierAssumption, SeqElement DEF Over
      <4>2. stored[list[i]] \in 1 .. Len(list) /\ list[stored[list[i]]] = list[i]
        BY <2>2, <3>1, <4>1
      <4>3. QED
        BY <2>2, <4>2, EarlierAssumption
    <3>3. ASSUME NEW j \in Journals, stored[j] # 0 PROVE stored[j] <= Len(list) /\ list[stored[j]] = j
      BY <2>2, <3>1, <3>3
    <3>4. QED
      BY <3>2, <3>3 DEF RegisteredOnce
  <2>4. FollowInv /\ FollowerInOrder
    BY <2>2 DEF FollowInv, FollowerInOrder
  <2>5. SubmitInv /\ SubmittedOnce
    BY DEF Init, SubmitInv, SubmittedOnce
  <2>6. QED
    BY <2>1, <2>3, <2>4, <2>5 DEF IInv
<1>2. IInv /\ [Next]_vars => IInv'
  BY TypeStep, RegisterStep, FollowStep, SubmitStep DEF IInv
<1>3. QED
  BY <1>1, <1>2, PTL DEF Spec

\* The journals' state always has its type.
THEOREM TypeCorrect == Spec => []TypeOK
<1>1. IInv => TypeOK
  BY DEF IInv, TypeInv
<1>2. QED
  BY <1>1, Inductive, PTL

\* However many requests record to a journal at once, addToHistory lists it once:
\* the look under the write lock decides, not the one under the read lock.
THEOREM RegisteredOnceCorrect == Spec => []RegisteredOnce
<1>1. IInv => RegisteredOnce
  BY DEF IInv
<1>2. QED
  BY <1>1, Inductive, PTL

\* However many requests invoke a method, submitMethodInvocation submits it once
\* for each recorder.
THEOREM SubmittedOnceCorrect == Spec => []SubmittedOnce
<1>1. IInv => SubmittedOnce
  BY DEF IInv
<1>2. QED
  BY <1>1, Inductive, PTL

\* A follower of the history is sent each journal once and in order although it
\* reads history without its lock, but for what it reads while append moves history
\* to a larger array: an append within the array does no harm.
THEOREM FollowerInOrderCorrect == Spec => []FollowerInOrder
<1>1. IInv => FollowerInOrder
  BY DEF IInv
<1>2. QED
  BY <1>1, Inductive, PTL

=============================================================================
