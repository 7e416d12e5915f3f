--------------------------- MODULE MemCacheProofs ---------------------------
(* Theorems about MemCache, for every number of calls, keys, locks and limits. *)
EXTENDS MemCache, FiniteSetTheorems, TLAPS

\* Removing entries leaves a map of entries.
LEMMA RemoveType ==
    ASSUME TypeOK, NEW K \in SUBSET Keys, Remove(K)
    PROVE  /\ items' \in [Keys -> [obj : Nat, exp : Nat]]
           /\ evicted' \subseteq Nat
<1>1. items' \in [Keys -> [obj : Nat, exp : Nat]]
  BY DEF TypeOK, Remove, Absent
<1>2. {items[k].obj : k \in {j \in K : items[j].obj # 0}} \subseteq Nat
  BY DEF TypeOK
<1>3. QED
  BY <1>1, <1>2 DEF TypeOK, Remove

\* The value set is one entry of the map.
LEMMA EntryType ==
    ASSUME TypeOK, NEW k \in Keys, NEW o \in Nat
    PROVE  Entry(k, o) \in [obj : Nat, exp : Nat]
BY TTLAssumption DEF TypeOK, Entry

LEMMA GetType ==
    ASSUME TypeOK, NEW k \in Keys
    PROVE  Get(k) \in Nat
BY DEF TypeOK, Get

\* A call that is inside GetOrUpdate has a key.
InGetOrUpdate == {"rlock", "lockKey", "lookup", "touch", "check", "wlock", "evict",
                  "relock", "begin", "generate", "unlock", "panic"}

KeyInv == \A c \in Calls : pc[c] \in InGetOrUpdate => key[c] \in Keys

TypeInv == TypeOK /\ KeyInv

\* Every step of every call, the janitor and the clock keep the types.
LEMMA TypeStep == TypeInv /\ [Next]_vars => TypeInv'
<1> SUFFICES ASSUME TypeInv, [Next]_vars PROVE TypeInv'
  OBVIOUS
<1> USE DEF TypeInv, KeyInv, InGetOrUpdate
<1>1. ASSUME NEW c \in Calls, NEW k \in Keys, GetOrUpdate(c, k) PROVE TypeInv'
  BY <1>1 DEF TypeOK, GetOrUpdate, Goto, Labels, muxVars, storeVars
<1>2. ASSUME NEW c \in Calls, NEW m \in Matchers, Delete(c, m) PROVE TypeInv'
  BY <1>2, MatchersAssumption DEF TypeOK, Delete, Goto, Labels, muxVars, storeVars
<1>3. ASSUME NEW c \in Calls, Flush(c) PROVE TypeInv'
  BY <1>3 DEF TypeOK, Flush, Goto, Labels, muxVars, storeVars, localVars
<1>4. ASSUME NEW c \in Calls, RLock(c) PROVE TypeInv'
  BY <1>4 DEF TypeOK, RLock, Goto, Labels, storeVars, localVars
<1>5. ASSUME NEW c \in Calls, LockKey(c) PROVE TypeInv'
  BY <1>5 DEF TypeOK, LockKey, Goto, Labels, muxVars, storeVars, localVars
<1>6. ASSUME NEW c \in Calls, Lookup(c) PROVE TypeInv'
  BY <1>6, GetType DEF TypeOK, Lookup, Goto, Labels, muxVars, storeVars
<1>7. ASSUME NEW c \in Calls, Touch(c) PROVE TypeInv'
  <2>1. Entry(key[c], obj[c]) \in [obj : Nat, exp : Nat]
    BY <1>7, EntryType DEF TypeOK, Touch
  <2>2. QED
    BY <1>7, <2>1 DEF TypeOK, Touch, Goto, Labels, muxVars, localVars
<1>8. ASSUME NEW c \in Calls, CheckLimit(c) PROVE TypeInv'
  BY <1>8 DEF TypeOK, CheckLimit, Goto, Labels, storeVars, localVars
<1>9. ASSUME NEW c \in Calls, WLock(c) PROVE TypeInv'
  BY <1>9 DEF TypeOK, WLock, AfterAnnounce, Announce, Goto, Labels, storeVars, localVars
<1>10. ASSUME NEW c \in Calls, DeleteClosestToExpiration(c) PROVE TypeInv'
  <2>1. PICK k \in Keys : Remove({k})
    BY <1>10 DEF DeleteClosestToExpiration, Candidates
  <2>2. items' \in [Keys -> [obj : Nat, exp : Nat]] /\ evicted' \subseteq Nat
    BY <2>1, RemoveType
  <2>3. QED
    BY <1>10, <2>2 DEF TypeOK, DeleteClosestToExpiration, Unlock, Goto, Labels, localVars
<1>11. ASSUME NEW c \in Calls, PanicNoCandidate(c) PROVE TypeInv'
  BY <1>11 DEF TypeOK, PanicNoCandidate, Goto, Labels, muxVars, storeVars, localVars
<1>12. ASSUME NEW c \in Calls, BeginGenerate(c) PROVE TypeInv'
  BY <1>12 DEF TypeOK, BeginGenerate, Goto, Labels, muxVars, storeVars
<1>13. ASSUME NEW c \in Calls, EndGenerate(c) PROVE TypeInv'
  <2>1. Entry(key[c], obj[c]) \in [obj : Nat, exp : Nat]
    BY <1>13, EntryType DEF TypeOK, EndGenerate
  <2>2. QED
    BY <1>13, <2>1 DEF TypeOK, EndGenerate, Goto, Labels, muxVars, localVars
<1>14. ASSUME NEW c \in Calls, Return(c) PROVE TypeInv'
  BY <1>14 DEF TypeOK, Return, Goto, Labels, storeVars
<1>15. ASSUME NEW c \in Calls, DeleteMatches(c) PROVE TypeInv'
  <2>1. items' \in [Keys -> [obj : Nat, exp : Nat]] /\ evicted' \subseteq Nat
    BY <1>15, RemoveType DEF TypeOK, DeleteMatches, LiveKeys
  <2>2. QED
    BY <1>15, <2>1 DEF TypeOK, DeleteMatches, Unlock, Goto, Labels
<1>16. ASSUME NEW c \in Calls, FlushLive(c) PROVE TypeInv'
  <2>1. items' \in [Keys -> [obj : Nat, exp : Nat]] /\ evicted' \subseteq Nat
    BY <1>16, RemoveType DEF TypeOK, FlushLive, LiveKeys
  <2>2. QED
    BY <1>16, <2>1 DEF TypeOK, FlushLive, Goto, Labels, muxVars, localVars
<1>17. ASSUME NEW c \in Calls, FlushExpired(c) PROVE TypeInv'
  <2>1. items' \in [Keys -> [obj : Nat, exp : Nat]] /\ evicted' \subseteq Nat
    BY <1>17, RemoveType DEF TypeOK, FlushExpired, ExpiredKeys
  <2>2. QED
    BY <1>17, <2>1 DEF TypeOK, FlushExpired, Goto, Labels, muxVars, localVars
<1>18. ASSUME NEW c \in Calls, FlushRest(c) PROVE TypeInv'
  BY <1>18 DEF TypeOK, FlushRest, Absent, Unlock, Goto, Labels, localVars
<1>19. CASE Janitor
  <2>1. items' \in [Keys -> [obj : Nat, exp : Nat]] /\ evicted' \subseteq Nat
    BY <1>19, RemoveType DEF Janitor, ExpiredKeys
  <2>2. QED
    BY <1>19, <2>1 DEF TypeOK, Janitor, muxVars, localVars
<1>20. CASE Tick
  BY <1>20 DEF TypeOK, Tick, muxVars, localVars
<1>21. CASE UNCHANGED vars
  BY <1>21 DEF TypeOK, vars, muxVars, storeVars, localVars
<1>22. QED
  BY <1>1, <1>2, <1>3, <1>4, <1>5, <1>6, <1>7, <1>8, <1>9, <1>10, <1>11, <1>12,
     <1>13, <1>14, <1>15, <1>16, <1>17, <1>18, <1>19, <1>20, <1>21
     DEF Next, Enter, Step

\* The variables keep their types in every reachable state.
THEOREM TypeCorrect == Spec => []TypeOK
<1>1. Init => TypeInv
  BY DEF Init, TypeInv, TypeOK, KeyInv, InGetOrUpdate, Absent, Labels
<1>2. QED
  BY <1>1, TypeStep, PTL DEF Spec, TypeInv

-----------------------------------------------------------------------------
(* MemCache.mux: who reads, who waits to read, who writes *)

WriterLabels == {"evict", "panic", "delete", "flushLive", "flushExpired", "flushRest"}

\* A call at one of these holds mux for reading, or waits for it at the first two.
ReaderLabels == {"lockKey", "begin", "lookup", "touch", "check", "generate", "unlock"}

MuxInv ==
    /\ \A c \in Calls : pc[c] \in WriterLabels <=> writer = c
    /\ \A c \in Calls : pc[c] \in {"flushExpired", "flushRest", "panic"} => readers = {}
    /\ \A c \in Calls : c \in readers \cup blocked <=> pc[c] \in ReaderLabels
    /\ \A c \in Calls : c \in blocked => pc[c] \in {"lockKey", "begin"} /\ c \notin readers
    /\ blocked # {} => writer # None

LEMMA MuxStep == TypeInv /\ MuxInv /\ [Next]_vars => MuxInv'
<1> SUFFICES ASSUME TypeOK, MuxInv, [Next]_vars PROVE MuxInv'
  BY DEF TypeInv
<1> USE CallsAssumption DEF TypeOK, MuxInv, WriterLabels, ReaderLabels
<1>1. ASSUME NEW c \in Calls, NEW k \in Keys, GetOrUpdate(c, k) PROVE MuxInv'
  BY <1>1 DEF GetOrUpdate, Goto, muxVars
<1>2. ASSUME NEW c \in Calls, NEW m \in Matchers, Delete(c, m) PROVE MuxInv'
  BY <1>2 DEF Delete, Goto, muxVars
<1>3. ASSUME NEW c \in Calls, Flush(c) PROVE MuxInv'
  BY <1>3 DEF Flush, Goto, muxVars
<1>4. ASSUME NEW c \in Calls, RLock(c) PROVE MuxInv'
  BY <1>4 DEF RLock, Goto, muxVars
<1>5. ASSUME NEW c \in Calls, LockKey(c) PROVE MuxInv'
  BY <1>5 DEF LockKey, Goto, muxVars
<1>6. ASSUME NEW c \in Calls, Lookup(c) PROVE MuxInv'
  BY <1>6 DEF Lookup, Goto, muxVars
<1>7. ASSUME NEW c \in Calls, Touch(c) PROVE MuxInv'
  BY <1>7 DEF Touch, Goto, muxVars
<1>8. ASSUME NEW c \in Calls, CheckLimit(c) PROVE MuxInv'
  BY <1>8 DEF CheckLimit, Goto, muxVars
<1>9. ASSUME NEW c \in Calls, WLock(c) PROVE MuxInv'
  BY <1>9 DEF WLock, Goto, muxVars, Announce, AfterAnnounce
<1>10. ASSUME NEW c \in Calls, DeleteClosestToExpiration(c) PROVE MuxInv'
  BY <1>10 DEF DeleteClosestToExpiration, Goto, muxVars, Unlock, HoldsLock
<1>11. ASSUME NEW c \in Calls, PanicNoCandidate(c) PROVE MuxInv'
  BY <1>11 DEF PanicNoCandidate, Goto, muxVars, HoldsLock
<1>12. ASSUME NEW c \in Calls, BeginGenerate(c) PROVE MuxInv'
  BY <1>12 DEF BeginGenerate, Goto, muxVars
<1>13. ASSUME NEW c \in Calls, EndGenerate(c) PROVE MuxInv'
  BY <1>13 DEF EndGenerate, Goto, muxVars
<1>14. ASSUME NEW c \in Calls, Return(c) PROVE MuxInv'
  BY <1>14 DEF Return, Goto, muxVars
<1>15. ASSUME NEW c \in Calls, DeleteMatches(c) PROVE MuxInv'
  BY <1>15 DEF DeleteMatches, Goto, muxVars, Unlock, HoldsLock
<1>16. ASSUME NEW c \in Calls, FlushLive(c) PROVE MuxInv'
  BY <1>16 DEF FlushLive, Goto, muxVars, HoldsLock
<1>17. ASSUME NEW c \in Calls, FlushExpired(c) PROVE MuxInv'
  BY <1>17 DEF FlushExpired, Goto, muxVars
<1>18. ASSUME NEW c \in Calls, FlushRest(c) PROVE MuxInv'
  BY <1>18 DEF FlushRest, Goto, muxVars, Unlock, HoldsLock
<1>19. CASE Janitor
  BY <1>19 DEF Janitor, Goto, muxVars
<1>20. CASE Tick
  BY <1>20 DEF Tick, Goto, muxVars
<1>21. CASE UNCHANGED vars
  BY <1>21 DEF vars, Goto, muxVars
<1>22. QED
  BY <1>1, <1>2, <1>3, <1>4, <1>5, <1>6, <1>7, <1>8, <1>9, <1>10, <1>11, <1>12,
     <1>13, <1>14, <1>15, <1>16, <1>17, <1>18, <1>19, <1>20, <1>21
     DEF Next, Enter, Step

LEMMA MuxCorrect == Spec => [](TypeInv /\ MuxInv)
<1>1. Init => TypeInv /\ MuxInv
  BY CallsAssumption
     DEF Init, TypeInv, TypeOK, KeyInv, InGetOrUpdate, Absent, Labels,
         MuxInv, WriterLabels, ReaderLabels
<1>2. QED
  BY <1>1, TypeStep, MuxStep, PTL DEF Spec

-----------------------------------------------------------------------------
(* The key locks *)

\* A call at one of these holds the lock of its key.
KeyLabels == {"lookup", "touch", "check", "wlock", "evict", "relock", "begin",
              "generate", "unlock", "panic"}

KeyLockInv ==
    /\ \A c \in Calls : pc[c] \in KeyLabels => keyLock[LockOf[key[c]]] = c
    /\ \A l \in Locks, c \in Calls :
          keyLock[l] = c => pc[c] \in KeyLabels /\ LockOf[key[c]] = l

LEMMA KeyLockStep == TypeInv /\ KeyLockInv /\ [Next]_vars => KeyLockInv'
<1> SUFFICES ASSUME TypeOK, KeyInv, KeyLockInv, [Next]_vars PROVE KeyLockInv'
  BY DEF TypeInv
<1> USE CallsAssumption, LockOfAssumption DEF TypeOK, KeyInv, InGetOrUpdate, KeyLockInv, KeyLabels
<1>1. ASSUME NEW c \in Calls, NEW k \in Keys, GetOrUpdate(c, k) PROVE KeyLockInv'
  BY <1>1 DEF GetOrUpdate, Goto, localVars
<1>2. ASSUME NEW c \in Calls, NEW m \in Matchers, Delete(c, m) PROVE KeyLockInv'
  BY <1>2 DEF Delete, Goto, localVars
<1>3. ASSUME NEW c \in Calls, Flush(c) PROVE KeyLockInv'
  BY <1>3 DEF Flush, Goto, localVars
<1>4. ASSUME NEW c \in Calls, RLock(c) PROVE KeyLockInv'
  BY <1>4 DEF RLock, Goto, localVars
<1>5. ASSUME NEW c \in Calls, LockKey(c) PROVE KeyLockInv'
  BY <1>5 DEF LockKey, Goto, localVars
<1>6. ASSUME NEW c \in Calls, Lookup(c) PROVE KeyLockInv'
  BY <1>6 DEF Lookup, Goto, localVars
<1>7. ASSUME NEW c \in Calls, Touch(c) PROVE KeyLockInv'
  BY <1>7 DEF Touch, Goto, localVars
<1>8. ASSUME NEW c \in Calls, CheckLimit(c) PROVE KeyLockInv'
  BY <1>8 DEF CheckLimit, Goto, localVars
<1>9. ASSUME NEW c \in Calls, WLock(c) PROVE KeyLockInv'
  BY <1>9 DEF WLock, Goto, localVars, AfterAnnounce
<1>10. ASSUME NEW c \in Calls, DeleteClosestToExpiration(c) PROVE KeyLockInv'
  BY <1>10 DEF DeleteClosestToExpiration, Goto, localVars
<1>11. ASSUME NEW c \in Calls, PanicNoCandidate(c) PROVE KeyLockInv'
  BY <1>11 DEF PanicNoCandidate, Goto, localVars
<1>12. ASSUME NEW c \in Calls, BeginGenerate(c) PROVE KeyLockInv'
  BY <1>12 DEF BeginGenerate, Goto, localVars
<1>13. ASSUME NEW c \in Calls, EndGenerate(c) PROVE KeyLockInv'
  BY <1>13 DEF EndGenerate, Goto, localVars
<1>14. ASSUME NEW c \in Calls, Return(c) PROVE KeyLockInv'
  BY <1>14 DEF Return, Goto, localVars
<1>15. ASSUME NEW c \in Calls, DeleteMatches(c) PROVE KeyLockInv'
  BY <1>15 DEF DeleteMatches, Goto, localVars
<1>16. ASSUME NEW c \in Calls, FlushLive(c) PROVE KeyLockInv'
  BY <1>16 DEF FlushLive, Goto, localVars
<1>17. ASSUME NEW c \in Calls, FlushExpired(c) PROVE KeyLockInv'
  BY <1>17 DEF FlushExpired, Goto, localVars
<1>18. ASSUME NEW c \in Calls, FlushRest(c) PROVE KeyLockInv'
  BY <1>18 DEF FlushRest, Goto, localVars
<1>19. CASE Janitor
  BY <1>19 DEF Janitor, Goto, localVars
<1>20. CASE Tick
  BY <1>20 DEF Tick, Goto, localVars
<1>21. CASE UNCHANGED vars
  BY <1>21 DEF vars, Goto, localVars
<1>22. QED
  BY <1>1, <1>2, <1>3, <1>4, <1>5, <1>6, <1>7, <1>8, <1>9, <1>10, <1>11, <1>12,
     <1>13, <1>14, <1>15, <1>16, <1>17, <1>18, <1>19, <1>20, <1>21
     DEF Next, Enter, Step

\* Two calls never use one key, nor two keys that share a lock, at a time.
LEMMA KeyLockCorrect == Spec => [](TypeInv /\ MuxInv /\ KeyLockInv)
<1>1. Init => KeyLockInv
  BY CallsAssumption, LockOfAssumption DEF Init, KeyLockInv, KeyLabels
<1>2. QED
  BY <1>1, MuxCorrect, KeyLockStep, PTL DEF Spec

\* Two calls that hold a key lock work on different keys.
LEMMA OneCallPerKey ==
    ASSUME KeyLockInv, NEW c \in Calls, NEW d \in Calls,
           pc[c] \in KeyLabels, pc[d] \in KeyLabels, key[c] = key[d]
    PROVE  c = d
BY DEF KeyLockInv

-----------------------------------------------------------------------------
(* The values *)

\* An entry that is live after entries were removed was there, and live, before.
LEMMA RemoveLive ==
    ASSUME TypeOK, NEW K \in SUBSET Keys, Remove(K), now' = now, NEW k \in Keys, Live(k)'
    PROVE  Live(k) /\ items'[k] = items[k] /\ k \notin K
BY DEF TypeOK, Remove, Absent, Live

\* No object appears by removing entries.
LEMMA RemoveObj ==
    ASSUME TypeOK, NEW K \in SUBSET Keys, Remove(K), NEW k \in Keys
    PROVE  items'[k].obj \in {0, items[k].obj}
BY DEF TypeOK, Remove, Absent

\* The Set that resets a ttl writes back the value that is there.
TouchInv ==
    \A c \in Calls :
        pc[c] = "touch" /\ Live(key[c]) => items[key[c]].obj = obj[c]

ValueInv ==
    /\ \A k \in Keys : floor[k] <= nextGen /\ items[k].obj < nextGen
    /\ \A c \in Calls : obj[c] < nextGen
    /\ \A k \in Keys : Live(k) => items[k].obj >= floor[k]
    /\ \A c \in Calls :
          pc[c] \in {"touch", "generate", "unlock"}
              => obj[c] # 0 /\ obj[c] >= floor[key[c]]
    /\ NoRedundantGenerate
    /\ TouchInv

IInv == TypeInv /\ MuxInv /\ KeyLockInv /\ ValueInv

\* Storing the value a call holds under its key, in Touch and in EndGenerate.
LEMMA StoreStep ==
    ASSUME IInv, NEW c \in Calls, pc[c] \in {"touch", "generate"},
           items' = [items EXCEPT ![key[c]] = Entry(key[c], obj[c])],
           Goto(c, "unlock"),
           UNCHANGED <<muxVars, keyLock, now, evicted, nextGen, localVars, floor>>
    PROVE  ValueInv'
<1> USE DEF IInv, TypeInv
<1>1. key[c] \in Keys
  BY DEF KeyInv, InGetOrUpdate
<1>2. items'[key[c]].obj = obj[c]
  BY <1>1 DEF TypeOK, Entry
<1>3. \A k \in Keys : k # key[c] => items'[k] = items[k] /\ (Live(k)' <=> Live(k))
  BY <1>1 DEF TypeOK, Live
<1>4. \A k \in Keys : floor'[k] <= nextGen' /\ items'[k].obj < nextGen'
  BY <1>1, <1>2, <1>3 DEF ValueInv, localVars
<1>5. \A k \in Keys : Live(k)' => items'[k].obj >= floor'[k]
  BY <1>1, <1>2, <1>3 DEF ValueInv
<1>6. \A d \in Calls :
          pc'[d] \in {"touch", "generate", "unlock"}
              => obj'[d] # 0 /\ obj'[d] >= floor'[key'[d]]
  BY DEF ValueInv, TypeOK, Goto, localVars
<1>7. \A d \in Calls : pc'[d] \in KeyLabels /\ d # c => key[d] \in Keys /\ key[d] # key[c]
  BY OneCallPerKey DEF TypeOK, KeyInv, InGetOrUpdate, KeyLabels, Goto
<1>8. NoRedundantGenerate'
  BY <1>3, <1>7 DEF ValueInv, NoRedundantGenerate, TypeOK, Goto, KeyLabels, localVars
<1>9. TouchInv'
  BY <1>3, <1>7 DEF ValueInv, TouchInv, TypeOK, Goto, KeyLabels, localVars
<1>10. \A d \in Calls : obj'[d] < nextGen'
  BY DEF ValueInv, localVars
<1>11. QED
  BY <1>4, <1>5, <1>6, <1>8, <1>9, <1>10 DEF ValueInv

\* Removing entries disturbs nothing, as long as the calls that use a value stay
\* where they are or there are none.
LEMMA RemoveStep ==
    ASSUME IInv, NEW K \in SUBSET Keys, Remove(K), UNCHANGED <<now, nextGen, key, obj, floor>>,
           \A c \in Calls : pc'[c] # pc[c]
               => (pc[c] = "evict" /\ pc'[c] = "relock") \/ pc'[c] \in {"flushExpired", "flushRest"}
    PROVE  ValueInv'
<1> USE DEF IInv, TypeInv
<1>1. \A k \in Keys : Live(k)' => Live(k) /\ items'[k] = items[k]
  BY RemoveLive
<1>2. \A k \in Keys : items'[k].obj < nextGen'
  BY RemoveObj DEF ValueInv, TypeOK
<1>3. \A k \in Keys : Live(k)' => items'[k].obj >= floor'[k]
  BY <1>1 DEF ValueInv
<1>4. \A c \in Calls : pc[c] \in KeyLabels => key[c] \in Keys
  BY DEF KeyInv, KeyLabels, InGetOrUpdate
<1>5. NoRedundantGenerate'
  BY <1>1, <1>4 DEF ValueInv, NoRedundantGenerate, KeyLabels
<1>6. TouchInv'
  BY <1>1, <1>4 DEF ValueInv, TouchInv, KeyLabels
<1>7. QED
  BY <1>2, <1>3, <1>5, <1>6 DEF ValueInv

\* Every step preserves what is known of the values.
LEMMA ValueStep == IInv /\ [Next]_vars => ValueInv'
<1> SUFFICES ASSUME IInv, [Next]_vars PROVE ValueInv'
  OBVIOUS
<1> USE DEF IInv, TypeInv
<1>0. ASSUME NEW c \in Calls, UNCHANGED <<items, now, nextGen, obj, floor>>,
             \A d \in Calls \ {c} : pc'[d] = pc[d] /\ key'[d] = key[d],
             pc'[c] \notin {"touch", "generate", "unlock"},
             \/ pc'[c] \notin {"check", "wlock", "evict", "relock", "begin"}
             \/ /\ pc[c] \in {"check", "wlock", "evict", "relock"}
                /\ key'[c] = key[c]
      PROVE  ValueInv'
  BY <1>0 DEF ValueInv, TouchInv, NoRedundantGenerate, Live
<1>1. ASSUME NEW c \in Calls, NEW k \in Keys, GetOrUpdate(c, k) PROVE ValueInv'
  BY <1>0, <1>1 DEF GetOrUpdate, Goto, TypeOK, storeVars
<1>2. ASSUME NEW c \in Calls, NEW m \in Matchers, Delete(c, m) PROVE ValueInv'
  BY <1>0, <1>2 DEF Delete, Goto, TypeOK, storeVars
<1>3. ASSUME NEW c \in Calls, Flush(c) PROVE ValueInv'
  BY <1>0, <1>3 DEF Flush, Goto, TypeOK, storeVars, localVars
<1>4. ASSUME NEW c \in Calls, RLock(c) PROVE ValueInv'
  BY <1>0, <1>4 DEF RLock, Goto, TypeOK, storeVars, localVars
<1>5. ASSUME NEW c \in Calls, LockKey(c) PROVE ValueInv'
  BY <1>0, <1>5 DEF LockKey, Goto, TypeOK, storeVars, localVars
<1>6. ASSUME NEW c \in Calls, Lookup(c) PROVE ValueInv'
  <2>1. key[c] \in Keys
    BY <1>6 DEF Lookup, KeyInv, InGetOrUpdate
  <2>2. Get(key[c]) # 0 => Live(key[c]) /\ Get(key[c]) = items[key[c]].obj
    BY DEF Get
  <2>3. Get(key[c]) = 0 => ~Live(key[c])
    BY <2>1 DEF Get, Live
  <2>4. \A k \in Keys : Live(k)' <=> Live(k)
    BY <1>6 DEF Lookup, Live, storeVars
  <2>5. \A d \in Calls :
            pc'[d] \in {"touch", "generate", "unlock"}
                => obj'[d] # 0 /\ obj'[d] >= floor'[key'[d]]
    BY <1>6, <2>1, <2>2 DEF ValueInv, Lookup, Goto, TypeOK
  <2>6. NoRedundantGenerate'
    BY <1>6, <2>1, <2>3, <2>4
       DEF ValueInv, NoRedundantGenerate, Lookup, Goto, TypeOK, KeyInv, InGetOrUpdate
  <2>7. TouchInv'
    BY <1>6, <2>1, <2>2, <2>4
       DEF ValueInv, TouchInv, Lookup, Goto, TypeOK, KeyInv, InGetOrUpdate, storeVars
  <2>8. \A d \in Calls : obj'[d] < nextGen'
    BY <1>6, <2>1, <2>2 DEF ValueInv, Lookup, TypeOK
  <2>9. QED
    BY <1>6, <2>4, <2>5, <2>6, <2>7, <2>8 DEF ValueInv, Lookup, storeVars
<1>7. ASSUME NEW c \in Calls, Touch(c) PROVE ValueInv'
  BY <1>7, StoreStep DEF Touch
<1>8. ASSUME NEW c \in Calls, CheckLimit(c) PROVE ValueInv'
  BY <1>0, <1>8 DEF CheckLimit, Goto, TypeOK, storeVars, localVars
<1>9. ASSUME NEW c \in Calls, WLock(c) PROVE ValueInv'
  BY <1>0, <1>9 DEF WLock, AfterAnnounce, Goto, TypeOK, storeVars, localVars
<1>10. ASSUME NEW c \in Calls, DeleteClosestToExpiration(c) PROVE ValueInv'
  <2>1. PICK k \in Keys : Remove({k})
    BY <1>10 DEF DeleteClosestToExpiration, Candidates
  <2>2. {k} \in SUBSET Keys
    OBVIOUS
  <2>3. QED
    BY <1>10, <2>1, <2>2, RemoveStep DEF DeleteClosestToExpiration, Goto, TypeOK, localVars
<1>11. ASSUME NEW c \in Calls, PanicNoCandidate(c) PROVE ValueInv'
  BY <1>0, <1>11 DEF PanicNoCandidate, Goto, TypeOK, storeVars, localVars
<1>12. ASSUME NEW c \in Calls, BeginGenerate(c) PROVE ValueInv'
  <2>1. key[c] \in Keys
    BY <1>12 DEF BeginGenerate, KeyInv, InGetOrUpdate
  <2>2. \A k : Live(k)' <=> Live(k)
    BY <1>12 DEF BeginGenerate, Live, storeVars
  <2>3. \A d \in Calls :
            pc'[d] \in {"touch", "generate", "unlock"}
                => obj'[d] # 0 /\ obj'[d] >= floor'[key'[d]]
    BY <1>12, <2>1 DEF ValueInv, BeginGenerate, Goto, TypeOK
  <2>4. NoRedundantGenerate'
    BY <1>12, <2>2 DEF ValueInv, NoRedundantGenerate, BeginGenerate, Goto, TypeOK
  <2>5. TouchInv'
    BY <1>12, <2>2 DEF ValueInv, TouchInv, BeginGenerate, Goto, TypeOK, storeVars
  <2>6. \A d \in Calls : obj'[d] < nextGen'
    BY <1>12 DEF ValueInv, BeginGenerate, TypeOK
  <2>7. \A k \in Keys : floor'[k] <= nextGen' /\ items'[k].obj < nextGen'
    BY <1>12 DEF ValueInv, BeginGenerate, TypeOK, storeVars
  <2>8. \A k \in Keys : Live(k)' => items'[k].obj >= floor'[k]
    BY <1>12, <2>2 DEF ValueInv, BeginGenerate, storeVars
  <2>9. QED
    BY <2>3, <2>4, <2>5, <2>6, <2>7, <2>8 DEF ValueInv
<1>13. ASSUME NEW c \in Calls, EndGenerate(c) PROVE ValueInv'
  BY <1>13, StoreStep DEF EndGenerate
<1>14. ASSUME NEW c \in Calls, Return(c) PROVE ValueInv'
  BY <1>14 DEF ValueInv, TouchInv, NoRedundantGenerate, Live, Return, Goto, TypeOK, storeVars
\* No call uses a value while the write lock is held: that is why a Delete can
\* raise the floor of the keys it matches.
<1>a. ASSUME readers = {} PROVE \A d \in Calls : pc[d] \notin {"touch", "generate", "unlock"}
  BY <1>a DEF MuxInv, ReaderLabels
<1>15. ASSUME NEW c \in Calls, DeleteMatches(c) PROVE ValueInv'
  <2>1. \A d \in Calls : pc'[d] \notin {"touch", "generate", "unlock"}
    BY <1>15, <1>a DEF DeleteMatches, HoldsLock, Goto, TypeOK
  <2>0. match[c] \cap LiveKeys \in SUBSET Keys /\ Remove(match[c] \cap LiveKeys)
    BY <1>15 DEF DeleteMatches, TypeOK
  <2>2. \A k \in Keys : Live(k)' => Live(k) /\ items'[k] = items[k] /\ k \notin match[c] \cap LiveKeys
    BY <1>15, <2>0, RemoveLive DEF DeleteMatches
  <2>3. \A k \in Keys : Live(k)' => items'[k].obj >= floor'[k]
    BY <1>15, <2>2 DEF ValueInv, DeleteMatches, LiveKeys
  <2>4. \A k \in Keys : items'[k].obj < nextGen'
    <3>1. \A k \in Keys : items'[k].obj \in {0, items[k].obj}
      BY <2>0, RemoveObj
    <3>2. QED
      BY <1>15, <3>1 DEF ValueInv, DeleteMatches, TypeOK
  <2>5. \A k \in Keys : floor'[k] <= nextGen'
    BY <1>15 DEF ValueInv, DeleteMatches, TypeOK
  <2>6. NoRedundantGenerate'
    BY <1>15, <2>2
       DEF ValueInv, NoRedundantGenerate, DeleteMatches, Goto, TypeOK, KeyInv, InGetOrUpdate
  <2>7. QED
    BY <1>15, <2>1, <2>3, <2>4, <2>5, <2>6 DEF ValueInv, TouchInv, DeleteMatches
<1>16. ASSUME NEW c \in Calls, FlushLive(c) PROVE ValueInv'
  <2>1. CASE HasEviction
    <3>1. LiveKeys \in SUBSET Keys /\ Remove(LiveKeys)
      BY <1>16, <2>1 DEF FlushLive, LiveKeys
    <3>2. QED
      BY <1>16, <3>1, RemoveStep DEF FlushLive, Goto, TypeOK, localVars
  <2>2. CASE ~HasEviction
    BY <1>0, <1>16, <2>2 DEF FlushLive, Goto, TypeOK, localVars
  <2>3. QED
    BY <2>1, <2>2
<1>17. ASSUME NEW c \in Calls, FlushExpired(c) PROVE ValueInv'
  <2>1. CASE HasEviction
    <3>1. ExpiredKeys \in SUBSET Keys /\ Remove(ExpiredKeys)
      BY <1>17, <2>1 DEF FlushExpired, ExpiredKeys
    <3>2. QED
      BY <1>17, <3>1, RemoveStep DEF FlushExpired, Goto, TypeOK, localVars
  <2>2. CASE ~HasEviction
    BY <1>0, <1>17, <2>2 DEF FlushExpired, Goto, TypeOK, localVars
  <2>3. QED
    BY <2>1, <2>2
<1>18. ASSUME NEW c \in Calls, FlushRest(c) PROVE ValueInv'
  <2>1. \A d \in Calls : pc'[d] \notin {"touch", "generate", "unlock"}
    BY <1>18, <1>a DEF FlushRest, MuxInv, Goto, TypeOK
  <2>2. \A k \in Keys : ~Live(k)' /\ items'[k].obj = 0
    BY <1>18 DEF FlushRest, Absent, Live
  <2>3. NoRedundantGenerate'
    BY <1>18, <2>2
       DEF NoRedundantGenerate, FlushRest, Goto, TypeOK, KeyInv, InGetOrUpdate, localVars
  <2>4. QED
    BY <1>18, <2>1, <2>2, <2>3 DEF ValueInv, TouchInv, FlushRest, TypeOK, localVars
<1>19. CASE Janitor
  <2>1. ExpiredKeys \in SUBSET Keys /\ Remove(ExpiredKeys)
    BY <1>19 DEF Janitor, ExpiredKeys
  <2>2. QED
    BY <1>19, <2>1, RemoveStep DEF Janitor, localVars
<1>20. CASE Tick
  <2>1. \A k \in Keys : Live(k)' => Live(k)
    BY <1>20 DEF Tick, Live, TypeOK
  <2>2. NoRedundantGenerate'
    BY <1>20, <2>1 DEF ValueInv, NoRedundantGenerate, Tick, KeyInv, InGetOrUpdate, localVars
  <2>3. TouchInv'
    BY <1>20, <2>1 DEF ValueInv, TouchInv, Tick, KeyInv, InGetOrUpdate, localVars
  <2>4. QED
    BY <1>20, <2>1, <2>2, <2>3 DEF ValueInv, Tick, localVars
<1>21. CASE UNCHANGED vars
  BY <1>21 DEF ValueInv, TouchInv, NoRedundantGenerate, Live, vars, storeVars, localVars
<1>22. QED
  BY <1>1, <1>2, <1>3, <1>4, <1>5, <1>6, <1>7, <1>8, <1>9, <1>10, <1>11, <1>12,
     <1>13, <1>14, <1>15, <1>16, <1>17, <1>18, <1>19, <1>20, <1>21
     DEF Next, Enter, Step

\* The inductive invariant.
LEMMA Inductive == Spec => []IInv
<1>1. Init => ValueInv
  BY DEF Init, ValueInv, TouchInv, NoRedundantGenerate, Live, Absent
<1>2. QED
  BY <1>1, KeyLockCorrect, ValueStep, PTL DEF Spec, IInv

\* Delete and Flush are never undone by a generation that was in progress.
THEOREM NoStaleValueCorrect == Spec => []NoStaleValue
<1>1. IInv => NoStaleValue
  BY DEF IInv, ValueInv, NoStaleValue
<1>2. QED
  BY <1>1, Inductive, PTL

\* GetOrUpdate is a single transaction per key.
THEOREM NoRedundantGenerateCorrect == Spec => []NoRedundantGenerate
<1>1. IInv => NoRedundantGenerate
  BY DEF IInv, ValueInv
<1>2. QED
  BY <1>1, Inductive, PTL

-----------------------------------------------------------------------------
(* MemCache implements CacheContract *)

\* What a reader sees of an entry that is stored is the value stored.
LEMMA EntryVisible ==
    ASSUME TypeOK, NEW k \in Keys, NEW o \in Nat, o # 0, now' = now,
           items' = [items EXCEPT ![k] = Entry(k, o)]
    PROVE  View' = [View EXCEPT ![k] = o]
<1>1. items'[k] = Entry(k, o) /\ \A j \in Keys : j # k => items'[j] = items[j]
  BY DEF TypeOK
<1>2. Live(k)'
  <2>1. TTL[k] \in Int /\ now \in Nat
    BY TTLAssumption DEF TypeOK
  <2>2. items'[k].obj # 0 /\ (items'[k].exp = 0 \/ now' <= items'[k].exp)
    BY <1>1, <2>1 DEF Entry
  <2>3. QED
    BY <2>2 DEF Live
<1>3. Get(k)' = o
  BY <1>1, <1>2 DEF Get, Entry
<1>4. \A j \in Keys : j # k => Get(j)' = Get(j)
  BY <1>1 DEF Get, Live
<1>5. QED
  BY <1>3, <1>4 DEF View

\* A step that only removes entries, or lets time pass, forgets entries.
LEMMA ForgetStep ==
    ASSUME TypeOK, UNCHANGED <<nextGen, floor>>,
           \A k \in Keys : Live(k)' => Live(k) /\ items'[k] = items[k]
    PROVE  Contract!Forget({k \in Keys : View'[k] = 0})
<1>1. \A k \in Keys : View'[k] # 0 => View'[k] = View[k]
  BY DEF View, Get
<1>2. View' = [k \in Keys |-> IF View'[k] = 0 THEN 0 ELSE View[k]]
  BY <1>1 DEF View
<1>3. QED
  BY <1>2 DEF Contract!Forget

\* A step that leaves the entries, the numbers and the floors alone.
LEMMA StutterStep ==
    ASSUME UNCHANGED <<items, now, nextGen, floor>>
    PROVE  UNCHANGED Contract!cvars
BY DEF Contract!cvars, View, Get, Live

\* The value of Touch or EndGenerate becomes visible, or was.
LEMMA PublishStep ==
    ASSUME IInv, NEW c \in Calls, pc[c] \in {"touch", "generate"},
           items' = [items EXCEPT ![key[c]] = Entry(key[c], obj[c])],
           UNCHANGED <<now, nextGen, floor>>
    PROVE  Contract!Publish(key[c]) \/ UNCHANGED Contract!cvars
<1>1. key[c] \in Keys /\ obj[c] \in Nat /\ obj[c] # 0 /\ TypeOK
  BY DEF IInv, TypeInv, TypeOK, KeyInv, InGetOrUpdate, ValueInv
<1>2. View' = [View EXCEPT ![key[c]] = obj[c]]
  BY <1>1, EntryVisible
<1>3. View[key[c]] \in {0, obj[c]}
  <2>1. Live(key[c]) => items[key[c]].obj = obj[c]
    BY DEF IInv, ValueInv, TouchInv, NoRedundantGenerate
  <2>2. View[key[c]] = Get(key[c])
    BY <1>1 DEF View
  <2>3. QED
    BY <2>1, <2>2 DEF Get
<1>4. obj[c] \in 1 .. (nextGen - 1) /\ obj[c] >= floor[key[c]]
  BY <1>1 DEF IInv, ValueInv, TypeOK
<1>5. CASE View[key[c]] = 0
  BY <1>1, <1>2, <1>4, <1>5 DEF Contract!Publish
<1>6. CASE View[key[c]] = obj[c]
  BY <1>1, <1>2, <1>6 DEF Contract!cvars, View
<1>7. QED
  BY <1>3, <1>5, <1>6

LEMMA ContractStep == IInv /\ [Next]_vars => [Contract!Next]_Contract!cvars
<1> SUFFICES ASSUME IInv, [Next]_vars PROVE [Contract!Next]_Contract!cvars
  OBVIOUS
<1> TypeOK
  BY DEF IInv, TypeInv
<1>a. ASSUME NEW K \in SUBSET Keys, Remove(K), UNCHANGED <<now, nextGen, floor>>
      PROVE  Contract!Next
  <2>1. \A k \in Keys : Live(k)' => Live(k) /\ items'[k] = items[k]
    BY <1>a, RemoveLive
  <2>2. Contract!Forget({k \in Keys : View'[k] = 0})
    BY <1>a, <2>1, ForgetStep
  <2>3. {k \in Keys : View'[k] = 0} \in SUBSET Keys
    OBVIOUS
  <2>4. QED
    BY <2>2, <2>3 DEF Contract!Next
<1>b. ASSUME UNCHANGED <<items, now, nextGen, floor>> PROVE UNCHANGED Contract!cvars
  BY <1>b, StutterStep
<1>1. ASSUME NEW c \in Calls, Enter(c) PROVE UNCHANGED Contract!cvars
  BY <1>1, <1>b DEF Enter, GetOrUpdate, Delete, Flush, storeVars
<1>2. ASSUME NEW c \in Calls,
             \/ RLock(c) \/ LockKey(c) \/ Lookup(c) \/ CheckLimit(c)
             \/ WLock(c) \/ PanicNoCandidate(c) \/ Return(c)
      PROVE  UNCHANGED Contract!cvars
  BY <1>2, <1>b
     DEF RLock, LockKey, Lookup, CheckLimit, WLock, PanicNoCandidate, Return, storeVars
<1>3. ASSUME NEW c \in Calls, Touch(c) \/ EndGenerate(c)
      PROVE  [Contract!Next]_Contract!cvars
  <2>1. key[c] \in Keys
    BY <1>3 DEF Touch, EndGenerate, IInv, TypeInv, KeyInv, InGetOrUpdate
  <2>2. Contract!Publish(key[c]) \/ UNCHANGED Contract!cvars
    BY <1>3, PublishStep DEF Touch, EndGenerate
  <2>3. QED
    BY <2>1, <2>2 DEF Contract!Next
<1>4. ASSUME NEW c \in Calls, BeginGenerate(c) PROVE Contract!Next
  <2>1. Contract!Generate
    BY <1>4 DEF BeginGenerate, Contract!Generate, View, Get, Live, storeVars
  <2>2. QED
    BY <2>1 DEF Contract!Next
<1>5. ASSUME NEW c \in Calls, DeleteClosestToExpiration(c) PROVE Contract!Next
  <2>1. PICK k \in Keys : Remove({k})
    BY <1>5 DEF DeleteClosestToExpiration, Candidates
  <2>2. {k} \in SUBSET Keys
    OBVIOUS
  <2>3. QED
    BY <1>5, <1>a, <2>1, <2>2 DEF DeleteClosestToExpiration
<1>6. ASSUME NEW c \in Calls, DeleteMatches(c) PROVE Contract!Next
  <2>1. match[c] \in SUBSET Keys
    BY DEF TypeOK
  <2>2. \A k \in Keys : k \in match[c] => Get(k)' = 0
    <3>1. match[c] \cap LiveKeys \in SUBSET Keys /\ Remove(match[c] \cap LiveKeys) /\ now' = now
      BY <1>6, <2>1 DEF DeleteMatches
    <3>2. \A k \in Keys : k \in match[c] => ~Live(k)'
      BY <3>1, RemoveLive DEF LiveKeys
    <3>3. QED
      BY <3>2 DEF Get
  <2>3. \A k \in Keys : k \notin match[c] => Get(k)' = Get(k)
    BY <1>6 DEF DeleteMatches, Remove, Get, Live
  <2>4. Contract!Invalidate(match[c])
    BY <1>6, <2>2, <2>3 DEF DeleteMatches, Contract!Invalidate, View
  <2>5. QED
    BY <2>1, <2>4 DEF Contract!Next
<1>7. ASSUME NEW c \in Calls, FlushLive(c) \/ FlushExpired(c)
      PROVE  [Contract!Next]_Contract!cvars
  <2>1. CASE HasEviction
    <3>1. PICK K \in SUBSET Keys : Remove(K)
      BY <1>7, <2>1 DEF FlushLive, FlushExpired, LiveKeys, ExpiredKeys
    <3>2. QED
      BY <1>7, <1>a, <3>1 DEF FlushLive, FlushExpired
  <2>2. CASE ~HasEviction
    BY <1>7, <1>b, <2>2 DEF FlushLive, FlushExpired
  <2>3. QED
    BY <2>1, <2>2
<1>8. ASSUME NEW c \in Calls, FlushRest(c) PROVE Contract!Next
  <2>1. \A k \in Keys : Get(k)' = 0
    BY <1>8 DEF FlushRest, Absent, Get, Live
  <2>2. Contract!Invalidate(Keys)
    BY <1>8, <2>1 DEF FlushRest, Contract!Invalidate, View
  <2>3. QED
    BY <2>2 DEF Contract!Next
<1>9. CASE Janitor
  <2>1. ExpiredKeys \in SUBSET Keys /\ Remove(ExpiredKeys)
    BY <1>9 DEF Janitor, ExpiredKeys
  <2>2. QED
    BY <1>9, <1>a, <2>1 DEF Janitor
<1>10. CASE Tick
  <2>1. \A k \in Keys : Live(k)' => Live(k) /\ items'[k] = items[k]
    BY <1>10 DEF Tick, Live, TypeOK
  <2>2. Contract!Forget({k \in Keys : View'[k] = 0})
    BY <1>10, <2>1, ForgetStep DEF Tick
  <2>3. {k \in Keys : View'[k] = 0} \in SUBSET Keys
    OBVIOUS
  <2>4. QED
    BY <2>2, <2>3 DEF Contract!Next
<1>11. CASE UNCHANGED vars
  BY <1>11, <1>b DEF vars, storeVars
<1>12. QED
  BY <1>1, <1>2, <1>3, <1>4, <1>5, <1>6, <1>7, <1>8, <1>9, <1>10, <1>11 DEF Next, Step

\* Through all its locks, evictions and expirations, MemCache is an atomic map
\* with invalidation.
THEOREM Implementation == Spec => ImplementsContract
<1>1. Init => Contract!Init
  BY DEF Init, Contract!Init, View, Get, Live, Absent
<1>2. QED
  BY <1>1, Inductive, ContractStep, PTL DEF Spec, Contract!Spec, ImplementsContract

-----------------------------------------------------------------------------
(* Eviction *)

\* The first two passes of Flush leave nothing for the last one, which calls no
\* eviction callback: no call can store while Flush holds the write lock.
FlushInv ==
    HasEviction =>
        \A c \in Calls :
            /\ pc[c] = "flushExpired" => \A k \in Keys : ~Live(k)
            /\ pc[c] = "flushRest" => \A k \in Keys : items[k].obj = 0

LEMMA FlushStep == IInv /\ FlushInv /\ [Next]_vars => FlushInv'
<1> SUFFICES ASSUME IInv, FlushInv, [Next]_vars, HasEviction,
                    NEW d \in Calls, pc'[d] \in {"flushExpired", "flushRest"}
             PROVE  /\ pc'[d] = "flushExpired" => \A k \in Keys : ~Live(k)'
                    /\ pc'[d] = "flushRest" => \A k \in Keys : items'[k].obj = 0
  BY DEF FlushInv
<1> TypeOK
  BY DEF IInv, TypeInv
<1>a. ASSUME UNCHANGED <<items, now>>, pc'[d] = pc[d]
      PROVE  /\ pc'[d] = "flushExpired" => \A k \in Keys : ~Live(k)'
             /\ pc'[d] = "flushRest" => \A k \in Keys : items'[k].obj = 0
  BY <1>a DEF FlushInv, Live
<1>b. ASSUME NEW K \in SUBSET Keys, Remove(K), now' = now, pc'[d] = pc[d]
      PROVE  /\ pc'[d] = "flushExpired" => \A k \in Keys : ~Live(k)'
             /\ pc'[d] = "flushRest" => \A k \in Keys : items'[k].obj = 0
  BY <1>b, RemoveLive, RemoveObj DEF FlushInv
<1>1. ASSUME NEW c \in Calls, Enter(c) PROVE UNCHANGED <<items, now>> /\ pc'[d] = pc[d]
  BY <1>1 DEF Enter, GetOrUpdate, Delete, Flush, storeVars, Goto, TypeOK
<1>2. ASSUME NEW c \in Calls,
             \/ RLock(c) \/ LockKey(c) \/ Lookup(c) \/ CheckLimit(c) \/ BeginGenerate(c)
             \/ WLock(c) \/ PanicNoCandidate(c) \/ Return(c)
      PROVE  UNCHANGED <<items, now>> /\ pc'[d] = pc[d]
  BY <1>2
     DEF RLock, LockKey, Lookup, CheckLimit, BeginGenerate, WLock, AfterAnnounce,
         PanicNoCandidate, Return, storeVars, Goto, TypeOK
\* A call that is about to store holds mux for reading.
<1>3. ASSUME NEW c \in Calls, Touch(c) \/ EndGenerate(c) PROVE FALSE
  <2>1. c \in readers
    BY <1>3 DEF Touch, EndGenerate, IInv, MuxInv, ReaderLabels
  <2>2. pc'[d] = pc[d]
    BY <1>3 DEF Touch, EndGenerate, Goto, TypeOK
  <2>3. QED
    BY <2>1, <2>2 DEF IInv, MuxInv
<1>4. ASSUME NEW c \in Calls,
             \/ DeleteClosestToExpiration(c) \/ DeleteMatches(c) \/ FlushRest(c)
      PROVE  FALSE
  <2>1. pc[c] \in WriterLabels /\ d # c /\ pc'[d] = pc[d]
    BY <1>4
       DEF DeleteClosestToExpiration, DeleteMatches, FlushRest, WriterLabels, Goto, TypeOK
  <2>2. QED
    BY <2>1 DEF IInv, MuxInv, WriterLabels
<1>5. ASSUME NEW c \in Calls, FlushLive(c)
      PROVE  /\ pc'[d] = "flushExpired" => \A k \in Keys : ~Live(k)'
             /\ pc'[d] = "flushRest" => \A k \in Keys : items'[k].obj = 0
  <2>1. d = c
    BY <1>5 DEF FlushLive, Goto, TypeOK, IInv, MuxInv, WriterLabels
  <2>2. LiveKeys \in SUBSET Keys /\ Remove(LiveKeys) /\ now' = now
    BY <1>5 DEF FlushLive, LiveKeys
  <2>3. \A k \in Keys : ~Live(k)'
    BY <2>2, RemoveLive DEF LiveKeys
  <2>4. pc'[d] = "flushExpired"
    BY <1>5, <2>1 DEF FlushLive, Goto, TypeOK
  <2>5. QED
    BY <2>3, <2>4
<1>6. ASSUME NEW c \in Calls, FlushExpired(c)
      PROVE  /\ pc'[d] = "flushExpired" => \A k \in Keys : ~Live(k)'
             /\ pc'[d] = "flushRest" => \A k \in Keys : items'[k].obj = 0
  <2>1. d = c
    BY <1>6 DEF FlushExpired, Goto, TypeOK, IInv, MuxInv, WriterLabels
  <2>2. \A k \in Keys : items[k].obj # 0 => k \in ExpiredKeys
    BY <1>6 DEF FlushExpired, FlushInv, ExpiredKeys
  <2>3. \A k \in Keys : items'[k].obj = 0
    BY <1>6, <2>2 DEF FlushExpired, Remove, Absent, TypeOK
  <2>4. pc'[d] = "flushRest"
    BY <1>6, <2>1 DEF FlushExpired, Goto, TypeOK
  <2>5. QED
    BY <2>3, <2>4
<1>7. CASE Janitor
  <2>1. ExpiredKeys \in SUBSET Keys /\ Remove(ExpiredKeys) /\ now' = now /\ pc' = pc
    BY <1>7 DEF Janitor, ExpiredKeys
  <2>2. QED
    BY <1>b, <2>1
<1>8. CASE Tick
  BY <1>8 DEF Tick, FlushInv, Live, TypeOK
<1>9. CASE UNCHANGED vars
  BY <1>9, <1>a DEF vars, storeVars
<1>10. QED
  BY <1>a, <1>1, <1>2, <1>3, <1>4, <1>5, <1>6, <1>7, <1>8, <1>9 DEF Next, Step

\* Removing entries hands each of them to the callback.
LEMMA RemoveEvicts ==
    ASSUME TypeOK, NEW K \in SUBSET Keys, Remove(K)
    PROVE  DropsEvict
BY DEF TypeOK, Remove, DropsEvict

LEMMA DropsStep == IInv /\ FlushInv /\ [Next]_vars => [DropsEvict]_vars
<1> SUFFICES ASSUME IInv, FlushInv, Next PROVE DropsEvict
  OBVIOUS
<1> TypeOK
  BY DEF IInv, TypeInv
<1>1. ASSUME items' = items PROVE DropsEvict
  BY <1>1 DEF DropsEvict
<1>2. ASSUME NEW c \in Calls, Enter(c) PROVE DropsEvict
  BY <1>1, <1>2 DEF Enter, GetOrUpdate, Delete, Flush, storeVars
<1>3. ASSUME NEW c \in Calls,
             \/ RLock(c) \/ LockKey(c) \/ Lookup(c) \/ CheckLimit(c) \/ BeginGenerate(c)
             \/ WLock(c) \/ PanicNoCandidate(c) \/ Return(c)
      PROVE  DropsEvict
  BY <1>1, <1>3
     DEF RLock, LockKey, Lookup, CheckLimit, BeginGenerate, WLock, PanicNoCandidate,
         Return, storeVars
<1>4. ASSUME NEW c \in Calls, Touch(c) \/ EndGenerate(c) PROVE DropsEvict
  <2>1. key[c] \in Keys
    BY <1>4 DEF Touch, EndGenerate, IInv, TypeInv, KeyInv, InGetOrUpdate
  <2>2. Live(key[c]) => items[key[c]].obj = obj[c]
    BY <1>4 DEF Touch, EndGenerate, IInv, ValueInv, TouchInv, NoRedundantGenerate
  <2>3. obj[c] # 0
    BY <1>4 DEF Touch, EndGenerate, IInv, ValueInv
  <2>4. items'[key[c]].obj = obj[c] /\ \A k \in Keys : k # key[c] => items'[k] = items[k]
    BY <1>4, <2>1 DEF Touch, EndGenerate, Entry, TypeOK
  <2>5. QED
    BY <2>1, <2>2, <2>3, <2>4 DEF DropsEvict
<1>5. ASSUME NEW c \in Calls, DeleteClosestToExpiration(c) PROVE DropsEvict
  <2>1. PICK k \in Keys : Remove({k})
    BY <1>5 DEF DeleteClosestToExpiration, Candidates
  <2>2. {k} \in SUBSET Keys
    OBVIOUS
  <2>3. QED
    BY <2>1, <2>2, RemoveEvicts
<1>6. ASSUME NEW c \in Calls, DeleteMatches(c) PROVE DropsEvict
  <2>1. match[c] \cap LiveKeys \in SUBSET Keys /\ Remove(match[c] \cap LiveKeys)
    BY <1>6 DEF DeleteMatches, TypeOK
  <2>2. QED
    BY <2>1, RemoveEvicts
<1>7. ASSUME NEW c \in Calls, FlushLive(c) \/ FlushExpired(c) PROVE DropsEvict
  <2>1. CASE HasEviction
    <3>1. PICK K \in SUBSET Keys : Remove(K)
      BY <1>7, <2>1 DEF FlushLive, FlushExpired, LiveKeys, ExpiredKeys
    <3>2. QED
      BY <3>1, RemoveEvicts
  <2>2. QED
    BY <2>1 DEF DropsEvict
<1>8. ASSUME NEW c \in Calls, FlushRest(c) PROVE DropsEvict
  BY <1>8 DEF FlushRest, FlushInv, DropsEvict
<1>9. CASE Janitor
  <2>1. ExpiredKeys \in SUBSET Keys /\ Remove(ExpiredKeys)
    BY <1>9 DEF Janitor, ExpiredKeys
  <2>2. QED
    BY <2>1, RemoveEvicts
<1>10. CASE Tick
  BY <1>1, <1>10 DEF Tick
<1>11. QED
  BY <1>2, <1>3, <1>4, <1>5, <1>6, <1>7, <1>8, <1>9, <1>10 DEF Next, Step

\* No open journal or connection falls out of the cache unseen, except one that
\* expired and is replaced before the janitor came by.
THEOREM EvictionCompleteCorrect == Spec => EvictionComplete
<1>1. Init => FlushInv
  BY DEF Init, FlushInv
<1>2. Spec => [](IInv /\ FlushInv)
  BY <1>1, Inductive, FlushStep, PTL DEF Spec
<1>3. QED
  BY <1>2, DropsStep, PTL DEF Spec, EvictionComplete

-----------------------------------------------------------------------------
(* Deadlock freedom of a cache without a limit whose generators are flat *)

NoEvictionInv ==
    \A c \in Calls :
        /\ pc[c] \notin {"wlock", "evict", "relock", "panic"}
        /\ pc[c] = "begin" => c \in readers

LEMMA NoEvictionStep ==
    ASSUME Limit = 0
    PROVE  IInv /\ NoEvictionInv /\ [Next]_vars => NoEvictionInv'
<1> SUFFICES ASSUME IInv, NoEvictionInv, [Next]_vars PROVE NoEvictionInv'
  OBVIOUS
<1> USE DEF NoEvictionInv, TypeOK
<1> TypeOK
  BY DEF IInv, TypeInv
<1>1. ASSUME NEW c \in Calls, Enter(c) PROVE NoEvictionInv'
  BY <1>1 DEF Enter, GetOrUpdate, Delete, Flush, Goto, muxVars
<1>2. ASSUME NEW c \in Calls, RLock(c) PROVE NoEvictionInv'
  BY <1>2 DEF RLock, Goto
<1>3. ASSUME NEW c \in Calls,
             \/ LockKey(c) \/ Lookup(c) \/ Touch(c) \/ BeginGenerate(c) \/ EndGenerate(c)
             \/ FlushLive(c) \/ FlushExpired(c)
      PROVE  NoEvictionInv'
  BY <1>3
     DEF LockKey, Lookup, Touch, BeginGenerate, EndGenerate, FlushLive, FlushExpired,
         Goto, muxVars
<1>4. ASSUME NEW c \in Calls, CheckLimit(c) PROVE NoEvictionInv'
  <2>1. c \in readers
    BY <1>4 DEF CheckLimit, IInv, MuxInv, ReaderLabels
  <2>2. QED
    BY <1>4, <2>1 DEF CheckLimit, Goto
<1>5. ASSUME NEW c \in Calls, WLock(c) PROVE NoEvictionInv'
  BY <1>5 DEF WLock, Announce, AfterAnnounce, Goto
<1>6. ASSUME NEW c \in Calls, Return(c) PROVE NoEvictionInv'
  BY <1>6 DEF Return, Goto
<1>7. ASSUME NEW c \in Calls, DeleteMatches(c) \/ FlushRest(c) PROVE NoEvictionInv'
  BY <1>7 DEF DeleteMatches, FlushRest, Unlock, Goto
<1>8. ASSUME NEW c \in Calls, DeleteClosestToExpiration(c) \/ PanicNoCandidate(c) PROVE FALSE
  BY <1>8 DEF DeleteClosestToExpiration, PanicNoCandidate
<1>9. CASE Janitor \/ Tick
  BY <1>9 DEF Janitor, Tick, muxVars
<1>10. CASE UNCHANGED vars
  BY <1>10 DEF vars, muxVars
<1>11. QED
  BY <1>1, <1>2, <1>3, <1>4, <1>5, <1>6, <1>7, <1>8, <1>9, <1>10 DEF Next, Step

\* Calls wait in one order only: for mux behind its writer, the writer for the
\* readers, a reader for a key lock, and the holder of a key lock for nobody.
LEMMA WaitOrder ==
    ASSUME Limit = 0, \A c \in Calls : Caller[c] = None, IInv, NoEvictionInv
    PROVE  NoWaitCycle
<1> SUFFICES ASSUME NEW S \in SUBSET Calls,
                    \A c \in S : \E d \in S : WaitsFor(c, d)
             PROVE  S = {}
  BY DEF NoWaitCycle
<1> USE CallsAssumption DEF IInv
<1>1. \A c \in S : pc[c] \notin {"lookup", "touch", "check", "generate", "unlock"}
  BY DEF WaitsFor
<1>2. \A c \in S : pc[c] # "begin"
  BY DEF WaitsFor, NoEvictionInv, MuxInv
<1>3. \A c \in S : c \notin readers
  <2> SUFFICES ASSUME NEW c \in S, c \in readers PROVE FALSE
    OBVIOUS
  <2>1. pc[c] = "lockKey" /\ c \notin blocked
    BY <1>1, <1>2 DEF MuxInv, ReaderLabels
  <2>2. PICK d \in S : keyLock[LockOf[key[c]]] = d
    BY <2>1 DEF WaitsFor
  <2>3. LockOf[key[c]] \in Locks
    BY <2>1, LockOfAssumption DEF TypeInv, KeyInv, InGetOrUpdate
  <2>4. pc[d] \in KeyLabels
    BY <2>2, <2>3 DEF KeyLockInv
  <2>5. QED
    BY <1>1, <1>2, <2>4 DEF KeyLabels, NoEvictionInv
<1>4. \A c \in S : pc[c] \notin {"evict", "delete", "flushLive"}
  BY <1>3 DEF WaitsFor
<1>5. \A c \in S : \E d \in S : writer = d
  BY <1>1, <1>3, <1>4 DEF WaitsFor
<1>6. \A d \in S : writer = d => pc[d] \in {"flushExpired", "flushRest"}
  BY <1>4 DEF MuxInv, WriterLabels, NoEvictionInv
<1>7. \A d \in S : pc[d] \notin {"flushExpired", "flushRest"}
  BY DEF WaitsFor
<1>8. QED
  BY <1>5, <1>6, <1>7

\* The plugin cache sets no limit: as long as no generator makes calls of its
\* own, calls never wait for each other in a circle.
THEOREM NoWaitCycleCorrect ==
    ASSUME Limit = 0, \A c \in Calls : Caller[c] = None
    PROVE  Spec => []NoWaitCycle
<1>1. Init => NoEvictionInv
  BY DEF Init, NoEvictionInv
<1>2. IInv /\ NoEvictionInv /\ [Next]_vars => NoEvictionInv'
  BY NoEvictionStep
<1>3. IInv /\ NoEvictionInv => NoWaitCycle
  BY WaitOrder
<1>4. QED
  BY <1>1, <1>2, <1>3, Inductive, PTL DEF Spec
-----------------------------------------------------------------------------
(* How far a limited cache can exceed its limit *)

\* A call at one of these may store its key without looking at the limit again.
ClaimLabels == {"touch", "relock", "begin", "generate"}

Occupied == {k \in Keys : items[k].obj # 0}

\* The keys that have an entry or are about to get one.
Claimed == {k \in Keys : \/ items[k].obj # 0
                         \/ \E c \in Calls : pc[c] \in ClaimLabels /\ key[c] = k}

ClaimInv ==
    Limit > 0 => /\ IsFiniteSet(Claimed)
                 /\ Cardinality(Claimed) < Limit + Cardinality(Calls)

\* A step that claims no new key keeps the bound.
LEMMA ClaimSubset ==
    ASSUME IsFiniteSet(Calls), ClaimInv, Claimed' \subseteq Claimed
    PROVE  ClaimInv'
<1> SUFFICES ASSUME Limit > 0
             PROVE  /\ IsFiniteSet(Claimed')
                    /\ Cardinality(Claimed') < Limit + Cardinality(Calls)
  BY DEF ClaimInv
<1>1. IsFiniteSet(Claimed) /\ Cardinality(Claimed) < Limit + Cardinality(Calls)
  BY DEF ClaimInv
<1>2. IsFiniteSet(Claimed') /\ Cardinality(Claimed') <= Cardinality(Claimed)
  BY <1>1, FS_Subset
<1>3. Cardinality(Claimed) \in Nat /\ Cardinality(Claimed') \in Nat /\ Cardinality(Calls) \in Nat
  BY <1>1, <1>2, FS_CardinalityType
<1>4. QED
  BY <1>1, <1>2, <1>3, LimitAssumption

\* Below the limit, every call may still add its key.
LEMMA ClaimBelowLimit ==
    ASSUME IsFiniteSet(Calls), TypeOK, ClaimInv, Limit > 0, ItemCount < Limit,
           Claimed' \subseteq Occupied \cup {key[c] : c \in Calls}
    PROVE  ClaimInv'
<1> DEFINE K == {key[c] : c \in Calls}
<1>1. IsFiniteSet(K) /\ Cardinality(K) <= Cardinality(Calls)
  <2>1. key \in Surjection(Calls, K)
    BY DEF TypeOK, Surjection
  <2>2. QED
    BY <2>1, FS_Surjection
<1>2. IsFiniteSet(Claimed) /\ Occupied \subseteq Claimed
  BY DEF ClaimInv, Claimed, Occupied
<1>3. IsFiniteSet(Occupied)
  BY <1>2, FS_Subset
<1>4. Cardinality(Occupied) < Limit
  BY DEF ItemCount, Occupied
<1> HIDE DEF K
<1>5. /\ IsFiniteSet(Occupied \cup K)
      /\ Cardinality(Occupied \cup K)
            = Cardinality(Occupied) + Cardinality(K) - Cardinality(Occupied \cap K)
  BY <1>1, <1>3, FS_Union
<1>6. IsFiniteSet(Occupied \cap K)
  BY <1>1, FS_Subset
<1>7. IsFiniteSet(Claimed') /\ Cardinality(Claimed') <= Cardinality(Occupied \cup K)
  BY <1>5, FS_Subset DEF K
<1>8. /\ Cardinality(Occupied) \in Nat /\ Cardinality(K) \in Nat
      /\ Cardinality(Occupied \cap K) \in Nat /\ Cardinality(Calls) \in Nat
      /\ Cardinality(Occupied \cup K) \in Nat /\ Cardinality(Claimed') \in Nat
  BY <1>1, <1>3, <1>5, <1>6, <1>7, FS_CardinalityType
<1>9. Cardinality(Claimed') < Limit + Cardinality(Calls)
  BY <1>1, <1>4, <1>5, <1>7, <1>8, LimitAssumption
<1>10. QED
  BY <1>7, <1>9 DEF ClaimInv

\* An eviction gives one key up before its call claims another.
LEMMA ClaimExchange ==
    ASSUME IsFiniteSet(Calls), ClaimInv, NEW k \in Claimed, NEW j,
           Claimed' \subseteq (Claimed \ {k}) \cup {j}
    PROVE  ClaimInv'
<1> SUFFICES ASSUME Limit > 0
             PROVE  /\ IsFiniteSet(Claimed')
                    /\ Cardinality(Claimed') < Limit + Cardinality(Calls)
  BY DEF ClaimInv
<1>1. IsFiniteSet(Claimed) /\ Cardinality(Claimed) < Limit + Cardinality(Calls)
  BY DEF ClaimInv
<1> DEFINE R == Claimed \ {k}
<1>2. IsFiniteSet(R) /\ Cardinality(R) = Cardinality(Claimed) - 1
  BY <1>1, FS_RemoveElement
<1> HIDE DEF R
<1>3. IsFiniteSet(R \cup {j}) /\ Cardinality(R \cup {j}) <= Cardinality(R) + 1
  <2>1. IsFiniteSet(R \cup {j})
    BY <1>2, FS_AddElement
  <2>2. Cardinality(R \cup {j}) = IF j \in R THEN Cardinality(R) ELSE Cardinality(R) + 1
    BY <1>2, FS_AddElement
  <2>3. Cardinality(R) \in Nat
    BY <1>2, FS_CardinalityType
  <2>4. QED
    BY <2>1, <2>2, <2>3
<1>4. IsFiniteSet(Claimed') /\ Cardinality(Claimed') <= Cardinality(R \cup {j})
  BY <1>3, FS_Subset DEF R
<1>5. /\ Cardinality(Claimed) \in Nat /\ Cardinality(R) \in Nat /\ Cardinality(Calls) \in Nat
      /\ Cardinality(R \cup {j}) \in Nat /\ Cardinality(Claimed') \in Nat
  BY <1>1, <1>2, <1>3, <1>4, FS_CardinalityType
<1>6. QED
  BY <1>1, <1>2, <1>3, <1>4, <1>5, LimitAssumption

LEMMA ClaimStep ==
    ASSUME IsFiniteSet(Calls)
    PROVE  IInv /\ ClaimInv /\ [Next]_vars => ClaimInv'
<1> SUFFICES ASSUME IInv, ClaimInv, [Next]_vars, Limit > 0 PROVE ClaimInv'
  BY DEF ClaimInv
<1> TypeOK
  BY DEF IInv, TypeInv
<1> USE DEF ClaimLabels
<1>a. ASSUME items' = items, key' = key,
             \A d \in Calls : pc'[d] \in ClaimLabels => pc[d] \in ClaimLabels
      PROVE  Claimed' \subseteq Claimed
  BY <1>a DEF Claimed
<1>b. ASSUME NEW K \in SUBSET Keys, Remove(K), key' = key,
             \A d \in Calls : pc'[d] \in ClaimLabels => pc[d] \in ClaimLabels
      PROVE  Claimed' \subseteq Claimed
  <2>1. \A k \in Keys : items'[k].obj # 0 => items[k].obj # 0
    BY <1>b, RemoveObj
  <2>2. QED
    BY <1>b, <2>1 DEF Claimed
<1>1. ASSUME NEW c \in Calls, NEW k \in Keys, GetOrUpdate(c, k) PROVE Claimed' \subseteq Claimed
  BY <1>1 DEF GetOrUpdate, Goto, storeVars, Claimed, TypeOK
<1>2. ASSUME NEW c \in Calls,
             \/ \E m \in Matchers : Delete(c, m)
             \/ Flush(c) \/ RLock(c) \/ LockKey(c) \/ WLock(c) \/ PanicNoCandidate(c)
      PROVE  Claimed' \subseteq Claimed
  BY <1>2, <1>a
     DEF Delete, Flush, RLock, LockKey, WLock, AfterAnnounce, PanicNoCandidate, Goto,
         storeVars, localVars, TypeOK
<1>3. ASSUME NEW c \in Calls, BeginGenerate(c) PROVE Claimed' \subseteq Claimed
  BY <1>3, <1>a DEF BeginGenerate, Goto, storeVars, TypeOK
\* A hit that resets the ttl claims a key that has an entry.
<1>4. ASSUME NEW c \in Calls, Lookup(c) PROVE Claimed' \subseteq Claimed
  <2>1. /\ items' = items /\ key' = key
        /\ \A d \in Calls : d # c => pc'[d] = pc[d]
        /\ pc'[c] \in ClaimLabels => Live(key[c])
    BY <1>4 DEF Lookup, Goto, storeVars, TypeOK, Get
  <2>2. QED
    BY <2>1 DEF Claimed, Live
\* A call that stores gives its claim up for the entry.
<1>5. ASSUME NEW c \in Calls, Touch(c) \/ EndGenerate(c) PROVE Claimed' \subseteq Claimed
  <2>1. key[c] \in Keys /\ pc[c] \in ClaimLabels
    BY <1>5 DEF Touch, EndGenerate, IInv, TypeInv, KeyInv, InGetOrUpdate
  <2>2. \A k \in Keys : k # key[c] => items'[k] = items[k]
    BY <1>5, <2>1 DEF Touch, EndGenerate, TypeOK
  <2>3. key' = key /\ \A d \in Calls : pc'[d] \in ClaimLabels => pc[d] \in ClaimLabels
    BY <1>5 DEF Touch, EndGenerate, Goto, localVars, TypeOK
  <2>4. QED
    BY <2>1, <2>2, <2>3 DEF Claimed
<1>6. ASSUME NEW c \in Calls, CheckLimit(c) PROVE ClaimInv'
  <2>1. items' = items /\ key' = key /\ \A d \in Calls : d # c => pc'[d] = pc[d]
    BY <1>6 DEF CheckLimit, Goto, storeVars, localVars, TypeOK
  <2>2. CASE ItemCount >= Limit
    <3>1. pc'[c] = "wlock"
      BY <1>6, <2>2 DEF CheckLimit, Goto, TypeOK
    <3>2. QED
      BY <1>a, <2>1, <3>1, ClaimSubset
  <2>3. CASE ~(ItemCount >= Limit)
    <3>1. IsFiniteSet(Occupied)
      BY FS_Subset DEF ClaimInv, Claimed, Occupied
    <3>2. ItemCount \in Nat
      BY <3>1, FS_CardinalityType DEF ItemCount, Occupied
    <3>3. ItemCount < Limit
      BY <2>3, <3>2, LimitAssumption
    <3>4. Claimed' \subseteq Occupied \cup {key[d] : d \in Calls}
      BY <2>1 DEF Claimed, Occupied
    <3>5. QED
      BY <3>3, <3>4, ClaimBelowLimit
  <2>4. QED
    BY <2>2, <2>3
\* The entry that goes is live, so that nobody is on the way to store its key.
<1>7. ASSUME NEW c \in Calls, DeleteClosestToExpiration(c) PROVE ClaimInv'
  <2>1. PICK k \in Keys : Live(k) /\ Remove({k})
    BY <1>7 DEF DeleteClosestToExpiration, Candidates
  <2>2. key' = key /\ \A d \in Calls : d # c => pc'[d] = pc[d]
    BY <1>7 DEF DeleteClosestToExpiration, Goto, localVars, TypeOK
  <2>3. k \in Claimed
    BY <2>1 DEF Claimed, Live
  <2>4. items' = [i \in Keys |-> IF i \in {k} THEN Absent ELSE items[i]]
    BY <2>1 DEF Remove
  <2>5. \A i \in Keys : items'[i].obj # 0 => items[i].obj # 0 /\ i # k
    BY <2>4 DEF Absent
  <2>6. \A d \in Calls : d # c /\ pc[d] \in ClaimLabels => key[d] # k
    <3> SUFFICES ASSUME NEW d \in Calls, pc[d] \in ClaimLabels PROVE key[d] # k
      OBVIOUS
    <3>1. pc[d] # "touch"
      BY <1>7 DEF DeleteClosestToExpiration, HoldsLock, IInv, MuxInv, ReaderLabels
    <3>2. ~Live(key[d])
      BY <3>1 DEF IInv, ValueInv, NoRedundantGenerate
    <3>3. QED
      BY <2>1, <3>2
  <2>7. Claimed' \subseteq (Claimed \ {k}) \cup {key[c]}
    BY <2>2, <2>5, <2>6 DEF Claimed
  <2>8. QED
    BY <2>3, <2>7, ClaimExchange
<1>8. ASSUME NEW c \in Calls, Return(c) PROVE Claimed' \subseteq Claimed
  BY <1>8 DEF Return, Goto, storeVars, Claimed, TypeOK
<1>9. ASSUME NEW c \in Calls, DeleteMatches(c) PROVE Claimed' \subseteq Claimed
  <2>1. match[c] \cap LiveKeys \in SUBSET Keys /\ Remove(match[c] \cap LiveKeys)
    BY <1>9 DEF DeleteMatches, TypeOK
  <2>2. key' = key /\ \A d \in Calls : pc'[d] \in ClaimLabels => pc[d] \in ClaimLabels
    BY <1>9 DEF DeleteMatches, Goto, TypeOK
  <2>3. QED
    BY <1>b, <2>1, <2>2
<1>10. ASSUME NEW c \in Calls, FlushLive(c) \/ FlushExpired(c) PROVE Claimed' \subseteq Claimed
  <2>1. key' = key /\ \A d \in Calls : pc'[d] \in ClaimLabels => pc[d] \in ClaimLabels
    BY <1>10 DEF FlushLive, FlushExpired, Goto, localVars, TypeOK
  <2>2. items' = items \/ \E K \in SUBSET Keys : Remove(K)
    BY <1>10 DEF FlushLive, FlushExpired, LiveKeys, ExpiredKeys
  <2>3. QED
    BY <1>a, <1>b, <2>1, <2>2
<1>11. ASSUME NEW c \in Calls, FlushRest(c) PROVE Claimed' \subseteq Claimed
  BY <1>11 DEF FlushRest, Absent, Goto, localVars, TypeOK, Claimed
<1>12. CASE Janitor
  <2>1. ExpiredKeys \in SUBSET Keys /\ Remove(ExpiredKeys) /\ pc' = pc /\ key' = key
    BY <1>12 DEF Janitor, ExpiredKeys, localVars
  <2>2. QED
    BY <1>b, <2>1, ClaimSubset
<1>13. CASE Tick \/ UNCHANGED vars
  BY <1>13, <1>a, ClaimSubset DEF Tick, vars, storeVars, localVars
<1>14. QED
  BY <1>1, <1>2, <1>3, <1>4, <1>5, <1>6, <1>7, <1>8, <1>9, <1>10, <1>11, <1>12, <1>13,
     ClaimSubset DEF Next, Enter, Step

\* Concurrent misses exceed the limit by at most one entry for each other call,
\* whatever the janitor, ttl resets and deletions do between the check and the Set.
THEOREM OvershootBoundedCorrect ==
    ASSUME IsFiniteSet(Calls)
    PROVE  Spec => []OvershootBounded
<1>1. ASSUME Init PROVE ClaimInv
  <2>1. Claimed = {}
    BY <1>1 DEF Init, Claimed, ClaimLabels, Absent
  <2>2. IsFiniteSet(Claimed) /\ Cardinality(Claimed) = 0
    BY <2>1, FS_EmptySet
  <2>3. QED
    BY <2>2, FS_CardinalityType, LimitAssumption DEF ClaimInv
<1>2. IInv /\ ClaimInv /\ [Next]_vars => ClaimInv'
  BY ClaimStep
<1>3. ASSUME ClaimInv PROVE OvershootBounded
  <2> SUFFICES ASSUME Limit > 0 PROVE ItemCount < Limit + Cardinality(Calls)
    BY DEF OvershootBounded
  <2>1. IsFiniteSet(Claimed) /\ Cardinality(Claimed) < Limit + Cardinality(Calls)
    BY <1>3 DEF ClaimInv
  <2>2. Occupied \subseteq Claimed
    BY DEF Occupied, Claimed
  <2>3. IsFiniteSet(Occupied) /\ Cardinality(Occupied) <= Cardinality(Claimed)
    BY <2>1, <2>2, FS_Subset
  <2>4. /\ Cardinality(Occupied) \in Nat /\ Cardinality(Claimed) \in Nat
        /\ Cardinality(Calls) \in Nat
    BY <2>1, <2>3, FS_CardinalityType
  <2>5. Cardinality(Occupied) < Limit + Cardinality(Calls)
    BY <2>1, <2>3, <2>4, LimitAssumption
  <2>6. QED
    BY <2>5 DEF ItemCount, Occupied
<1>4. QED
  BY <1>1, <1>2, <1>3, Inductive, PTL DEF Spec
=============================================================================
