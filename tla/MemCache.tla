------------------------------ MODULE MemCache ------------------------------
(***************************************************************************)
(* datastore.MemCache: the in-memory cache every plugin operation, journal *)
(* and SSH connection of wash goes through (src/datastore/cache.go).       *)
(*                                                                         *)
(* A call in progress is an activation record: a member of Calls, with its *)
(* program counter and its locals.  A call that generateValue itself makes *)
(* (plugin.List inside a List, ...) is a record of its own whose Caller is *)
(* the record that runs generateValue, on the same goroutine.              *)
(*                                                                         *)
(* Three locks meet here: MemCache.mux, a Go sync.RWMutex (a waiting       *)
(* writer keeps new readers out; Unlock admits every reader that waited),  *)
(* the key locks (lockForKey: 256 per category, so keys may share one),    *)
(* and go-cache's own mutex, which makes each Get, Set, Delete, Items and  *)
(* DeleteExpired of the underlying map one atomic step.                    *)
(*                                                                         *)
(* A cached value is represented by the number of the generateValue call   *)
(* that produced it, counted from 1; a cached error is a value like any    *)
(* other, because the code stores and returns it the same way.             *)
(***************************************************************************)
EXTENDS Integers, FiniteSets

CONSTANTS
    Calls,          \* activation records
    None,           \* no activation record
    Caller,         \* the record whose generateValue makes this call, or None
    Keys,           \* formKey(category, key)
    Locks,          \* the LockEntry objects of all categories
    LockOf,         \* lockForKey
    TTL,            \* the ttl that callers pass for a key
    Limit,          \* MemCache.limit; 0 when Limit was not called
    HasEviction,    \* WithEvicted was called
    ResetTTLOnHit,  \* the resetTTLOnHit argument
    Matchers,       \* the key sets the regexps given to Delete match
    MaxTime,        \* bound on the clock
    MaxGen          \* bound on the number of generateValue calls

ASSUME CallsAssumption == None \notin Calls
ASSUME KeysAssumption == None \notin Keys
ASSUME CallerAssumption == Caller \in [Calls -> Calls \cup {None}]
ASSUME LockOfAssumption == LockOf \in [Keys -> Locks]
ASSUME TTLAssumption == TTL \in [Keys -> Int]
ASSUME LimitAssumption == Limit \in Nat
ASSUME FlagsAssumption == HasEviction \in BOOLEAN /\ ResetTTLOnHit \in BOOLEAN
ASSUME MatchersAssumption == Matchers \subseteq SUBSET Keys
ASSUME BoundsAssumption == MaxTime \in Nat /\ MaxGen \in Nat

VARIABLES
    readers,  \* records that hold mux for reading
    writer,   \* the record that announced Lock on mux, or None
    blocked,  \* records whose RLock found a writer announced
    keyLock,  \* the holder of each key lock
    items,    \* go-cache's map: the object and its expiration, expired ones included
    now,      \* the clock
    evicted,  \* the objects the OnEvicted callback has received
    nextGen,  \* the number the next generateValue call gets
    pc,       \* where each record is
    key,      \* its key
    obj,      \* the value it found or generates
    match,    \* Delete's matcher
    floor     \* history: the number nextGen had when the key was last invalidated

muxVars == <<readers, writer, blocked>>
storeVars == <<items, now, evicted>>
localVars == <<key, obj, match>>
vars == <<muxVars, keyLock, storeVars, nextGen, pc, localVars, floor>>

-----------------------------------------------------------------------------
\* An entry of go-cache's map.  Object 0 is no entry; expiration 0 is never.
Absent == [obj |-> 0, exp |-> 0]

\* go-cache's Get and Items: an entry that is there and not past its expiration.
Live(k) == items[k].obj # 0 /\ (items[k].exp = 0 \/ now <= items[k].exp)

\* Mutant of Entry: the ttl is stored instead of the time it ends.
EntryRawTTL(k, o) == [obj |-> o, exp |-> TTL[k]]

\* Set: NewMemCache gives go-cache NoExpiration as its default, so that both
\* the ttl -1 and the ttl 0 (use the default) store an entry that never expires.
Entry(k, o) == [obj |-> o, exp |-> IF TTL[k] > 0 THEN now + TTL[k] ELSE 0]

\* Get: the cached value, 0 for (nil, nil).
Get(k) == IF Live(k) THEN items[k].obj ELSE 0

\* ItemCount: entries that expired and were not yet removed are counted too.
ItemCount == Cardinality({k \in Keys : items[k].obj # 0})

\* it.Expiration - now, which is below zero for an entry that never expires.
Remaining(k) == items[k].exp - now

\* The entries deleteClosestToExpiration may choose; a tie is settled by the
\* iteration order of a Go map, which is any order.
Candidates ==
    {k \in Keys : Live(k) /\ \A j \in Keys : Live(j) => Remaining(k) <= Remaining(j)}

\* go-cache's Delete on a set of keys: each removed object goes to OnEvicted.
Remove(K) ==
    /\ items' = [k \in Keys |-> IF k \in K THEN Absent ELSE items[k]]
    /\ evicted' = IF HasEviction
                  THEN evicted \cup {items[k].obj : k \in {j \in K : items[j].obj # 0}}
                  ELSE evicted

LiveKeys == {k \in Keys : Live(k)}
ExpiredKeys == {k \in Keys : items[k].obj # 0 /\ ~Live(k)}

-----------------------------------------------------------------------------
(* sync.RWMutex *)

\* Lock, first half: win the writers' mutex and announce, so that RLock blocks.
Announce(c) ==
    /\ writer = None
    /\ writer' = c
    /\ UNCHANGED <<readers, blocked>>

\* Lock, second half: no reader is left.
HoldsLock(c) == writer = c /\ readers = {}

\* Mutant of Unlock: the readers that waited are not woken.
UnlockForgetsReaders == writer' = None /\ UNCHANGED <<readers, blocked>>

\* Unlock admits every reader that waited.
Unlock ==
    /\ writer' = None
    /\ readers' = readers \cup blocked
    /\ blocked' = {}

Goto(c, label) == pc' = [pc EXCEPT ![c] = label]

Labels == {"idle", "rlock", "lockKey", "lookup", "touch", "check", "wlock",
           "evict", "relock", "begin", "generate", "unlock", "panic",
           "dlock", "delete", "flock", "flushLive", "flushExpired", "flushRest"}

\* A record at one of these may still run generateValue.
BeforeGenerate == {"rlock", "lockKey", "lookup", "check", "wlock", "evict", "relock", "begin"}

-----------------------------------------------------------------------------
(* GetOrUpdate *)

\* A nested call is made while its caller runs generateValue, for another key
\* (an entry lists its children, not itself).  The bound keeps a number in
\* reserve for every call that may still need one.
GetOrUpdate(c, k) ==
    /\ pc[c] = "idle"
    /\ Caller[c] # None => pc[Caller[c]] = "generate" /\ key[Caller[c]] # k
    /\ nextGen + Cardinality({d \in Calls : pc[d] \in BeforeGenerate}) <= MaxGen
    /\ key' = [key EXCEPT ![c] = k]
    /\ Goto(c, "rlock")
    /\ UNCHANGED <<muxVars, keyLock, storeVars, nextGen, obj, match, floor>>

\* mux.RLock(), on entry and again after an eviction.
RLock(c) ==
    /\ pc[c] \in {"rlock", "relock"}
    /\ IF writer = None
       THEN readers' = readers \cup {c} /\ UNCHANGED blocked
       ELSE blocked' = blocked \cup {c} /\ UNCHANGED readers
    /\ Goto(c, IF pc[c] = "rlock" THEN "lockKey" ELSE "begin")
    /\ UNCHANGED <<writer, keyLock, storeVars, nextGen, localVars, floor>>

\* Mutant of LockKey: the lookup does not wait for the key lock.
LockKeyNoWait(c) ==
    /\ pc[c] = "lockKey"
    /\ c \in readers
    /\ keyLock' = [keyLock EXCEPT ![LockOf[key[c]]] = c]
    /\ Goto(c, "lookup")
    /\ UNCHANGED <<muxVars, storeVars, nextGen, localVars, floor>>

\* l.Lock()
LockKey(c) ==
    /\ pc[c] = "lockKey"
    /\ c \in readers
    /\ keyLock[LockOf[key[c]]] = None
    /\ keyLock' = [keyLock EXCEPT ![LockOf[key[c]]] = c]
    /\ Goto(c, "lookup")
    /\ UNCHANGED <<muxVars, storeVars, nextGen, localVars, floor>>

\* instance.Get(key): a hit returns, after a Set when resetTTLOnHit is given.
Lookup(c) ==
    /\ pc[c] = "lookup"
    /\ obj' = [obj EXCEPT ![c] = Get(key[c])]
    /\ Goto(c, IF Get(key[c]) = 0 THEN "check"
               ELSE IF ResetTTLOnHit THEN "touch" ELSE "unlock")
    /\ UNCHANGED <<muxVars, keyLock, storeVars, nextGen, key, match, floor>>

\* Update last-access time: a step of its own, after the Get.
Touch(c) ==
    /\ pc[c] = "touch"
    /\ items' = [items EXCEPT ![key[c]] = Entry(key[c], obj[c])]
    /\ Goto(c, "unlock")
    /\ UNCHANGED <<muxVars, keyLock, now, evicted, nextGen, localVars, floor>>

\* Mutant of CheckLimit: an unset limit is compared as well.
CheckLimitUnset(c) ==
    /\ pc[c] = "check"
    /\ IF ItemCount >= Limit
       THEN readers' = readers \ {c} /\ Goto(c, "wlock")
       ELSE UNCHANGED readers /\ Goto(c, "begin")
    /\ UNCHANGED <<writer, blocked, keyLock, storeVars, nextGen, localVars, floor>>

\* Mutant of CheckLimit: off by one.
CheckLimitOffByOne(c) ==
    /\ pc[c] = "check"
    /\ IF Limit > 0 /\ ItemCount > Limit
       THEN readers' = readers \ {c} /\ Goto(c, "wlock")
       ELSE UNCHANGED readers /\ Goto(c, "begin")
    /\ UNCHANGED <<writer, blocked, keyLock, storeVars, nextGen, localVars, floor>>

\* A miss: at the limit, mux.RUnlock() before asking for the write lock.
CheckLimit(c) ==
    /\ pc[c] = "check"
    /\ IF Limit > 0 /\ ItemCount >= Limit
       THEN readers' = readers \ {c} /\ Goto(c, "wlock")
       ELSE UNCHANGED readers /\ Goto(c, "begin")
    /\ UNCHANGED <<writer, blocked, keyLock, storeVars, nextGen, localVars, floor>>

\* mux.Lock(), first half, in GetOrUpdate, Delete and Flush.
AfterAnnounce == [wlock |-> "evict", dlock |-> "delete", flock |-> "flushLive"]

WLock(c) ==
    /\ pc[c] \in {"wlock", "dlock", "flock"}
    /\ Announce(c)
    /\ Goto(c, AfterAnnounce[pc[c]])
    /\ UNCHANGED <<keyLock, storeVars, nextGen, localVars, floor>>

\* deleteClosestToExpiration and mux.Unlock().
DeleteClosestToExpiration(c) ==
    /\ pc[c] = "evict"
    /\ HoldsLock(c)
    /\ \E k \in Candidates : Remove({k})
    /\ Unlock
    /\ Goto(c, "relock")
    /\ UNCHANGED <<keyLock, now, nextGen, localVars, floor>>

\* panic("should have found a candidate"): the deferred RUnlock finds mux locked
\* for writing, which is fatal; the write lock is never released.
PanicNoCandidate(c) ==
    /\ pc[c] = "evict"
    /\ HoldsLock(c)
    /\ Candidates = {}
    /\ Goto(c, "panic")
    /\ UNCHANGED <<muxVars, keyLock, storeVars, nextGen, localVars, floor>>

\* Mutant of BeginGenerate: mux is released while the value is generated.
BeginGenerateUnlocked(c) ==
    /\ pc[c] = "begin"
    /\ c \in readers
    /\ readers' = readers \ {c}
    /\ obj' = [obj EXCEPT ![c] = nextGen]
    /\ nextGen' = nextGen + 1
    /\ Goto(c, "generate")
    /\ UNCHANGED <<writer, blocked, keyLock, storeVars, key, match, floor>>

\* generateValue() starts: from here on it reads the outside world.
BeginGenerate(c) ==
    /\ pc[c] = "begin"
    /\ c \in readers
    /\ obj' = [obj EXCEPT ![c] = nextGen]
    /\ nextGen' = nextGen + 1
    /\ Goto(c, "generate")
    /\ UNCHANGED <<muxVars, keyLock, storeVars, key, match, floor>>

\* generateValue() has returned a value or an error; either is stored.
EndGenerate(c) ==
    /\ pc[c] = "generate"
    /\ \A d \in Calls : Caller[d] = c => pc[d] = "idle"
    /\ items' = [items EXCEPT ![key[c]] = Entry(key[c], obj[c])]
    /\ Goto(c, "unlock")
    /\ UNCHANGED <<muxVars, keyLock, now, evicted, nextGen, localVars, floor>>

\* The deferred l.Unlock() and mux.RUnlock(); the locals are gone.
Return(c) ==
    /\ pc[c] = "unlock"
    /\ keyLock' = [keyLock EXCEPT ![LockOf[key[c]]] = None]
    /\ readers' = readers \ {c}
    /\ Goto(c, "idle")
    /\ key' = [key EXCEPT ![c] = None]
    /\ obj' = [obj EXCEPT ![c] = 0]
    /\ UNCHANGED <<writer, blocked, storeVars, nextGen, match, floor>>

-----------------------------------------------------------------------------
(* Delete and Flush, called at the top level *)

Delete(c, m) ==
    /\ pc[c] = "idle"
    /\ Caller[c] = None
    /\ match' = [match EXCEPT ![c] = m]
    /\ Goto(c, "dlock")
    /\ UNCHANGED <<muxVars, keyLock, storeVars, nextGen, key, obj, floor>>

\* Every live entry that matches; an expired one stays for the janitor.
DeleteMatches(c) ==
    /\ pc[c] = "delete"
    /\ HoldsLock(c)
    /\ Remove(match[c] \cap LiveKeys)
    /\ Unlock
    /\ floor' = [k \in Keys |-> IF k \in match[c] THEN nextGen ELSE floor[k]]
    /\ match' = [match EXCEPT ![c] = {}]
    /\ Goto(c, "idle")
    /\ UNCHANGED <<keyLock, now, nextGen, key, obj>>

Flush(c) ==
    /\ pc[c] = "idle"
    /\ Caller[c] = None
    /\ Goto(c, "flock")
    /\ UNCHANGED <<muxVars, keyLock, storeVars, nextGen, localVars, floor>>

\* Mutant of FlushLive: expired entries first, so that live ones reach the
\* final instance.Flush().
FlushLiveSkipped(c) ==
    /\ pc[c] = "flushLive"
    /\ HoldsLock(c)
    /\ IF HasEviction THEN Remove(ExpiredKeys) ELSE UNCHANGED <<items, evicted>>
    /\ Goto(c, "flushExpired")
    /\ UNCHANGED <<muxVars, keyLock, now, nextGen, localVars, floor>>

\* for k := range Items() { Delete(k) }, when an eviction callback is set.
FlushLive(c) ==
    /\ pc[c] = "flushLive"
    /\ HoldsLock(c)
    /\ IF HasEviction THEN Remove(LiveKeys) ELSE UNCHANGED <<items, evicted>>
    /\ Goto(c, "flushExpired")
    /\ UNCHANGED <<muxVars, keyLock, now, nextGen, localVars, floor>>

\* DeleteExpired(), when an eviction callback is set.
FlushExpired(c) ==
    /\ pc[c] = "flushExpired"
    /\ IF HasEviction THEN Remove(ExpiredKeys) ELSE UNCHANGED <<items, evicted>>
    /\ Goto(c, "flushRest")
    /\ UNCHANGED <<muxVars, keyLock, now, nextGen, localVars, floor>>

\* instance.Flush(), which calls no eviction callback, and mux.Unlock().
FlushRest(c) ==
    /\ pc[c] = "flushRest"
    /\ items' = [k \in Keys |-> Absent]
    /\ floor' = [k \in Keys |-> nextGen]
    /\ Unlock
    /\ Goto(c, "idle")
    /\ UNCHANGED <<keyLock, now, evicted, nextGen, localVars>>

-----------------------------------------------------------------------------
(* go-cache's janitor (every minute, without mux) and the clock *)

Janitor ==
    /\ ExpiredKeys # {}
    /\ Remove(ExpiredKeys)
    /\ UNCHANGED <<muxVars, keyLock, now, nextGen, pc, localVars, floor>>

Tick ==
    /\ now < MaxTime
    /\ now' = now + 1
    /\ UNCHANGED <<muxVars, keyLock, items, evicted, nextGen, pc, localVars, floor>>

-----------------------------------------------------------------------------
Init ==
    /\ readers = {}
    /\ writer = None
    /\ blocked = {}
    /\ keyLock = [l \in Locks |-> None]
    /\ items = [k \in Keys |-> Absent]
    /\ now = 1
    /\ evicted = {}
    /\ nextGen = 1
    /\ pc = [c \in Calls |-> "idle"]
    /\ key = [c \in Calls |-> None]
    /\ obj = [c \in Calls |-> 0]
    /\ match = [c \in Calls |-> {}]
    /\ floor = [k \in Keys |-> 0]

\* What a call in progress does next.
Step(c) ==
    \/ RLock(c) \/ LockKey(c) \/ Lookup(c) \/ Touch(c) \/ CheckLimit(c)
    \/ WLock(c) \/ DeleteClosestToExpiration(c) \/ PanicNoCandidate(c)
    \/ BeginGenerate(c) \/ EndGenerate(c) \/ Return(c)
    \/ DeleteMatches(c) \/ FlushLive(c) \/ FlushExpired(c) \/ FlushRest(c)

\* A client makes a call.
Enter(c) ==
    \/ \E k \in Keys : GetOrUpdate(c, k)
    \/ \E m \in Matchers : Delete(c, m)
    \/ Flush(c)

Next == (\E c \in Calls : Enter(c) \/ Step(c)) \/ Janitor \/ Tick

Spec == Init /\ [][Next]_vars

\* Every call keeps running, and generateValue returns.  Go's mutexes hand the
\* lock to a waiter that was passed over (starvation mode), hence the strong
\* fairness of the two acquisitions that compete.
Fairness ==
    \A c \in Calls :
        WF_vars(Step(c)) /\ SF_vars(LockKey(c)) /\ SF_vars(WLock(c))

FairSpec == Spec /\ Fairness

-----------------------------------------------------------------------------
(* Properties *)

\* The type invariant.
TypeOK ==
    /\ readers \subseteq Calls
    /\ writer \in Calls \cup {None}
    /\ blocked \subseteq Calls
    /\ keyLock \in [Locks -> Calls \cup {None}]
    /\ items \in [Keys -> [obj : Nat, exp : Nat]]
    /\ now \in Nat \ {0}
    /\ evicted \subseteq Nat
    /\ nextGen \in Nat \ {0}
    /\ pc \in [Calls -> Labels]
    /\ key \in [Calls -> Keys \cup {None}]
    /\ obj \in [Calls -> Nat]
    /\ match \in [Calls -> SUBSET Keys]
    /\ floor \in [Keys -> Nat]

\* Invalidation is not lost: no value that can still be read or is about to be
\* returned was generated, or was being generated, when its key was last
\* deleted or flushed.  GetOrUpdate holds mux across generateValue for this.
NoStaleValue ==
    /\ \A k \in Keys : Live(k) => items[k].obj >= floor[k]
    /\ \A c \in Calls : pc[c] = "unlock" => obj[c] >= floor[key[c]]

\* "to get-or-update cached data in a single transaction to avoid redundant
\* update activity" (cache.go:26): while a call is on its way to generate a
\* value or generates it, its key has no live value.
NoRedundantGenerate ==
    \A c \in Calls :
        pc[c] \in {"check", "wlock", "evict", "relock", "begin", "generate"}
            => ~Live(key[c])

\* What readers see: the live entries.
View == [k \in Keys |-> Get(k)]

\* MemCache implements the contract.
Contract == INSTANCE CacheContract WITH store <- View, next <- nextGen

ImplementsContract == Contract!Spec

\* c cannot go on before d does: mux held by readers, mux announced or held by
\* a writer, a key lock, or a nested call.
WaitsFor(c, d) ==
    \/ pc[c] \in {"evict", "delete", "flushLive"} /\ d \in readers
    \/ pc[c] \in {"wlock", "dlock", "flock"} /\ writer = d
    \/ pc[c] \in {"lockKey", "begin"} /\ c \in blocked /\ writer = d
    \/ pc[c] = "lockKey" /\ c \in readers /\ keyLock[LockOf[key[c]]] = d
    \/ pc[c] = "generate" /\ Caller[d] = c /\ pc[d] # "idle"

\* No calls wait for each other in a circle over mux, the key locks and the
\* calls that generateValue makes.
NoWaitCycle ==
    \A S \in (SUBSET Calls) \ {{}} :
        \E c \in S : \A d \in S : ~WaitsFor(c, d)

\* An object leaves a cache that has an eviction callback through the callback,
\* or because a new value replaces it after it expired.  This is what makes the
\* order of the two passes in Flush (cache.go:174-177) matter.
DropsEvict ==
    \A k \in Keys :
        (/\ HasEviction
         /\ items[k].obj # 0
         /\ items'[k].obj # items[k].obj)
            => \/ items[k].obj \in evicted'
               \/ ~Live(k) /\ items'[k].obj # 0

EvictionComplete == [][DropsEvict]_vars

\* Concurrent misses check the limit before any of them stores its value, so
\* the cache can exceed it, but only by one entry for each other call.
OvershootBounded ==
    Limit > 0 => ItemCount < Limit + Cardinality(Calls)

\* Every call returns, when no limit is set and generateValue makes no calls.
EveryCallReturns == \A c \in Calls : pc[c] # "idle" ~> pc[c] = "idle"

-----------------------------------------------------------------------------
(* What comments and an assertion of the code say, and the code does not keep *)

\* cache.go:161-163: at the limit there always is an entry to evict.
CandidateFound == \A c \in Calls : pc[c] # "panic"

\* cache.go:71: Limit "evicts the entry closest to expiration", so an entry that
\* never expires does not go while there is a live one that does.
EvictsClosestStep ==
    \A c \in Calls, k \in Keys :
        (pc[c] = "evict" /\ pc'[c] = "relock" /\ Live(k) /\ items'[k] = Absent)
            => (items[k].exp = 0 => \A j \in Keys : Live(j) => items[j].exp = 0)

EvictsClosest == [][EvictsClosestStep]_vars

\* cache.go:100-101: "a ttl of 0 uses the cache default of 1 minute".
DefaultTTLExpires ==
    \A k \in Keys : TTL[k] = 0 /\ items[k].obj # 0 => items[k].exp # 0

\* cache.go:28-30: deletions take the write lock, so that an entry is not
\* evicted "at the same time that it's being used again": what the callback
\* cleaned up is not served again.
EvictedNotLive == \A k \in Keys : Live(k) => items[k].obj \notin evicted
=============================================================================
