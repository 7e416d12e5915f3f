---------------------------- MODULE PluginCache ----------------------------
(***************************************************************************)
(* How wash keeps the cached results of List in step with what it does to  *)
(* entries: src/plugin/cache.go (ClearCacheFor and what it calls),         *)
(* Signal and Delete of src/plugin/methodWrappers.go, and FindEntry, which *)
(* walks from a plugin's root down to an entry.                            *)
(*                                                                         *)
(* One path of entries is modelled, Entries = 1 .. Depth: 1 is a plugin's  *)
(* root, n + 1 a child of n.  The registry above it is never cached.       *)
(* Attributes are reduced to a version, and a deleted entry has the        *)
(* version Gone, above all others.  A list result is a snapshot of the     *)
(* versions below the entry: those of its child, and those that the child  *)
(* carries along when the plugin fetched several levels at once.           *)
(*                                                                         *)
(* The store is datastore.MemCache, whose promises are those of            *)
(* CacheContract: a result is generated under the read side of its lock    *)
(* and keys are deleted under the write side.                              *)
(***************************************************************************)
EXTENDS Integers

CONSTANTS
    Trees,      \* paths of different plugins, and what is done there
    Requests,   \* requests, each of which looks an entry up and may act on it
    MaxVersion, \* bound: changes of an entry
    CanFail,    \* a plugin's List may fail
    Absent, Failed

Gone == MaxVersion + 1
Versions == 0 .. Gone

ASSUME TreesAssumption ==
    \A tr \in Trees :
        /\ tr.depth \in Nat \ {0}
        /\ {1} \cap tr.prefetched = {}
        /\ UNION {tr.prefetched, tr.uncached, tr.expiring, DOMAIN tr.kinds} \subseteq 1 .. tr.depth
        /\ \A n \in DOMAIN tr.kinds : tr.kinds[n] \subseteq {"signal", "delete", "pend", "clear"}
ASSUME BoundsAssumption == MaxVersion \in Nat /\ CanFail \in BOOLEAN

VARIABLES
    tree,       \* the path
    remote,     \* the version of each target in the plugin's API
    list,       \* the cached result of each entry's List
    pos,        \* the entry each request has reached, 0 when it is looking for none
    snap,       \* the snapshot that entry came from
    gen,        \* the result of the List a request is running, if it is
    step,       \* what the request does next with the entry it acts on
    target,     \* the entry it acts on
    probe,      \* the entry it looks up next, then the source ancestor
    made,       \* the version its action gave the target
    settled,    \* history: the version each target is known to have reached
    floor       \* history: settled when a walk began

walkVars == <<pos, snap, gen, floor>>
actVars == <<step, target, probe, made, settled>>
vars == <<tree, remote, list, walkVars, actVars>>

Depth == tree.depth             \* the length of the path
Entries == 1 .. Depth
Prefetched == tree.prefetched   \* entries that carry the snapshot their List returns
Uncached == tree.uncached       \* entries whose List has a negative ttl
Expiring == tree.expiring       \* entries whose cached result may expire
Kinds == tree.kinds             \* what may be done to an entry: signal, delete, pend, clear
Targets == DOMAIN Kinds

Snapshot == [Targets -> Versions]

Zero == [t \in Targets |-> 0]

IsResult(r) == r \notin {Absent, Failed}

\* An entry that nothing acts on is always there.
There(s, n) == n \in Targets => s[n] # Gone

-----------------------------------------------------------------------------
(* FindEntry: List, then Load, for every segment of the path *)

FindEntry(q) ==
    /\ pos[q] = 0
    /\ step[q] = "idle"
    /\ pos' = [pos EXCEPT ![q] = 1]
    /\ snap' = [snap EXCEPT ![q] = remote]
    /\ floor' = [floor EXCEPT ![q] = settled]
    /\ UNCHANGED <<tree, remote, list, gen, actVars>>

\* The lookup is over, and its locals with it.
GiveUp(q) ==
    /\ pos' = [pos EXCEPT ![q] = 0]
    /\ snap' = [snap EXCEPT ![q] = Zero]
    /\ floor' = [floor EXCEPT ![q] = Zero]

\* Load: on to the child, if the result has it.
Descend(q, r) ==
    IF IsResult(r) /\ There(r, pos[q] + 1)
    THEN /\ pos' = [pos EXCEPT ![q] = @ + 1]
         /\ snap' = [snap EXCEPT ![q] = r]
         /\ UNCHANGED floor
    ELSE GiveUp(q)

\* What List(n) returns: what n carries, or what the API says.
Listing(q) == IF pos[q] \in Prefetched THEN snap[q] ELSE remote

Walking(q) == pos[q] \in 1 .. (Depth - 1) /\ gen[q] = Absent /\ step[q] = "idle"

\* A request that does not act on what it found.
RequestDone(q) ==
    /\ Walking(q) \/ pos[q] = Depth
    /\ step[q] = "idle"
    /\ GiveUp(q)
    /\ UNCHANGED <<tree, remote, list, gen, actVars>>

ListUncached(q) ==
    /\ Walking(q)
    /\ pos[q] \in Uncached
    /\ Descend(q, Listing(q)) \/ (CanFail /\ GiveUp(q))
    /\ UNCHANGED <<tree, remote, list, gen, actVars>>

ListCached(q) ==
    /\ Walking(q)
    /\ pos[q] \notin Uncached
    /\ list[pos[q]] # Absent
    /\ Descend(q, list[pos[q]])
    /\ UNCHANGED <<tree, remote, list, gen, actVars>>

\* The generate function, under the key's lock.
BeginList(q) ==
    /\ Walking(q)
    /\ pos[q] \notin Uncached
    /\ list[pos[q]] = Absent
    /\ \A v \in Requests : pos[v] = pos[q] => gen[v] = Absent
    /\ gen' \in {[gen EXCEPT ![q] = r] : r \in {Listing(q)} \cup IF CanFail THEN {Failed} ELSE {}}
    /\ UNCHANGED <<tree, remote, list, pos, snap, floor, actVars>>

EndList(q) ==
    /\ gen[q] # Absent
    /\ list' = [list EXCEPT ![pos[q]] = gen[q]]
    /\ gen' = [gen EXCEPT ![q] = Absent]
    /\ Descend(q, gen[q])
    /\ UNCHANGED <<tree, remote, actVars>>

-----------------------------------------------------------------------------
(* Signal, Delete and the DELETE handler of the API's cache endpoint *)

\* The request has found the entry; it acts on it and looks for no other.
At(q, t) == pos[q] = t /\ gen[q] = Absent /\ remote[t] # Gone

Start(q, t, v, s) ==
    /\ remote' = [remote EXCEPT ![t] = v]
    /\ target' = [target EXCEPT ![q] = t]
    /\ made' = [made EXCEPT ![q] = v]
    /\ step' = [step EXCEPT ![q] = s]
    /\ GiveUp(q)
    /\ UNCHANGED <<tree, list, gen, probe, settled>>

\* Signal, or a write through FUSE: the entry changes and stays.
Signal(q, t) ==
    /\ "signal" \in Kinds[t]
    /\ At(q, t)
    /\ remote[t] < MaxVersion
    /\ Start(q, t, remote[t] + 1, "delete")

\* Delete whose entry is gone when the plugin returns.
Delete(q, t) ==
    /\ "delete" \in Kinds[t]
    /\ At(q, t)
    /\ Start(q, t, Gone, "delete_keep")

\* Delete whose entry will be gone later: for now it only changes.
DeletePending(q, t) ==
    /\ "pend" \in Kinds[t]
    /\ At(q, t)
    /\ remote[t] < MaxVersion
    /\ Start(q, t, remote[t] + 1, "delete")

\* cacheHandler, given a path: nothing changes, the caller wants what there is now.
CacheHandler(q, t) ==
    /\ "clear" \in Kinds[t]
    /\ pos[q] = 0 /\ step[q] = "idle"
    /\ Start(q, t, remote[t], "delete")

-----------------------------------------------------------------------------
(* ClearCacheFor *)

\* Keys are deleted when no List is being generated.
NoneGenerating == \A q \in Requests : gen[q] = Absent

Newer(a, b) == IF a > b THEN a ELSE b

Settle(q) ==
    /\ step' = [step EXCEPT ![q] = "idle"]
    /\ probe' = [probe EXCEPT ![q] = 1]
    /\ made' = [made EXCEPT ![q] = 0]
    /\ target' = [target EXCEPT ![q] = 1]
    /\ settled' = [settled EXCEPT ![target[q]] = Newer(@, made[q])]

\* Mutant of DeleteKeys: without the write lock.
DeleteKeysUnlocked(q) ==
    /\ step[q] \in {"delete", "delete_keep"}
    /\ list' = [n \in Entries |-> IF n >= target[q] THEN Absent ELSE list[n]]
    /\ probe' = [probe EXCEPT ![q] = target[q]]
    /\ step' = [step EXCEPT ![q] = IF step[q] = "delete" THEN "probe" ELSE "remove"]
    /\ UNCHANGED <<tree, remote, walkVars, target, made, settled>>

\* allOpKeysIncludingChildrenRegex
DeleteKeys(q) ==
    /\ step[q] \in {"delete", "delete_keep"}
    /\ NoneGenerating
    /\ list' = [n \in Entries |-> IF n >= target[q] THEN Absent ELSE list[n]]
    /\ probe' = [probe EXCEPT ![q] = target[q]]
    /\ step' = [step EXCEPT ![q] = IF step[q] = "delete" THEN "probe" ELSE "remove"]
    /\ UNCHANGED <<tree, remote, walkVars, target, made, settled>>

\* The entry as its parent's cached List has it.  A root's parent is "", which
\* no list is cached under.
getCachedEntry(n) == n > 1 /\ IsResult(list[n - 1]) /\ There(list[n - 1], n)

FoundSource(n) == getCachedEntry(n) /\ n \notin Prefetched

\* For the target itself the parent is the source; further up, the entry found.
Source(q) == IF probe[q] = target[q] THEN probe[q] - 1 ELSE probe[q]

\* getSourceAncestorPathFromCache, one lookup a step.
Probe(q) ==
    /\ step[q] = "probe"
    /\ IF FoundSource(probe[q])
       THEN /\ probe' = [probe EXCEPT ![q] = Source(q)]
            /\ step' = [step EXCEPT ![q] = "delete_list"]
            /\ UNCHANGED <<target, made, settled>>
       ELSE IF probe[q] = 1
       THEN Settle(q)
       ELSE /\ probe' = [probe EXCEPT ![q] = @ - 1]
            /\ UNCHANGED <<step, target, made, settled>>
    /\ UNCHANGED <<tree, remote, list, walkVars>>

\* opKeyRegex: the List of the source ancestor, and nothing below it.
DeleteSourceList(q) ==
    /\ step[q] = "delete_list"
    /\ NoneGenerating
    /\ list' = [list EXCEPT ![probe[q]] = Absent]
    /\ Settle(q)
    /\ UNCHANGED <<tree, remote, walkVars>>

\* The end of Delete: EntryMap.Delete on the parent's cached result.
RemoveFromParent(q) ==
    LET parent == target[q] - 1 IN
    /\ step[q] = "remove"
    /\ list' = IF parent \in Entries /\ IsResult(list[parent])
               THEN [list EXCEPT ![parent][target[q]] = Gone]
               ELSE list
    /\ Settle(q)
    /\ UNCHANGED <<tree, remote, walkVars>>

-----------------------------------------------------------------------------
Expire(n) ==
    /\ n \in Expiring
    /\ list[n] # Absent
    /\ list' = [list EXCEPT ![n] = Absent]
    /\ UNCHANGED <<tree, remote, walkVars, actVars>>

Init ==
    /\ tree \in Trees
    /\ remote = Zero
    /\ list = [n \in Entries |-> Absent]
    /\ pos = [q \in Requests |-> 0]
    /\ snap = [q \in Requests |-> Zero]
    /\ gen = [q \in Requests |-> Absent]
    /\ floor = [q \in Requests |-> Zero]
    /\ step = [q \in Requests |-> "idle"]
    /\ target = [q \in Requests |-> 1]
    /\ probe = [q \in Requests |-> 1]
    /\ made = [q \in Requests |-> 0]
    /\ settled = Zero

Next ==
    \/ \E q \in Requests :
          \/ FindEntry(q) \/ RequestDone(q) \/ ListUncached(q)
          \/ ListCached(q) \/ BeginList(q) \/ EndList(q)
    \/ \E q \in Requests :
          \/ \E t \in Targets :
                Signal(q, t) \/ Delete(q, t) \/ DeletePending(q, t) \/ CacheHandler(q, t)
          \/ DeleteKeys(q) \/ Probe(q) \/ DeleteSourceList(q) \/ RemoveFromParent(q)
    \/ \E n \in Entries : Expire(n)

Spec == Init /\ [][Next]_vars

-----------------------------------------------------------------------------
(* Properties *)

\* The type invariant.
TypeOK ==
    /\ tree \in Trees
    /\ remote \in Snapshot /\ settled \in Snapshot
    /\ list \in [Entries -> Snapshot \union {Absent, Failed}]
    /\ pos \in [Requests -> 0 .. Depth]
    /\ snap \in [Requests -> Snapshot]
    /\ floor \in [Requests -> Snapshot]
    /\ gen \in [Requests -> Snapshot \union {Absent, Failed}]
    /\ step \in [Requests -> {"idle", "delete", "delete_keep", "probe", "delete_list", "remove"}]
    /\ target \in [Requests -> Entries]
    /\ probe \in [Requests -> Entries]
    /\ made \in [Requests -> Versions]

\* methodWrappers.go:258-259, 271-278: after Signal, Delete or a cleared cache
\* has returned, a lookup that begins finds the entry no older than that left
\* it, and does not find one that was deleted.
FreshAfterAction ==
    \A q \in Requests : pos[q] \in Targets => snap[q][pos[q]] >= floor[q][pos[q]]

-----------------------------------------------------------------------------
(* The paths on which nothing stale survives *)

\* What is acted on is fetched by its parent's List, and so are its children by its own.
Plain(tr) == \A t \in DOMAIN tr.kinds : {t - 1, t} \intersect tr.prefetched = {}

\* A node t of a volume s, below directories that the List of s has fetched and whose own are not
\* cached.  The listing that has s does not expire and nobody clears it by a path; a node that is
\* deleted at once is removed from the volume's own map (Volume).
InVolume(tr, s, t) ==
    /\ DOMAIN tr.kinds = {t} /\ tr.kinds[t] \subseteq {"signal", "pend"}
    /\ s \in 2 .. (t - 1) /\ {s, t} \intersect tr.prefetched = {}
    /\ (s + 1) .. (t - 1) \subseteq tr.prefetched \intersect tr.uncached
    /\ s - 1 \notin tr.uncached \union tr.expiring

HasSource(tr) == Plain(tr) \/ \E s, t \in 1 .. tr.depth : InVolume(tr, s, t)
=============================================================================
