----------------------------- MODULE MCMemCache -----------------------------
(* Instances of MemCache for TLC. *)
EXTENDS MemCache

CONSTANTS c1, c2, c3, k1, k2, k3, l1, l2, l3

\* Only top-level calls.
Flat == [c \in Calls |-> None]

\* c2 is made by the generateValue of c1.
Nested == [c \in Calls |-> IF c = c2 THEN c1 ELSE None]

\* A key lock of its own for every key (or fewer keys than locks).
OwnLock == [k \in Keys |-> IF k = k1 THEN l1 ELSE IF k = k2 THEN l2 ELSE l3]

\* Two keys of a category whose hashes fall on the same of its 256 locks.
SharedLock == [k \in Keys |-> l1]

\* k1's entries expire after a tick, the others' never.
MixedTTL == [k \in Keys |-> IF k = k1 THEN 1 ELSE -1]

\* No entry expires.
NoTTL == [k \in Keys |-> -1]

\* The default ttl for k3, the others' entries expire after a tick.
DefaultTTL == [k \in Keys |-> IF k = k3 THEN 0 ELSE 1]

\* A matcher for one key, and one for all.
SomeMatchers == {{k1}, Keys}
=============================================================================
