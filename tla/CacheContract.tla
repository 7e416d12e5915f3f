--------------------------- MODULE CacheContract ---------------------------
(***************************************************************************)
(* What datastore.Cache promises its users, with no locks and no clock:    *)
(* an atomic map in which a value appears only where there is none, was    *)
(* generated after the key was last invalidated, and stays until it is     *)
(* invalidated or expires.  MemCache implements it.                        *)
(***************************************************************************)
EXTENDS Naturals

CONSTANT Keys

VARIABLES
    store,  \* the value a reader gets for each key; 0 when there is none
    floor,  \* values below this number must not be served for the key
    next    \* values are numbered in the order their generation started

cvars == <<store, floor, next>>

Init ==
    /\ store = [k \in Keys |-> 0]
    /\ floor = [k \in Keys |-> 0]
    /\ next = 1

\* A miss: some caller starts to generate a value.
Generate ==
    /\ next' = next + 1
    /\ UNCHANGED <<store, floor>>

\* The value becomes visible, unless there is one or it is outdated.
Publish(k) ==
    /\ store[k] = 0
    /\ \E v \in 1 .. (next - 1) :
          /\ v >= floor[k]
          /\ store' = [store EXCEPT ![k] = v]
    /\ UNCHANGED <<floor, next>>

\* Entries expire, or are evicted to make room.
Forget(K) ==
    /\ store' = [k \in Keys |-> IF k \in K THEN 0 ELSE store[k]]
    /\ UNCHANGED <<floor, next>>

\* Delete and Flush.
Invalidate(K) ==
    /\ store' = [k \in Keys |-> IF k \in K THEN 0 ELSE store[k]]
    /\ floor' = [k \in Keys |-> IF k \in K THEN next ELSE floor[k]]
    /\ UNCHANGED next

Next ==
    \/ Generate
    \/ \E k \in Keys : Publish(k)
    \/ \E K \in SUBSET Keys : Forget(K) \/ Invalidate(K)

Spec == Init /\ [][Next]_cvars
=============================================================================
