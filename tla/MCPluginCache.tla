--------------------------- MODULE MCPluginCache ---------------------------
(* Instances of PluginCache for TLC. *)
EXTENDS PluginCache, TLC

CONSTANTS q1, q2, q3

\* A plugin whose root is not cached and whose entries fetch their own children.
Simple ==
    [depth |-> 3, prefetched |-> {}, uncached |-> {1}, expiring |-> {1, 2, 3},
     kinds |-> [t \in {2, 3} |-> {"signal", "delete", "pend", "clear"}]]

\* A file (5) in a directory (4) of a volume (3): the volume's List fetched it,
\* and the directory's is not cached.
Volume ==
    [depth |-> 5, prefetched |-> {4}, uncached |-> {4}, expiring |-> {},
     kinds |-> (5 :> {"signal", "pend"})]

\* An entry (4) that an external plugin listed together with its parent, whose
\* List is cached.
External ==
    [depth |-> 4, prefetched |-> {3}, uncached |-> {}, expiring |-> {},
     kinds |-> (4 :> {"signal"})]

\* A volume whose listings expire.
ExpiringVolume == [Volume EXCEPT !.expiring = 1 .. 5]

\* A volume one of whose nodes is cleared by its path.
ClearedVolume == [Volume EXCEPT !.kinds = (5 :> {"signal", "clear"})]

\* A delete in a listing that expires.
ExternalDelete == [External EXCEPT !.expiring = {3}, !.kinds = (4 :> {"delete"})]

SimpleAndVolume == {Simple, Volume}

\* The trees in which a stale listing survives.
Leaky == {External, ExpiringVolume, ClearedVolume, ExternalDelete}

ASSUME /\ \A tr \in SimpleAndVolume : HasSource(tr)
       /\ \A tr \in Leaky : ~HasSource(tr)

\* Requests are interchangeable.
RequestSymmetry == Permutations(Requests)
=============================================================================
