----------------------------- MODULE MCJournal -----------------------------
(* Instances of Journal for TLC. *)
EXTENDS Journal, TLC

CONSTANTS t1, t2, t3, f1, j1, j2, j3, j4, j5

\* Four journals fit where there are three, so one is added to the same array and the next moves it.
Three == <<j3, j4, j5>>
None == <<>>

\* Threads are interchangeable, and so are the journals that are recorded to.
Symmetry == Permutations(Threads) \cup Permutations(Journals \ Over)
=============================================================================
