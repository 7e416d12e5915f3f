----------------------------- MODULE MCFuseFile -----------------------------
(* Instances of FuseFile for TLC. *)
EXTENDS FuseFile, TLC

CONSTANTS h1, h2

OneByte == <<1>>

TwoBytes == <<1, 2>>

\* Handles are interchangeable.
HandleSymmetry == Permutations(Handles)

\* The file as it would be if Release held mux: a release that has begun runs to
\* its end before anything else happens.
SerialNext ==
    /\ Next
    /\ \A h \in Handles :
          stage[h] \in {"release", "drop", "clear"} => stage'[h] # stage[h]

SerialSpec == Init /\ [][SerialNext]_vars
=============================================================================
