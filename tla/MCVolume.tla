------------------------------ MODULE MCVolume -----------------------------
(* A volume for Volume: with two levels to a listing, a/b is not explored by that of the root. *)
EXTENDS Volume

CONSTANTS c1, c2

A == <<"a">>
AB == <<"a", "b">>
ABC == <<"a", "b", "c">>
AF == <<"a", "f">>
Nested == (A :> "dir") @@ (AB :> "dir") @@ (ABC :> "file") @@ (AF :> "file")
Deep == (A :> "dir") @@ (AB :> "dir") @@ (ABC :> "dir") @@ (<<"a", "b", "c", "d">> :> "file")

MCDenied == {A}
MCVolatile == {AF}
MCOutputs == {<<"x", "y">>, <<"x", "error", "y">>}

ClientSymmetry == Permutations(Clients)
=============================================================================
