----------------------------- MODULE MCHashTable ----------------------------
(* Six keys in tables of 2, 4, 8, ... places.                           *)
EXTENDS HashTable, TLC

CONSTANTS k1, k2, k3, k4, k5, k6, v1, v2

Hashed(a, b, c, d, e, f) ==
  (k1 :> a) @@ (k2 :> b) @@ (k3 :> c) @@ (k4 :> d) @@ (k5 :> e) @@ (k6 :> f)

(* Keys that meet in small tables only; whose rehash into 16 places fails; *)
(* two of one hash among the three keys that hold their other places.      *)
MCHashes == {Hashed(0, 4, 8, 1, 2, 3), Hashed(12, 6, 9, 14, 22, 23), Hashed(5, 5, 6, 8, 11, 0)}
MCGiven == [k \in {k1, k2, k3, k4, k5, k6} |-> IF k = k1 THEN {v1, v2} ELSE {v1}]
=============================================================================
