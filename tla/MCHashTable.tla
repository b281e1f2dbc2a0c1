---- MODULE MCHashTable ----
(***************************************************************************)
(* A small hash table for TLC: three keys, two of which start at the same  *)
(* slot, the hash of one being a reserved number.                          *)
(***************************************************************************)
EXTENDS HashTable, TLC

CONSTANTS k1, k2, k3, v1

MCHashProc == k1 :> 0 @@ k2 :> 6 @@ k3 :> 5
====
