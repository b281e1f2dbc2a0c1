---- MODULE MCMemoryDebug ----
(***************************************************************************)
(* A small debugger for TLC: a table of four slots, two addresses that     *)
(* begin at the same slot, and the null address.                           *)
(***************************************************************************)
EXTENDS MemoryDebug, TLC

CONSTANTS p, q

MCHashProc == p :> 2 @@ q :> 6 @@ NULL :> 3
====
