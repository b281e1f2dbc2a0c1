---- MODULE MCDynArray ----
(***************************************************************************)
(* A small array for TLC: two elements, increments that let the array grow *)
(* by nothing, by one and by two, and capacities around the bound.         *)
(***************************************************************************)
EXTENDS DynArray

CONSTANTS a, b
====
