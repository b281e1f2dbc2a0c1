---- MODULE MCFile ----
(***************************************************************************)
(* A small file for TLC: at most three bytes, read and written one or two  *)
(* at a time, from positions before, at and behind its end.                *)
(***************************************************************************)
EXTENDS File

CONSTANTS x, y

MCContents == {<< >>, <<x>>, <<x, y>>}

MCData == {<<y>>, <<y, x>>}
====
