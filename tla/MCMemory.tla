---- MODULE MCMemory ----
(***************************************************************************)
(* Small memories for TLC.  The first address is the start of a page, and  *)
(* of a block of every alignment but the largest.                          *)
(***************************************************************************)
EXTENDS Memory

MCPlain(kind, size) ==
    [kind |-> kind, system |-> "linux", start |-> 4, size |-> size, alignment |-> 1, commit_size |-> 1]

MCArena(system, size, alignment, commit) ==
    [kind |-> "arena", system |-> system, start |-> 4, size |-> size, alignment |-> alignment,
     commit_size |-> commit]

\* A memory that is smaller than the largest request; a reserved size that is a number of commit_sizes and one that is not; an alignment that the
\* start has and one that it has not; a commit_size below and above the requests.
MCMemories ==
    {MCPlain(kind, size) : kind \in {"buffer", "circular"}, size \in {2, 5, 7}}
    \cup {MCArena(system, size, alignment, commit) :
            system \in {"linux", "windows"}, size \in {8, 10}, alignment \in {2, 8},
            commit \in {2, 8}}
====
