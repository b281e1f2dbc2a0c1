---- MODULE List ----
(***************************************************************************)
(* What dyn_array.c promises: a sequence, and what each call does to it.   *)
(* Nothing of its block, its capacity or of how it grows can be told from  *)
(* the elements.                                                           *)
(***************************************************************************)
EXTENDS Integers, Sequences

CONSTANTS Item      \* elements, and what an element is before it is written

VARIABLES
    list,   \* the elements
    next,   \* the number of elements behind which an iteration goes on
    call    \* the last call: its name, and what it was asked or answered

vars == <<list, next, call>>

Init == list = << >> /\ next = 0 /\ call = <<"init">>

\* What the call of this step is; indices count from 0.
Called(name) == call'[1] = name
Value  == call'[2]
Values == call'[2]
Index  == call'[2] + 1
IsIndex == Index \in 1 .. Len(list)

AddBack == Called("add_back") /\ list' = Append(list, Value) /\ UNCHANGED next

\* What an empty element is before it is written is not promised.
AddBackEmpty ==
    /\ Called("add_back_empty")
    /\ \E v \in Item : list' = Append(list, v)
    /\ UNCHANGED next

\* Nor is what an element becomes that is given by its place in a block that does not stay.
AddBackOwn ==
    /\ Called("add_back_own")
    /\ IsIndex
    /\ \E v \in IF call'[3] THEN {list[Index]} ELSE Item : list' = Append(list, v)
    /\ UNCHANGED next

AddBackMany == Called("add_back_many") /\ list' = list \o Values /\ UNCHANGED next

WriteAt ==
    /\ Called("at")
    /\ IsIndex
    /\ list' = [list EXCEPT ![Index] = call'[3]]
    /\ UNCHANGED next

RemoveBack ==
    /\ Called("remove_back")
    /\ list # << >>
    /\ list' = SubSeq(list, 1, Len(list) - 1)
    /\ UNCHANGED next

\* The n-th element is taken out, the order of the others is kept.
Without(n) == [m \in 1 .. Len(list) - 1 |-> IF m < n THEN list[m] ELSE list[m + 1]]

\* All that is left whatever order memcpy copies in: those before the n-th are as they were, and in
\* every place behind is an element that was behind it.
Closed(n) ==
    /\ list' \in Seq(Item)
    /\ Len(list') = Len(list) - 1
    /\ \A m \in 1 .. Len(list) - 1 :
          IF m < n THEN list'[m] = list[m] ELSE \E k \in m + 1 .. Len(list) : list'[m] = list[k]

TakeOut(n, in_order) == IF in_order THEN list' = Without(n) ELSE Closed(n)

RemoveAt == Called("remove_at") /\ IsIndex /\ TakeOut(Index, call'[3]) /\ UNCHANGED next

SetAll == Called("set_all") /\ list' = [n \in 1 .. Len(list) |-> Value] /\ UNCHANGED next

Clear == Called("clear") /\ list' = << >> /\ UNCHANGED next

Resize ==
    /\ Called("resize")
    /\ list' = SubSeq(list, 1, IF call'[2] < Len(list) THEN call'[2] ELSE Len(list))
    /\ UNCHANGED next

Deinit == Called("deinit") /\ UNCHANGED <<list, next>>

\* An iteration gives its body the elements one after another, the added ones too, and ends when none
\* is left.
For == Called("for") /\ next = 0 /\ UNCHANGED <<list, next>>

Gives == next < Len(list) /\ Value = list[next + 1]

ForRead == Called("for_read") /\ Gives /\ next' = next + 1 /\ UNCHANGED list

ForAddBack ==
    /\ Called("for_add_back")
    /\ Gives
    /\ list' = Append(list, call'[3])
    /\ next' = next + 1

\* Whether the element behind one that the body takes out is given is not promised.
ForRemoveAt ==
    /\ Called("for_remove_at")
    /\ Gives
    /\ TakeOut(next + 1, call'[3])
    /\ next' \in {next, next + 1}

ForEnd == Called("for_end") /\ next >= Len(list) /\ next' = 0 /\ UNCHANGED list

Next ==
    \/ AddBack \/ AddBackEmpty \/ AddBackOwn \/ AddBackMany
    \/ WriteAt \/ SetAll
    \/ RemoveBack \/ RemoveAt
    \/ Clear \/ Resize \/ Deinit
    \/ For \/ ForRead \/ ForAddBack \/ ForRemoveAt \/ ForEnd

Spec == Init /\ [][Next]_vars
====
