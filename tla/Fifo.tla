-------------------------------- MODULE Fifo --------------------------------
(***************************************************************************)
(* What a hardware queue of mipscore promises: a bounded first-in          *)
(* first-out queue that in one clock drops up to two of its oldest         *)
(* elements and appends up to two new ones, or is emptied.                 *)
(***************************************************************************)
EXTENDS Integers, Sequences

CONSTANTS Value, Capacity

VARIABLE contents

\* The queue without its k oldest elements, followed by those of `ins'.
Slide(s, k, ins) ==
    [i \in 1 .. (Len(s) - k + Len(ins)) |->
        IF i <= Len(s) - k THEN s[i + k] ELSE ins[i - (Len(s) - k)]]

Insertion == {<<>>} \cup {<<v>> : v \in Value} \cup {<<v, w>> : v, w \in Value}

Init == contents = <<>>

Clear == contents' = <<>>

Clock ==
    \E k \in 0 .. 2, ins \in Insertion :
        /\ k <= Len(contents)
        /\ Len(contents) + Len(ins) <= Capacity
        /\ contents' = Slide(contents, k, ins)

Next == Clear \/ Clock

Spec == Init /\ [][Next]_contents
=============================================================================
