------------------------------ MODULE RingPtr ------------------------------
(***************************************************************************)
(* The pointer arithmetic of every hardware queue of mipscore.  A queue of *)
(* N entries is addressed by pointers one bit wider than an index, so a    *)
(* pointer ranges over 0 .. 2N-1, its low bits select an entry and its top *)
(* bit tells a full queue from an empty one.  core.sv (reorder buffer and  *)
(* decode queue), exec.sv (uop and memory queues), l1i.sv (fetch queue)    *)
(* and l1d.sv (memory queue) all repeat these formulas.                    *)
(***************************************************************************)
EXTENDS Integers

CONSTANT N          \* entries of the queue, a power of two >= 2 in the RTL

\* A queue with fewer than two entries has no "next" pointer to speak of.
ASSUME NAssumption == N \in Nat /\ N >= 2

Ptr == 0 .. (2 * N - 1)
Index == 0 .. (N - 1)

\* ptr + 'd1 and ptr + 'd2, truncated to LG+1 bits.
MutIncNoWrap(p) == p + 1
Inc(p) == IF p = 2 * N - 1 THEN 0 ELSE p + 1
Inc2(p) == Inc(Inc(p))

\* A pointer after n = 0, 1 or 2 pushes or pops.
Move(p, n) == IF n = 0 THEN p ELSE IF n = 1 THEN Inc(p) ELSE Inc2(p)

\* ptr[LG-1:0]
Idx(p) == IF p >= N THEN p - N ELSE p

\* t_*_empty, t_*_next_empty, t_*_full, t_*_next_full.
IsEmpty(head, tail) == head = tail
NextEmpty(nhead, tail) == nhead = tail
IsFull(head, tail) == Idx(head) = Idx(tail) /\ head # tail
NextFull(head, ntail) == Idx(head) = Idx(ntail) /\ head # ntail

\* What the two pointers mean: how many entries lie between them.
Count(head, tail) == IF tail >= head THEN tail - head ELSE tail - head + 2 * N

\* The entry that holds the i-th oldest element, i >= 0.
At(head, i) == Idx(IF head + i >= 2 * N THEN head + i - 2 * N ELSE head + i)
=============================================================================
