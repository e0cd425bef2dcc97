----------------------------- MODULE RingQueue -----------------------------
(***************************************************************************)
(* The decode queue of core.sv, and with it the pattern of every queue of  *)
(* the design: four registered pointers (head, next head, tail, next       *)
(* tail), up to two pushes and two pops in one clock, all decided from the *)
(* registered pointers, and a synchronous clear that wins over both.       *)
(***************************************************************************)
EXTENDS RingPtr, Sequences

CONSTANT Value       \* decoded uops

VARIABLES q,         \* r_dq
          head,      \* r_dq_head_ptr
          nhead,     \* r_dq_next_head_ptr
          tail,      \* r_dq_tail_ptr
          ntail      \* r_dq_next_tail_ptr

vars == <<q, head, nhead, tail, ntail>>

Init ==
    /\ q \in [Index -> Value]      \* r_dq has no reset value
    /\ head = 0
    /\ nhead = 1
    /\ tail = 0
    /\ ntail = 1

\* insn_valid and insn_valid_two offer 0, 1 or 2 uops (the set of Fifo.tla);
\* what is accepted depends on t_dq_full and t_dq_next_full.
Offer == {<<>>} \cup {<<v>> : v \in Value} \cup {<<v, w>> : v, w \in Value}

MutAcceptedIgnoresNextFull(ins) ==
    IF Len(ins) = 0 \/ IsFull(head, tail) THEN 0 ELSE Len(ins)
Accepted(ins) ==
    IF Len(ins) = 0 \/ IsFull(head, tail) THEN 0
    ELSE IF Len(ins) = 2 /\ ~NextFull(head, ntail) THEN 2 ELSE 1

MutPushBoth(n, ins) ==
    /\ q' = [i \in Index |-> IF Len(ins) = 2 /\ i = Idx(ntail) THEN ins[2]
                            ELSE IF n >= 1 /\ i = Idx(tail) THEN ins[1]
                            ELSE q[i]]
    /\ tail' = Move(tail, n)
    /\ ntail' = Move(ntail, n)
Push(n, ins) ==
    /\ q' = [i \in Index |-> IF n = 2 /\ i = Idx(ntail) THEN ins[2]
                            ELSE IF n >= 1 /\ i = Idx(tail) THEN ins[1]
                            ELSE q[i]]
    /\ tail' = Move(tail, n)
    /\ ntail' = Move(ntail, n)

\* t_alloc pops one uop and needs a non-empty queue; t_alloc_two pops two and
\* tests t_dq_next_empty on top of t_alloc.
MayPop(n) ==
    /\ n >= 1 => ~IsEmpty(head, tail)
    /\ n = 2 => ~NextEmpty(nhead, tail)

Pop(n) ==
    /\ MayPop(n)
    /\ head' = Move(head, n)
    /\ nhead' = Move(nhead, n)

Clock == \E ins \in Offer, n \in 0 .. 2 : Push(Accepted(ins), ins) /\ Pop(n)

\* t_clr_dq
Clear ==
    /\ head' = 0
    /\ nhead' = 1
    /\ tail' = 0
    /\ ntail' = 1
    /\ q' = q

Next == Clock \/ Clear

Spec == Init /\ [][Next]_vars

-----------------------------------------------------------------------------
\* The pointers stay in their LG+1 bits, and the entries hold uops.
TypeOK ==
    /\ q \in [Index -> Value]
    /\ head \in Ptr
    /\ nhead \in Ptr
    /\ tail \in Ptr
    /\ ntail \in Ptr

(***************************************************************************)
(* The look-ahead pointers are kept in step with the pointers they look    *)
(* ahead of, and the two pointers are never more than N apart: no push has *)
(* overwritten a live entry and no pop has run past the tail, although     *)
(* pushes and pops of the same clock are decided from stale occupancy.     *)
(***************************************************************************)
PointersInStep ==
    /\ nhead = Inc(head)
    /\ ntail = Inc(tail)
    /\ Count(head, tail) <= N

\* The queue the pointers delimit, oldest element first.
Contents == [i \in 1 .. Count(head, tail) |-> q[At(head, i - 1)]]

(***************************************************************************)
(* The queue implements a FIFO of capacity N: elements leave in the order  *)
(* they came, none is lost, duplicated or overwritten.                     *)
(***************************************************************************)
Abstract == INSTANCE Fifo WITH contents <- Contents, Capacity <- N
ImplementsFifo == Abstract!Spec

IInv == TypeOK /\ PointersInStep
=============================================================================
