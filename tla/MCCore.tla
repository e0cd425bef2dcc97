------------------------------- MODULE MCCore -------------------------------
(***************************************************************************)
(* Programs for the core, and the view under which TLC explores it.        *)
(***************************************************************************)
EXTENDS Core

I(op, tgt) == [op |-> op, tgt |-> tgt]

\* Interruptible: both kinds of conditional branch, one behind the other, with a
\* load and a single-cycle uop in their delay slots; serializing uops; a divide
\* that the halt has to wait for.  The illegal instruction is not on the path.
Interrupts == <<I("br", 1), I("load", 0), I("brl", 6), I("alu", 0), I("mfc0", 0),
                I("monitor", 8), I("ii", 0), I("getcycle", 9), I("div", 0), I("break", 0)>>

\* A load in a delay slot, both kinds of flush, and a break that is resumed.
LiveMix == <<I("br", 3), I("load", 0), I("flushline", 4), I("monitor", 6), I("ii", 0), I("break", 0)>>

\* A serializing uop in a delay slot.
SlotTaken == <<I("br", 4), I("mfc0", 0), I("nop", 0), I("break", 0)>>

\* Interruptible: FP divides in a delay slot, on the wrong path, and on the path
\* next to a load.
Divides == <<I("br", 1), I("fdiv", 0), I("fdiv", 0), I("load", 0)>>

(***************************************************************************)
(* The reorder buffer seen from its head.  Every action treats the slots   *)
(* alike, t_clr_rob (which moves the head to slot 0) blanks them all, and  *)
(* NoStaleCompletion says that the units are empty by then, so two states  *)
(* with the same view have the same futures up to a rotation of the slots, *)
(* and no invariant can tell a rotated state from the original.            *)
(***************************************************************************)
At(i) == R!At(head, i)
FromHead ==
    <<fsm, got_ack, drain, memq_empty, dq, in_ds, fe, l1d, flush_state, retire_valid, arch, matched,
      R!Count(head, tail),
      [i \in Slots |-> <<rob[At(i)], At(i) \in complete, At(i) \in inflight, x[At(i)],
                         fdiv.st # "idle" /\ fdiv.slot = At(i)>>],
      fdiv.st>>
=============================================================================
