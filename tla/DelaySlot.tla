----------------------------- MODULE DelaySlot -----------------------------
(***************************************************************************)
(* Control flow as the MIPS architecture defines it.  Two program counters *)
(* say what comes next: pc is executed now and npc after it.  A branch     *)
(* replaces the instruction after the next one, a branch-likely that is    *)
(* not taken skips the next one, and a branch in a delay slot (mode        *)
(* "chaos") is unpredictable.                                              *)
(***************************************************************************)
EXTENDS Integers

CONSTANTS
    PcMod,           \* number of addresses
    Target(_, _, _)  \* Target(insn, pc, gpr): where a taken branch goes

VARIABLES code, pc, npc, mode, gpr

At(p, kinds) == p \in DOMAIN code /\ code[p].op \in kinds
Plus(p, n) == (p + n) % PcMod

Jumps == {"j", "jal", "jr", "jalr"}
Likely == {"beql", "bnel", "blezl", "bgtzl", "bgezl", "bltzl", "bc1tl", "bc1fl"}
Branches == {"beq", "bne", "blez", "bgtz", "bgez", "bltz", "bgezal", "bc1t", "bc1f"}
Transfers == Jumps \cup Likely \cup Branches

Init == npc = Plus(pc, 4) /\ mode = "plain"

\* The next instruction, in the delay slot of nothing.
Go(p) == pc' = p /\ npc' = Plus(p, 4) /\ mode' = "plain"

Straight == /\ ~At(pc, Transfers \cup {"monitor", "break", "syscall"})
            /\ Go(npc)

Take == /\ At(pc, Transfers) /\ mode = "plain"
        /\ pc' = npc /\ npc' = Target(code[pc], pc, gpr) /\ mode' = "slot"

NotTaken == /\ At(pc, Branches) /\ mode = "plain"
            /\ pc' = npc /\ npc' = Plus(npc, 4) /\ mode' = "slot"

Nullify == At(pc, Likely) /\ mode = "plain" /\ Go(Plus(npc, 4))

\* A monitor call returns to the caller, or to where the branch it sits in goes.
Monitor == At(pc, {"monitor"}) /\ \E p \in {gpr[31], npc} : Go(p)

Trap == At(pc, {"break", "syscall"}) /\ \E p \in {pc, npc} : Go(p)

Unpredictable == mode = "chaos" \/ (mode = "slot" /\ At(pc, Transfers))

Next == (Unpredictable \/ Straight \/ Take \/ NotTaken \/ Nullify \/ Monitor \/ Trap) /\ UNCHANGED code
Spec == Init /\ [][Next]_<<code, pc, npc, mode>>
=============================================================================
