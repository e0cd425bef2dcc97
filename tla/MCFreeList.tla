----------------------------- MODULE MCFreeList -----------------------------
(***************************************************************************)
(* Two renamed registers, r1 and r2, that start in physical registers 1    *)
(* and 2.                                                                  *)
(***************************************************************************)
EXTENDS FreeList

MCPREG == 1 .. (N_PRF_ENTRIES - 1)
MCLREG == {1, 2}
MCPool == [l \in MCLREG |-> MCPREG]
MCResetRat == [l \in MCLREG |-> l]
=============================================================================
