------------------------------ MODULE MCRename ------------------------------
(***************************************************************************)
(* Two integer registers and HI/LO: l1 and l2 share a pool of four         *)
(* physical registers, hilo has a pool of two.  The two integer registers  *)
(* that are free after reset are interchangeable.                          *)
(***************************************************************************)
EXTENDS Rename, TLC

CONSTANTS l1, l2, hilo, g1, g2, g3, g4, h1, h2

MCLREG == {l1, l2, hilo}
MCPREG == {g1, g2, g3, g4, h1, h2}
MCPool == [l \in MCLREG |-> IF l = hilo THEN {h1, h2} ELSE {g1, g2, g3, g4}]
MCResetRat == [l \in MCLREG |-> IF l = hilo THEN h1 ELSE IF l = l1 THEN g1 ELSE g2]
MCSinglePort == {hilo}
FreeAtReset == Permutations({g3, g4})
=============================================================================
