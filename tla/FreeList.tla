------------------------------ MODULE FreeList ------------------------------
(***************************************************************************)
(* Which register renaming hands out (core.sv).  The integer and the FP    *)
(* free list are split into an even and an odd bank; a priority encoder    *)
(* looks into each, and r_bank_sel, which flips every clock, says which of *)
(* the two serves the first uop and which the second.  Rename.tla leaves   *)
(* the choice open; here it is the code's, and so are the two tests that   *)
(* guard it: t_enough_iprfs in ACTIVE, r_prf_free != 0 in the states that  *)
(* allocate a serializing uop or a monitor call alone.                     *)
(*                                                                         *)
(* Physical registers are numbers.  0 is the home of r0, which is never    *)
(* renamed; an encoder without a free register answers N_PRF_ENTRIES,      *)
(* which truncates to 0.                                                   *)
(***************************************************************************)
EXTENDS Rename, FiniteSetsExt

CONSTANT N_PRF_ENTRIES  \* physical registers, the home of r0 included

ASSUME FreeListAssumption ==
    /\ N_PRF_ENTRIES \in Nat /\ PREG = 1 .. (N_PRF_ENTRIES - 1)
    /\ IsFiniteSet(LREG)
    /\ \A l \in LREG : Pool[l] = PREG

VARIABLE bank_sel       \* r_bank_sel

bankVars == <<vars, bank_sel>>

\* find_first_set, which prefers the highest bit, truncated to LG_PRF_ENTRIES.
FindFirstSet(S) == IF S = {} THEN 0 ELSE Max(S)

\* The registers of a bank, and the free ones: w_prf_free_even, w_prf_free_odd.
InBank(p, even) == (p % 2 = 0) = even
Bank(even) == {p \in prf_free : InBank(p, even)}

PrfEntry == FindFirstSet(Bank(bank_sel))           \* n_prf_entry
MutPrfEntry2Same == FindFirstSet(Bank(bank_sel) \ {PrfEntry})
PrfEntry2 == FindFirstSet(Bank(~bank_sel))         \* n_prf_entry2

\* t_enough_iprfs, t_enough_next_iprfs
EnoughPrfs(u) == u.dst # NoReg => Bank(bank_sel) # {}
EnoughNextPrfs(u) == u.dst # NoReg => Bank(~bank_sel) # {}

\* The sources play no part here.
Writers == {u \in Uop : u.src = NoReg}

Reg(u, p) == IF u.dst = NoReg THEN NoReg ELSE p

-----------------------------------------------------------------------------
Flip == bank_sel' = ~bank_sel

\* A clock without allocation.
Idle == Clock0 /\ Flip

\* ACTIVE: t_alloc and t_alloc_two, with up to two retirements.
Alloc ==
    /\ Len(rob) + 1 <= ROB_ENTRIES
    /\ \E u \in Writers, n \in 0 .. 2 :
          /\ EnoughPrfs(u)
          /\ MayRetire(n)
          /\ Becomes(Retired(AllocOne(State, u, Reg(u, PrfEntry)), n))
    /\ Flip

AllocBoth ==
    /\ Len(rob) + 2 <= ROB_ENTRIES
    /\ \E u, v \in Writers, n \in 0 .. 2 :
          /\ EnoughPrfs(u) /\ EnoughNextPrfs(v)
          /\ v.dst \notin SinglePort
          /\ MayRetire(n)
          /\ Becomes(Retired(AllocTwo(State, u, Reg(u, PrfEntry), v, Reg(v, PrfEntry2)), n))
    /\ Flip

\* ALLOC_FOR_SERIALIZE, ALLOC_FOR_MONITOR: the reorder buffer is empty.
AllocAlone ==
    /\ rob = <<>>
    /\ prf_free # {}
    /\ \E u \in Writers : Becomes(AllocOne(State, u, Reg(u, PrfEntry)))
    /\ Flip

\* RAT
Restore == RatCopy /\ Flip

BankInit == Init /\ bank_sel = FALSE
BankNext == Idle \/ Alloc \/ AllocBoth \/ AllocAlone \/ Restore
BankSpec == BankInit /\ [][BankNext]_bankVars

-----------------------------------------------------------------------------
\* The bank that serves the next uop has nothing to give, and a uop allocated
\* alone would not notice: it looks at both banks.
BankDry == rob = <<>> /\ Bank(bank_sel) = {}

(***************************************************************************)
(* Whatever the banks hold, each clock is a clock of Rename: the encoders  *)
(* give registers that are free and differ from each other.  It holds as   *)
(* long as the logical registers cannot fill a bank.                       *)
(***************************************************************************)
ImplementsRename == Spec

(***************************************************************************)
(* "Check for sufficient resources (ROB entry, physical registers, ...)":  *)
(* a uop that writes a register is allocated only with a physical register *)
(* of its own, never with the home of r0.                                  *)
(***************************************************************************)
HasRegister == \A i \in 1 .. Len(rob) : rob[i].dst # NoReg => rob[i].pdst \in PREG
=============================================================================
