------------------------------- MODULE Rename -------------------------------
(***************************************************************************)
(* Register renaming in core.sv: the speculative and the architectural     *)
(* register alias tables, the speculative and the architectural free list, *)
(* and the renamed uops between allocation and retirement.                 *)
(*                                                                         *)
(* The four register classes (integer, floating point, HI/LO, FP condition *)
(* codes) are renamed by the same code; here LREG and PREG are the union   *)
(* of the logical and of the physical registers of all classes, and        *)
(* Pool[l] is the physical class of l.  When an instruction is allocated,  *)
(* completes or retires is decided elsewhere (Core.tla); here any number   *)
(* the two-wide pipeline allows may be allocated and retired in one clock. *)
(***************************************************************************)
EXTENDS Integers, Sequences

CONSTANTS LREG,          \* logical registers that are ever renamed
          PREG,          \* physical registers
          NoReg,         \* "this uop has no such operand"
          Pool,          \* Pool[l]: physical registers that may hold l
          ResetRat,      \* the alias tables after reset
          SinglePort,    \* logical registers of the HI/LO and FCR classes
          ROB_ENTRIES    \* capacity of the reorder buffer

ASSUME RenameAssumption ==
    /\ NoReg \notin LREG /\ NoReg \notin PREG
    /\ Pool \in [LREG -> SUBSET PREG]
    /\ ResetRat \in [LREG -> PREG]
    /\ \A l \in LREG : ResetRat[l] \in Pool[l]
    /\ \A l, m \in LREG : ResetRat[l] = ResetRat[m] => l = m
    /\ SinglePort \subseteq LREG
    /\ ROB_ENTRIES \in Nat /\ ROB_ENTRIES >= 2

VARIABLES alloc_rat,         \* r_alloc_rat, r_fp_alloc_rat, r_hilo_.., r_fcr_..
          retire_rat,        \* r_retire_rat and its three siblings
          prf_free,          \* r_prf_free and its three siblings
          retire_prf_free,   \* r_retire_prf_free and its three siblings
          rob                \* uops allocated and not retired, oldest first

vars == <<alloc_rat, retire_rat, prf_free, retire_prf_free, rob>>

\* A decoded uop: its destination and one source (srcA, srcB, srcC, hilo_src
\* are all renamed alike).
Uop == [dst : LREG \cup {NoReg}, src : LREG \cup {NoReg}]

Entry == [dst : LREG \cup {NoReg}, pdst : PREG \cup {NoReg}, old : PREG \cup {NoReg},
          src : LREG \cup {NoReg}, psrc : PREG \cup {NoReg}]

\* The renaming state as one value, so that the two halves of a clock compose.
State == [rat |-> alloc_rat, rrat |-> retire_rat, free |-> prf_free,
          rfree |-> retire_prf_free, rob |-> rob]

Becomes(s) ==
    /\ alloc_rat' = s.rat
    /\ retire_rat' = s.rrat
    /\ prf_free' = s.free
    /\ retire_prf_free' = s.rfree
    /\ rob' = s.rob

-----------------------------------------------------------------------------
(* Allocation.                                                             *)

\* t_rob_tail: the first uop reads the registered alias table.
Renamed(s, u, p) ==
    [dst  |-> u.dst,
     pdst |-> IF u.dst = NoReg THEN NoReg ELSE p,
     old  |-> IF u.dst = NoReg THEN NoReg ELSE s.rat[u.dst],
     src  |-> u.src,
     psrc |-> IF u.src = NoReg THEN NoReg ELSE s.rat[u.src]]

\* t_rob_next_tail: the second uop reads the same registered table, with the
\* first uop's destination forwarded to it.
MutRenamedSecondNoForward(s, u, p, v, q) ==
    [dst  |-> v.dst,
     pdst |-> IF v.dst = NoReg THEN NoReg ELSE q,
     old  |-> IF v.dst = NoReg THEN NoReg ELSE IF v.dst = u.dst THEN p ELSE s.rat[v.dst],
     src  |-> v.src,
     psrc |-> IF v.src = NoReg THEN NoReg ELSE s.rat[v.src]]
RenamedSecond(s, u, p, v, q) ==
    [dst  |-> v.dst,
     pdst |-> IF v.dst = NoReg THEN NoReg ELSE q,
     old  |-> IF v.dst = NoReg THEN NoReg ELSE IF v.dst = u.dst THEN p ELSE s.rat[v.dst],
     src  |-> v.src,
     psrc |-> IF v.src = NoReg THEN NoReg ELSE IF v.src = u.dst THEN p ELSE s.rat[v.src]]

Map(rat, l, p) == IF l = NoReg THEN rat ELSE [rat EXCEPT ![l] = p]
Taken(l, p) == IF l = NoReg THEN {} ELSE {p}

AllocOne(s, u, p) ==
    [rat |-> Map(s.rat, u.dst, p), rrat |-> s.rrat,
     free |-> s.free \ Taken(u.dst, p), rfree |-> s.rfree,
     rob |-> Append(s.rob, Renamed(s, u, p))]

MutAllocTwoSwapped(s, u, p, v, q) ==
    [rat |-> Map(Map(s.rat, v.dst, q), u.dst, p), rrat |-> s.rrat,
     free |-> s.free \ (Taken(u.dst, p) \cup Taken(v.dst, q)), rfree |-> s.rfree,
     rob |-> Append(Append(s.rob, Renamed(s, u, p)), RenamedSecond(s, u, p, v, q))]
AllocTwo(s, u, p, v, q) ==
    [rat |-> Map(Map(s.rat, u.dst, p), v.dst, q), rrat |-> s.rrat,
     free |-> s.free \ (Taken(u.dst, p) \cup Taken(v.dst, q)), rfree |-> s.rfree,
     rob |-> Append(Append(s.rob, Renamed(s, u, p)), RenamedSecond(s, u, p, v, q))]

\* t_enough_iprfs and its siblings: the free registers of the right class.
MutChoiceUnchecked(s, u) ==
    IF u.dst = NoReg THEN {NoReg} ELSE (s.free \cap Pool[u.dst]) \cup {NoReg}
Choice(s, u) == IF u.dst = NoReg THEN {NoReg} ELSE s.free \cap Pool[u.dst]

-----------------------------------------------------------------------------
(* Retirement and recovery.                                                *)

\* The head's mapping becomes architectural, the mapping it replaced is free.
MutRetireOneFreesNew(s) ==
    LET h == Head(s.rob) IN
    [rat |-> s.rat, rrat |-> Map(s.rrat, h.dst, h.pdst),
     free |-> s.free \cup Taken(h.dst, h.pdst),
     rfree |-> (s.rfree \ Taken(h.dst, h.pdst)) \cup Taken(h.dst, h.old),
     rob |-> Tail(s.rob)]
MutRetireOneKeepsFree(s) ==
    LET h == Head(s.rob) IN
    [rat |-> s.rat, rrat |-> Map(s.rrat, h.dst, h.pdst),
     free |-> s.free \cup Taken(h.dst, h.old),
     rfree |-> s.rfree \cup Taken(h.dst, h.old),
     rob |-> Tail(s.rob)]
RetireOne(s) ==
    LET h == Head(s.rob) IN
    [rat |-> s.rat, rrat |-> Map(s.rrat, h.dst, h.pdst),
     free |-> s.free \cup Taken(h.dst, h.old),
     rfree |-> (s.rfree \ Taken(h.dst, h.pdst)) \cup Taken(h.dst, h.old),
     rob |-> Tail(s.rob)]

\* t_rat_copy with t_clr_rob.
Recover(s) ==
    [rat |-> s.rrat, rrat |-> s.rrat, free |-> s.rfree, rfree |-> s.rfree, rob |-> <<>>]

Retired(s, n) ==
    IF n = 0 THEN s ELSE IF n = 1 THEN RetireOne(s) ELSE RetireOne(RetireOne(s))

\* t_retire_two never takes a second uop with a HI/LO or FCR destination.
MayRetire(n) ==
    /\ n <= Len(rob)
    /\ n = 2 => rob[2].dst \notin SinglePort

-----------------------------------------------------------------------------
(* One clock.  Allocation is decided from the registered free list, so a   *)
(* register freed by this clock's retirement is not handed out in it.      *)

Clock0 == \E n \in 0 .. 2 : MayRetire(n) /\ Becomes(Retired(State, n))

Clock1 ==
    /\ Len(rob) + 1 <= ROB_ENTRIES
    /\ \E u \in Uop : \E p \in Choice(State, u), n \in 0 .. 2 :
          MayRetire(n) /\ Becomes(Retired(AllocOne(State, u, p), n))

Clock2 ==
    /\ Len(rob) + 2 <= ROB_ENTRIES
    /\ \E u, v \in Uop :
          /\ v.dst \notin SinglePort
          /\ \E p \in Choice(State, u), q \in Choice(State, v), n \in 0 .. 2 :
                /\ p # NoReg => p # q
                /\ MayRetire(n)
                /\ Becomes(Retired(AllocTwo(State, u, p, v, q), n))

RatCopy == Becomes(Recover(State))

Init ==
    /\ alloc_rat = ResetRat
    /\ retire_rat = ResetRat
    /\ prf_free = PREG \ {ResetRat[l] : l \in LREG}
    /\ retire_prf_free = PREG \ {ResetRat[l] : l \in LREG}
    /\ rob = <<>>

Next == Clock0 \/ Clock1 \/ Clock2 \/ RatCopy

Spec == Init /\ [][Next]_vars

-----------------------------------------------------------------------------
(* Correctness.  The parts are operators of a renaming state, so that they *)
(* also speak of the state between the two halves of a clock.              *)

TypeInv(s) ==
    /\ s.rat \in [LREG -> PREG]
    /\ s.rrat \in [LREG -> PREG]
    /\ s.free \in SUBSET PREG
    /\ s.rfree \in SUBSET PREG
    /\ s.rob \in Seq(Entry)
    /\ \A i \in 1 .. Len(s.rob) :
          /\ s.rob[i].dst # NoReg => s.rob[i].pdst \in PREG /\ s.rob[i].old \in PREG
          /\ s.rob[i].src # NoReg => s.rob[i].psrc \in PREG

\* p holds logical register l for the uop at position i: it was renamed by the
\* youngest writer of l before i, or is architectural if there is none.
Sees(s, i, l, p) ==
    \/ \E j \in 1 .. (i - 1) :
          /\ s.rob[j].dst = l
          /\ s.rob[j].pdst = p
          /\ \A k \in (j + 1) .. (i - 1) : s.rob[k].dst # l
    \/ /\ \A j \in 1 .. (i - 1) : s.rob[j].dst # l
       /\ p = s.rrat[l]

RatInv(s) == \A l \in LREG : Sees(s, Len(s.rob) + 1, l, s.rat[l])

OldInv(s) ==
    \A i \in 1 .. Len(s.rob) :
        s.rob[i].dst # NoReg => Sees(s, i, s.rob[i].dst, s.rob[i].old)

SrcInv(s) ==
    \A i \in 1 .. Len(s.rob) :
        s.rob[i].src # NoReg => Sees(s, i, s.rob[i].src, s.rob[i].psrc)

ExclusiveInv(s) ==
    /\ \A l, m \in LREG : s.rrat[l] = s.rrat[m] => l = m
    /\ \A l \in LREG : s.rrat[l] \notin s.free
    /\ \A i \in 1 .. Len(s.rob) : s.rob[i].dst # NoReg =>
          /\ s.rob[i].pdst \notin s.free
          /\ \A l \in LREG : s.rob[i].pdst # s.rrat[l]
          /\ \A j \in 1 .. Len(s.rob) :
                s.rob[j].dst # NoReg /\ s.rob[i].pdst = s.rob[j].pdst => i = j

NoLeakInv(s) ==
    \A p \in PREG :
        \/ p \in s.free
        \/ \E i \in 1 .. Len(s.rob) : s.rob[i].dst # NoReg /\ s.rob[i].pdst = p
        \/ \E l \in LREG : s.rrat[l] = p

RetireInv(s) == \A p \in PREG : p \in s.rfree <=> \A l \in LREG : s.rrat[l] # p

PoolInv(s) ==
    /\ \A l \in LREG : s.rat[l] \in Pool[l] /\ s.rrat[l] \in Pool[l]
    /\ \A i \in 1 .. Len(s.rob) : s.rob[i].dst # NoReg =>
          s.rob[i].pdst \in Pool[s.rob[i].dst]

RenameInv(s) ==
    /\ TypeInv(s)
    /\ RatInv(s)
    /\ OldInv(s)
    /\ SrcInv(s)
    /\ ExclusiveInv(s)
    /\ NoLeakInv(s)
    /\ RetireInv(s)
    /\ PoolInv(s)

\* The alias tables, free lists and reorder buffer have their types, and a uop
\* with a destination or a source has a physical register for it.
TypeOK == TypeInv(State) /\ Len(rob) <= ROB_ENTRIES

(***************************************************************************)
(* Every physical register is in exactly one place: on the free list, the  *)
(* destination of exactly one uop in flight, or the architectural home of  *)
(* exactly one logical register.  No register is handed out twice and none *)
(* leaks, whatever is allocated, retired and squashed.                     *)
(***************************************************************************)
Partition == ExclusiveInv(State) /\ NoLeakInv(State)

(***************************************************************************)
(* The alias table the next uop will read names the youngest uop in flight *)
(* that writes each register, also after recovery from a fault and when    *)
(* two uops of one clock write or read the same register.                  *)
(***************************************************************************)
YoungestWriter == RatInv(State) /\ PoolInv(State)

(***************************************************************************)
(* The operand of a uop in flight stays where its renamed source points:   *)
(* it is the value of the youngest older writer, it is never on the free   *)
(* list and no younger uop has it as destination.                          *)
(***************************************************************************)
SourcesIntact ==
    /\ SrcInv(State)
    /\ \A i \in 1 .. Len(rob) : rob[i].src # NoReg =>
          /\ rob[i].psrc \notin prf_free
          /\ \A j \in i .. Len(rob) : rob[j].dst # NoReg => rob[j].pdst # rob[i].psrc

(***************************************************************************)
(* What recovery installs is sound at every moment a fault can strike: the *)
(* architectural free list is exactly the registers no architectural       *)
(* mapping uses.                                                           *)
(***************************************************************************)
RecoverySound == RetireInv(State)
=============================================================================
