------------------------------- MODULE Iss64 -------------------------------
(***************************************************************************)
(* The 64-bit interpreter of interpret64.cc, compiled into the simulator   *)
(* and not yet called: what its execMips does to a state64_t.  pc, gpr, lo *)
(* and hi have DW bits (s.w = DW); addresses, cpr0, cpr1 and fcr stay 32   *)
(* bits wide.  Handlers whose code is the same as in interpret.cc, on      *)
(* state of the same width, are those of Iss.                              *)
(***************************************************************************)
EXTENDS Iss

u32toi64(u) == SExt(u, WW, DW)

\* *((uint32_t*)&x) = v: the low word of x, the high one stays.
LowWord(x, v) == x - U(x, WW) + U(v, WW)
KeepHigh(s, r, v) == Adv([s EXCEPT !.gpr[r] = LowWord(@, v)])

\* A reference mem + a to a byte beyond the 2^32 of the mapping.
Bounded(s, a, t) == IF a < 2^WW THEN t ELSE Stop(s, "signal")

execSpecial2_64(s, i) ==
    LET rs == s.gpr[i.rs]
        rt == s.gpr[i.rt]
        acc == U(s.hi * 2^WW, DW) | s.lo
        prod == S(rs, DW) * S(rt, DW)
        Split(y) == HiLo(s, u32toi64(U(y, DW) \div 2^WW), u32toi64(y))
        yu == U(U(rs, WW) * U(rt, WW) + acc, DW)
    IN  CASE i.op = "madd"  -> Split(prod + acc)
          [] i.op = "maddu" -> HiLo(s, yu \div 2^WW, U(yu, WW))
          [] i.op = "mul"   -> Gpr(s, i.rd, u32toi64(prod))
          [] i.op = "msub"  -> Split(acc - prod)
          [] i.op = "clz"   -> Gpr(s, i.rd, CHOOSE n \in 0 .. WW : U(rs, WW) \div 2^(WW - n) = 0
                                                   /\ (n = WW \/ U(rs, WW) \div 2^(WW - n - 1) = 1))
          [] OTHER -> Stop(s, "exit")

\* The mask of ext is an int and widens with its sign; ins works on 32 bits and
\* its result widens without one.
execSpecial3_64(s, i) ==
    LET rs == s.gpr[i.rs]
        rt == s.gpr[i.rt]
        mask == U(Shl1(i.rd - i.sa + 1, i.u) - 1, WW)
    IN  CASE i.op = "seb" -> Gpr(s, i.rd, S(rt, ByteBits))
          [] i.op = "seh" -> Gpr(s, i.rd, S(rt, HW))
          [] i.op = "ext" -> Gpr(s, i.rt, U(S(rs, DW) \div 2^i.sa, DW) & U(Shl1(i.rd + 1, i.u) - 1, DW))
          [] i.op = "ins" -> Gpr(s, i.rt, (U(rt, WW) & Inv(mask * 2^i.sa, WW)) | U((rs & mask) * 2^i.sa, WW))
          [] OTHER -> Stop(s, "exit")

generateEA(s, i) == U(s.gpr[i.rs] + S(i.imm, HW), DW)

_lw_64(s, i) == LET a == generateEA(s, i) IN Bounded(s, a, Gpr(s, i.rt, S(Load(s.mem, a, 4), WW)))
_lh_64_unsigned(s, i) == LET a == generateEA(s, i) IN Bounded(s, a, Gpr(s, i.rt, Load(s.mem, a, 2)))
_lh_64(s, i) == LET a == generateEA(s, i) IN Bounded(s, a, Gpr(s, i.rt, S(Load(s.mem, a, 2), HW)))
_lb_64(s, i) == LET a == generateEA(s, i) IN Bounded(s, a, Gpr(s, i.rt, S(get(s.mem, a, 1), ByteBits)))
_lbu_64(s, i) == KeepHigh(s, i.rt, get(s.mem, EA(s, i), 1))
_lhu_64(s, i) == KeepHigh(s, i.rt, Load(s.mem, EA(s, i), 2))
\* The 64-bit register is byte-swapped and the low word of the result stored.
_sw_64(s, i) ==
    LET a == generateEA(s, i)
    IN  Bounded(s, a, Adv([s EXCEPT !.mem = set(@, a, 4, bswap(s.gpr[i.rt], 8))]))
_sc_64(s, i) == [_sw_64(s, i) EXCEPT !.gpr[i.rt] = 1]
_sh_64(s, i) == Mem(s, EA(s, i), 2, s.gpr[i.rt])
_sb_64(s, i) == Adv([s EXCEPT !.mem = set(@, EA(s, i), 1, U(s.gpr[i.rt], ByteBits))])
_mtc1_64_wide(s, i) == Adv([s EXCEPT !.cpr1[i.rd] = s.gpr[i.rt]])
_mtc1_64(s, i) == Adv([s EXCEPT !.cpr1[i.rd] = U(s.gpr[i.rt], WW)])
_mfc1_64(s, i) == Gpr(s, i.rt, s.cpr1[i.rd])

_swl_64(s, i) ==
    LET k == ma(s, i)
        m == Inv(Shl1(ByteBits * (4 - k), i.u) - 1, WW)
    IN  Mem(s, Aligned(s, i), 4, (OldWord(s, i) & m) | (U(s.gpr[i.rt], WW) \div 2^(ByteBits * k)))

_swr_64(s, i) ==
    LET k == 3 - ma(s, i)
    IN  Mem(s, Aligned(s, i), 4, U(s.gpr[i.rt] * 2^(ByteBits * k), WW) | (Low(k) & OldWord(s, i)))

\* lwl computes in int and widens with the sign, lwr in uint32_t and without.
_lwl_64(s, i) ==
    LET k == ma(s, i)
    IN  Gpr(s, i.rt, u32toi64(U(OldWord(s, i) * 2^(ByteBits * k), WW) | (U(s.gpr[i.rt], WW) & Low(k))))

_lwr_64(s, i) ==
    LET k == ma(s, i) + 1
    IN  Gpr(s, i.rt, (U(s.gpr[i.rt], WW) & High(k)) | (OldWord(s, i) \div 2^(ByteBits * (4 - k))))

-----------------------------------------------------------------------------
(* Time is the instruction count over icountMIPS million (enClockFuncts is *)
(* off): less than a second here, so the seconds and the fields of tms are *)
(* zero; the microseconds are the host's contribution.                     *)

fstat(s, h) ==
    [s EXCEPT !.gpr[R_v0] = U(h, s.w), !.mem = PutBytes(@, U(s.gpr[R_a1], WW), HostBytes)]
gettimeofday(s, h) ==
    [s EXCEPT !.gpr[R_v0] = 0, !.mem = Store(set(@, U(s.gpr[R_a0], WW), 4, 0), U(s.gpr[R_a0] + 4, WW), 4, h)]

\* times leaves v0 alone.
times(s) == [s EXCEPT !.mem = Zeroed(@, {s.gpr[R_a0] + 4 * k : k \in 0 .. 3})]

SystemCall_64(s, i) ==
    LET a0 == s.gpr[R_a0]
        V0(v) == [s EXCEPT !.gpr[R_v0] = U(v, s.w)]
        reason == i.imm \div 2
        narrow == [s EXCEPT !.gpr = [r \in DOMAIN @ |-> U(@[r], WW)]]   \* the addresses are cast to uint32_t
    IN  CASE reason \in {6, 8, 9, 38} -> V0(i.h)  \* open, write, lseek, chdir
          [] reason = 7  -> [s EXCEPT !.gpr[R_v0] = U(i.h, s.w), !.mem = per_page_read(s, i.h).mem]
          [] reason = 10 -> IF S(a0, WW) > 2 THEN V0(i.h) ELSE V0(0)
          [] reason = 13 -> fstat(s, i.h)
          [] reason = 33 -> gettimeofday(s, i.h)
          [] reason = 34 -> times(s)
          [] reason = 35 -> [V0(sysArgc) EXCEPT !.mem = getargs(narrow).mem]
          [] reason = 37 -> [V0(a0) EXCEPT !.mem = IF Len(HostBytes) < U(s.gpr[R_a1], WW)
                                                   THEN PutBytes(@, U(a0, WW), Append(HostBytes, 0)) ELSE @]
          [] reason = 55 -> [V0(0) EXCEPT !.mem =
                               Store(ZeroWords(narrow, {a0 + 4, a0 + 8}).mem, U(a0, WW), 4, 2^(WW - 1))]
          [] OTHER -> Stop(s, "exit")
_monitorBody_64(s, i) == Back(SystemCall_64(s, i))

-----------------------------------------------------------------------------
(* Coprocessor 1: no odd register is cleared and none is refused. *)

FpMemory_64(s, i) ==
    CASE i.op = "ldc1" -> Adv(SetF(s, i.rt, DW, Load(s.mem, EA(s, i), 8)))
      [] i.op = "sdc1" -> Mem(s, EA(s, i), 8, FReg(s, i.rt, DW))
      [] i.op = "lwc1" -> Adv(SetF(s, i.rt, WW, Load(s.mem, EA(s, i), 4)))
      [] i.op = "swc1" -> Mem(s, EA(s, i), 4, s.cpr1[i.rt])

\* c1xExec and lxc1 are those of Iss: an address is cut to 32 bits after the sum.
execCoproc1x_64(s, i) ==
    CASE i.op = "lwxc1" -> lxc1(s, i, 4)
      [] i.op = "ldxc1" -> lxc1(s, i, 8)
      [] i.op \in {"fmadd", "fmsub"} /\ i.fmt \in {"S", "D"} -> c1xExec(s, i)
      [] OTHER -> Stop(s, "exit")

_truncw_64(s, i) ==
    IF i.fmt \in {"S", "D"}
    THEN Adv(SetF(s, i.sa, WW, Fpu("to_int", Bits(i.fmt), FReg(s, i.rd, Bits(i.fmt)), 0)))
    ELSE Stop(s, "exit")

\* The conditional moves, and their choice by format.
Moves_64(s, i) ==
    IF i.fmt \notin {"S", "D"} THEN Stop(s, "exit")
    ELSE CASE i.op = "fmovn" -> MoveIf(s, i, Bits(i.fmt), s.gpr[i.rt] # 0)
           [] i.op = "fmovz" -> MoveIf(s, i, Bits(i.fmt), s.gpr[i.rt] = 0)
           [] i.op = "fmovc" -> MoveIf(s, i, Bits(i.fmt), OnCode(s, i))
_movci_64(s, i) == Gpr(s, i.rd, IF OnCode(s, i) THEN s.gpr[i.rs] ELSE s.gpr[i.rd])

Convert_64(s, i) ==
    CASE i.op = "cvts" /\ i.fmt = "D" -> Adv(SetF(s, i.sa, WW, Fpu("to_single", DW, FReg(s, i.rd, DW), 0)))
      [] i.op = "cvts" /\ i.fmt = "W" -> Adv(SetF(s, i.sa, WW, Fpu("of_int", WW, S(s.cpr1[i.rd], WW), 0)))
      [] i.op = "cvtd" /\ i.fmt = "S" -> Adv(SetF(s, i.sa, DW, Fpu("to_double", WW, s.cpr1[i.rd], 0)))
      [] i.op = "cvtd" /\ i.fmt = "W" -> Adv(SetF(s, i.sa, DW, Fpu("of_int", DW, S(s.cpr1[i.rd], WW), 0)))
      [] OTHER -> Stop(s, "exit")

fpCmp_64(s, i) ==
    LET n == Bits(i.fmt)
        cond == IF i.op = "c.lt" THEN "lt" ELSE IF i.op = "c.le" THEN "le" ELSE "eq"
    IN  IF i.fmt \notin {"S", "D"} THEN Stop(s, "exit")
        ELSE Adv([s EXCEPT !.fcr = setBit(@, Fpu(cond, n, FReg(s, i.rd, n), FReg(s, i.rt, n)), i.sa \div 4)])

\* The arithmetic is that of Iss, in either format.
execFP_64(s, i) == execFP(s, i, Bits(i.fmt))

execCoproc1_64(s, i) ==
    CASE i.op = "mfc1" -> _mfc1_64(s, i)
      [] i.op = "mtc1" -> _mtc1_64(s, i)
      [] i.op \in {"c.un", "c.eq", "c.lt", "c.le"} -> fpCmp_64(s, i)
      [] i.op \in FpOps -> execFP_64(s, i)
      [] i.op = "truncw" -> _truncw_64(s, i)
      [] i.op \in {"fmovc", "fmovz", "fmovn"} -> Moves_64(s, i)
      [] i.op \in {"cvts", "cvtd"} -> Convert_64(s, i)
      [] OTHER -> Stop(s, "exit")

-----------------------------------------------------------------------------
(* execMips.  Left shifts and the adds of an immediate are not cut to 32   *)
(* bits; right shifts that convert to uint32_t widen without the sign.     *)

Shifts_64(s, i) ==
    LET rt == s.gpr[i.rt]
        amount == IF i.op \in {"sllv", "srlv", "srav"} THEN s.gpr[i.rs] % WW ELSE i.sa
    IN  CASE i.op \in {"sll", "sllv"} -> Gpr(s, i.rd, rt * 2^amount)
          [] i.op \in {"srl", "srlv"} -> Gpr(s, i.rd, U(rt, WW) \div 2^amount)
          [] i.op \in {"sra", "srav"} -> Gpr(s, i.rd, S(rt, DW) \div 2^amount)
          [] i.op = "movci" -> _movci_64(s, i)
          [] i.op = "monitor" -> _monitorBody_64(s, i)

\* divu tests the whole register and divides by its low word.
MulDiv_64(s, i) ==
    LET rs == s.gpr[i.rs]
        rt == s.gpr[i.rt]
        prod == U(S(rs, DW) * S(rt, DW), DW)
        produ == U(rs, WW) * U(rt, WW)
    IN  CASE i.op \in {"syscall", "break"} -> [s EXCEPT !.brk = 1]
          [] i.op = "sync"  -> Adv(s)
          [] i.op = "mfhi"  -> Gpr(s, i.rd, s.hi)
          [] i.op = "mthi"  -> HiLo(s, rs, s.lo)
          [] i.op = "mflo"  -> Gpr(s, i.rd, s.lo)
          [] i.op = "mtlo"  -> HiLo(s, s.hi, rs)
          [] i.op = "mult"  -> HiLo(s, u32toi64(prod \div 2^WW), u32toi64(prod))
          [] i.op = "multu" -> HiLo(s, LowWord(s.hi, produ \div 2^WW), LowWord(s.lo, produ))
          [] i.op = "div"   -> IF rt = 0 THEN Adv(s)
                               ELSE IF rs = 2^(DW - 1) /\ rt = 2^DW - 1 /\ i.u = 1 THEN Stop(s, "signal")
                               ELSE HiLo(s, Rem(S(rs, DW), S(rt, DW)), Quot(S(rs, DW), S(rt, DW)))
          [] i.op = "divu"  -> IF rt = 0 THEN Adv(s)
                               ELSE IF U(rt, WW) = 0 THEN Stop(s, "signal")
                               ELSE HiLo(s, U(rs, WW) % U(rt, WW), U(rs, WW) \div U(rt, WW))

Arith_64(s, i) ==
    LET rs == s.gpr[i.rs]
        rt == s.gpr[i.rt]
        Rd(v) == Gpr(s, i.rd, v)
    IN  CASE i.op = "add"  -> Stop(s, "abort")
          [] i.op = "addu" -> Rd(u32toi64(rs + rt))
          [] i.op = "subu" -> Rd(u32toi64(rs - rt))
          [] i.op = "and"  -> Rd(rs & rt)
          [] i.op = "or"   -> Rd(rs | rt)
          [] i.op = "xor"  -> Rd(rs ^^ rt)
          [] i.op = "nor"  -> Rd(Inv(rs | rt, DW))
          [] i.op = "slt"  -> Rd(Bool(S(rs, DW) < S(rt, DW)))
          [] i.op = "sltu" -> Rd(Bool(U(rs, WW) < U(rt, WW)))
          [] i.op = "movn" -> Rd(IF rt # 0 THEN rs ELSE s.gpr[i.rd])
          [] i.op = "movz" -> Rd(IF rt = 0 THEN rs ELSE s.gpr[i.rd])
          [] i.op = "teq"  -> IF rs = rt THEN Stop(s, "exit") ELSE Adv(s)
          [] OTHER -> Stop(s, "exit")

Coproc0_64(s, i) ==
    CASE i.op = "mfc0" -> Gpr(s, i.rt, s.cpr0[i.rd])
      [] i.op = "mtc0" -> Adv([s EXCEPT !.cpr0[i.rd] = U(s.gpr[i.rt], WW)])
      [] OTHER -> Stop(s, "exit")

Immediate_64(s, i) ==
    LET rs == s.gpr[i.rs]
        simm64 == S(i.imm, HW)
        Rt(v) == Gpr(s, i.rt, v)
    IN  CASE i.op \in {"addi", "addiu"} -> Rt(rs + simm64)
          [] i.op = "slti"  -> Rt(Bool(S(rs, DW) < simm64))
          [] i.op = "sltiu" -> Rt(Bool(rs < U(simm64, DW)))
          [] i.op = "andi"  -> Rt(rs & i.imm)
          [] i.op = "ori"   -> Rt(rs | i.imm)
          [] i.op = "xori"  -> Rt(rs ^^ i.imm)
          [] i.op = "lui"   -> Rt(u32toi64(i.imm * 2^HW))

LoadStore_64(s, i) ==
    CASE i.op \in {"lw", "ll"} -> _lw_64(s, i)
      [] i.op = "sc"  -> _sc_64(s, i)
      [] i.op = "lb"  -> _lb_64(s, i)
      [] i.op = "lh"  -> _lh_64(s, i)
      [] i.op = "lwl" -> _lwl_64(s, i)
      [] i.op = "lbu" -> _lbu_64(s, i)
      [] i.op = "lhu" -> _lhu_64(s, i)
      [] i.op = "lwr" -> _lwr_64(s, i)
      [] i.op = "sb"  -> _sb_64(s, i)
      [] i.op = "sh"  -> _sh_64(s, i)
      [] i.op = "swl" -> _swl_64(s, i)
      [] i.op = "sw"  -> _sw_64(s, i)
      [] i.op = "swr" -> _swr_64(s, i)
      [] i.op \in {"lwc1", "ldc1", "swc1", "sdc1"} -> FpMemory_64(s, i)
      [] OTHER -> Stop(s, "exit")

\* _bgez_bltz looks at two bits of rt: bgezal is bgez and links nothing.
branch_64(s, i) ==
    LET npc == U(s.pc + 4, WW)
        taken == takeBranch(s, i)
    IN  IF i.op \in Likely /\ ~taken THEN Adv(Adv(s))
        ELSE Slot(s, taken, U(S(i.imm, HW) * 4 + npc, WW), 0)

JumpRegister_64(s, i) ==
    Slot(IF i.op = "jalr" THEN [s EXCEPT !.gpr[R_ra] = U(s.pc + 8, DW)] ELSE s,
         TRUE, U(s.gpr[i.rs], WW), 0)

JType_64(s, i) ==
    LET npc == U(s.pc + 4, WW)
    IN  Slot(IF i.op = "jal" THEN [s EXCEPT !.gpr[R_ra] = U(s.pc + 8, DW)] ELSE s,
             TRUE, U(i.tgt * 4, JumpBits) | (npc - (npc % 2^JumpBits)), 0)
=============================================================================
