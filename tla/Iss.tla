-------------------------------- MODULE Iss --------------------------------
(***************************************************************************)
(* The instruction-set simulator of interpret.cc: what execMips does to a  *)
(* state_t, one instruction at a time.                                     *)
(*                                                                         *)
(* An instruction is the record of its decoded fields: op names the opcode *)
(* and function code, rs, rt, rd, sa, imm and tgt are the bit fields, fmt  *)
(* the floating-point format.  The coprocessor 1 fields sit where the      *)
(* integer ones do: ft is rt, fs is rd, fd is sa.  u and h are not fields  *)
(* but what the executing machine contributes: the result of an undefined  *)
(* shift (see Shl1) and the result of a host system call.                  *)
(*                                                                         *)
(* A state is the record of state_t: pc, gpr, lo, hi, cpr0, cpr1, fcr      *)
(* (fcr1[CP1_CR25]), icnt, brk, mem, and st, which leaves "run" when the   *)
(* process exits ("exit"), fails an assertion ("abort") or dies of a       *)
(* signal ("signal").  frames is the C++ call stack: execMips runs a delay *)
(* slot by calling itself from inside the branch, so a frame holds what    *)
(* the branch does once the slot returns.  w is the width of pc, gpr, lo   *)
(* and hi: WW here, DW for the state64_t of Iss64.  insn_histo and         *)
(* cpr1_state are written and never read; they are left out.               *)
(***************************************************************************)
EXTENDS Word, FiniteSetsExt

CONSTANTS
    Fpu(_, _, _, _),  \* host arithmetic: Fpu(operation, bits of the format, a, b)
    HostBytes,        \* what the host supplies to read and getcwd, and the name of the program
    ArgWords,         \* option args: the arguments of the program
    MARGS             \* arguments the simulator has room for

ASSUME IssAssumption ==
    /\ HostBytes \in Seq(Unsigned(ByteBits)) /\ ArgWords \in Seq(Seq(Unsigned(ByteBits)))
    /\ MARGS \in Nat /\ MARGS + 1 < 2^WW

SR == 12              \* CPR0_SR
R_v0 == 2
R_a0 == 4
R_a1 == 5
R_a2 == 6
R_ra == 31

Adv(s) == [s EXCEPT !.pc = U(@ + 4, s.w)]
Gpr(s, r, v) == Adv([s EXCEPT !.gpr[r] = U(v, s.w)])
HiLo(s, hi, lo) == Adv([s EXCEPT !.hi = U(hi, s.w), !.lo = U(lo, s.w)])
Mem(s, a, k, v) == Adv([s EXCEPT !.mem = Store(@, a, k, v)])
Stop(s, why) == [s EXCEPT !.st = why]
Zero(f) == [r \in DOMAIN f |-> 0]

\* A fresh state_t, and what initState sets in the status register.
NewState(pc, gprs, cpr0s, cpr1s, mem) ==
    [pc |-> pc, gpr |-> Zero(gprs), lo |-> 0, hi |-> 0, cpr0 |-> Zero(cpr0s), cpr1 |-> Zero(cpr1s),
     fcr |-> 0, icnt |-> 0, brk |-> 0, mem |-> mem, st |-> "run", w |-> WW, frames |-> <<>>]
initState(s) == [s EXCEPT !.cpr0[SR] = (@ | 2^2) | U(2^22, WW)]

getConditionCode(s, cc) == ((s.fcr & 2^cc) \div 2^cc) & 1
setConditionCode(s, v, cc) ==
    LET m1 == Inv(2^cc, WW)
        m2 == Inv(v - 1, WW)
    IN  [s EXCEPT !.fcr = (@ & m1) | (2^cc & m2)]

\* Memory outside the program is zero, and zero is a nop.
Nop == [op |-> "sll", rs |-> 0, rt |-> 0, rd |-> 0, sa |-> 0, imm |-> 0, tgt |-> 0, fmt |-> "S", u |-> 0, h |-> 0]

\* The reserved instructions a program calls the monitor through.
mkMonitorVectors(code, base, size) ==
    [p \in DOMAIN code \cup {base + 4 * k : k \in 0 .. (size \div 4) - 1} |->
        IF p \in base .. base + size - 1 THEN [Nop EXCEPT !.op = "monitor", !.imm = (p - base) \div 4] ELSE code[p]]

-----------------------------------------------------------------------------
(* SPECIAL2 and SPECIAL3 *)

Acc_hi_only(s) == U(s.hi * 2^WW, DW)

\* The 64-bit accumulator of madd, maddu and msub: lo is converted from int32_t,
\* so its sign bit is or-ed into hi.
Acc(s) == U(s.hi * 2^WW, DW) | SExt(s.lo, WW, DW)

execSpecial2(s, i) ==
    LET rs == s.gpr[i.rs]
        rt == s.gpr[i.rt]
        sprod == S(rs, WW) * S(rt, WW)
        Split(y) == HiLo(s, U(y, DW) \div 2^WW, y)
    IN  CASE i.op = "madd"  -> Split(sprod + Acc(s))
          [] i.op = "maddu" -> Split(rs * rt + Acc(s))
          [] i.op = "mul"   -> Gpr(s, i.rd, sprod)
          [] i.op = "msub"  -> Split(Acc(s) - sprod)
          [] i.op = "clz"   -> Gpr(s, i.rd, CHOOSE n \in 0 .. WW : rs \div 2^(WW - n) = 0
                                                   /\ (n = WW \/ rs \div 2^(WW - n - 1) = 1))
          [] OTHER -> Stop(s, "exit")

execSpecial3(s, i) ==
    LET rs == s.gpr[i.rs]
        rt == s.gpr[i.rt]
        mask == U(Shl1(i.rd - i.sa + 1, i.u) - 1, WW)
    IN  CASE i.op = "seb" -> Gpr(s, i.rd, S(rt, ByteBits))
          [] i.op = "seh" -> Gpr(s, i.rd, S(rt, HW))
          [] i.op = "ext" -> Gpr(s, i.rt, U(S(rs, WW) \div 2^i.sa, WW) & U(Shl1(i.rd + 1, i.u) - 1, WW))
          [] i.op = "ins" -> Gpr(s, i.rt, (rt & Inv(mask * 2^i.sa, WW)) | U((rs & mask) * 2^i.sa, WW))
          [] i.op = "rdhwr" -> IF i.rd = 29 THEN Gpr(s, i.rt, s.cpr0[29]) ELSE Stop(s, "abort")
          [] OTHER -> Stop(s, "exit")

-----------------------------------------------------------------------------
(* Loads and stores *)

EA(s, i) == U(s.gpr[i.rs] + S(i.imm, HW), WW)

\* The low k bytes of a word as a mask, and the bytes above them.
Low(k) == 2^(ByteBits * k) - 1
High(k) == Inv(Low(k), WW)

_lw(s, i)  == Gpr(s, i.rt, Load(s.mem, EA(s, i), 4))
_lh(s, i)  == Gpr(s, i.rt, S(Load(s.mem, EA(s, i), 2), HW))
_lb(s, i)  == Gpr(s, i.rt, S(get(s.mem, EA(s, i), 1), ByteBits))
_lbu(s, i) == Gpr(s, i.rt, get(s.mem, EA(s, i), 1))
_lhu(s, i) == Gpr(s, i.rt, Load(s.mem, EA(s, i), 2))
_sw(s, i)  == Mem(s, EA(s, i), 4, s.gpr[i.rt])
_sc(s, i)  == [Mem(s, EA(s, i), 4, s.gpr[i.rt]) EXCEPT !.gpr[i.rt] = 1]
_sh(s, i)  == Mem(s, EA(s, i), 2, s.gpr[i.rt])
_sb(s, i)  == Adv([s EXCEPT !.mem = set(@, EA(s, i), 1, U(s.gpr[i.rt], ByteBits))])

\* The aligned word of an unaligned access, and the place in it.
Aligned(s, i) == EA(s, i) - (EA(s, i) % 4)
ma(s, i) == IF EL THEN 3 - (EA(s, i) % 4) ELSE EA(s, i) % 4
OldWord(s, i) == Load(s.mem, Aligned(s, i), 4)

_swl(s, i) ==
    LET k == ma(s, i)
        m == Inv(Shl1(ByteBits * (4 - k), i.u) - 1, WW)
    IN  Mem(s, Aligned(s, i), 4, (OldWord(s, i) & m) | (s.gpr[i.rt] \div 2^(ByteBits * k)))

_swr_keeps_more(s, i) ==
    LET k == 3 - ma(s, i)
    IN  Mem(s, Aligned(s, i), 4, U(s.gpr[i.rt] * 2^(ByteBits * k), WW) | (Low(k + 1) & OldWord(s, i)))

_swr(s, i) ==
    LET k == 3 - ma(s, i)
    IN  Mem(s, Aligned(s, i), 4, U(s.gpr[i.rt] * 2^(ByteBits * k), WW) | (Low(k) & OldWord(s, i)))

_lwl(s, i) ==
    LET k == ma(s, i)
    IN  Gpr(s, i.rt, U(OldWord(s, i) * 2^(ByteBits * k), WW) | (s.gpr[i.rt] & Low(k)))

_lwr(s, i) ==
    LET k == ma(s, i) + 1
    IN  Gpr(s, i.rt, (s.gpr[i.rt] & High(k)) | (OldWord(s, i) \div 2^(ByteBits * (4 - k))))

-----------------------------------------------------------------------------
(* The monitor: system calls the simulator carries out on the host.  i.imm *)
(* is the argument of the reserved instruction, twice the reason.          *)

PutBytes(mem, a, bytes) ==
    [b \in DOMAIN mem \cup (a .. a + Len(bytes) - 1) |->
        IF b \in a .. a + Len(bytes) - 1 THEN bytes[b - a + 1] ELSE mem[b]]

\* The name of the program and at most MARGS words: one more than getargs copies.
sysArgv == <<HostBytes>> \o SubSeq(ArgWords, 1, Min({MARGS, Len(ArgWords)}))
sysArgc == Len(sysArgv)

getargs(s) ==
    LET n == Min({MARGS, sysArgc})
        copied[k \in 0 .. n] ==
            IF k = 0 THEN s.mem
            ELSE PutBytes(copied[k - 1], Load(copied[k - 1], U(s.gpr[R_a0] + 4 * (k - 1), WW), 4), Append(sysArgv[k], 0))
    IN  [s EXCEPT !.mem = copied[n], !.gpr[R_v0] = sysArgc]

\* Zero stored to the words at some addresses.
Zeroed(mem, addrs) ==
    LET z == UNION {U(a, WW) .. U(a, WW) + 3 : a \in addrs}
    IN  [b \in DOMAIN mem \cup z |-> IF b \in z THEN 0 ELSE mem[b]]
ZeroWords(s, addrs) == [s EXCEPT !.mem = Zeroed(@, addrs), !.gpr[R_v0] = 0]

per_page_read(s, h) ==
    [s EXCEPT !.gpr[R_v0] = U(h, WW),
              !.mem = PutBytes(@, s.gpr[R_a1], SubSeq(HostBytes, 1, IF h < 0 THEN 0 ELSE h))]

SystemCall(s, i) ==
    LET a0 == s.gpr[R_a0]
        V0(v) == [s EXCEPT !.gpr[R_v0] = U(v, WW)]
        reason == i.imm \div 2
    IN  CASE reason \in {6, 8, 9, 38, 50} -> V0(i.h)  \* open, write, lseek, chdir, cycle
          [] reason = 7  -> per_page_read(s, i.h)
          [] reason = 10 -> IF S(a0, WW) > 2 THEN V0(i.h) ELSE V0(0)
          [] reason = 33 -> ZeroWords(s, {a0, a0 + 4})
          [] reason = 34 -> ZeroWords(s, {a0 + k : k \in 0 .. 3})
          [] reason = 35 -> getargs(s)
          [] reason = 37 -> [s EXCEPT !.mem = IF Len(HostBytes) < s.gpr[R_a1]
                                              THEN PutBytes(@, a0, Append(HostBytes, 0)) ELSE @,
                                      !.gpr[R_v0] = a0]
          [] reason = 55 -> [ZeroWords(s, {a0 + 4, a0 + 8}) EXCEPT !.mem = Store(@, a0, 4, 2^(WW - 1))]
          [] OTHER -> Stop(s, "exit")

\* The return to the caller.
Back(r) == IF r.st = "run" THEN [r EXCEPT !.pc = r.gpr[R_ra]] ELSE r
_monitorBody(s, i) == Back(SystemCall(s, i))

-----------------------------------------------------------------------------
(* Coprocessor 1.  A double is a pair of registers, the low word first.    *)

Bits(fmt) == IF fmt = "D" THEN DW ELSE WW
FReg(s, r, n) == IF n = WW THEN s.cpr1[r] ELSE s.cpr1[r] + s.cpr1[r + 1] * 2^WW
SetF(s, r, n, v) ==
    IF n = WW THEN [s EXCEPT !.cpr1[r] = U(v, WW)]
              ELSE [s EXCEPT !.cpr1[r] = U(v, WW), !.cpr1[r + 1] = U(v, DW) \div 2^WW]
Odd(r) == r % 2 = 1

_mtc1(s, i) == Adv([s EXCEPT !.cpr1[i.rd] = s.gpr[i.rt]])
_mfc1(s, i) == Gpr(s, i.rt, s.cpr1[i.rd])
_ldc1(s, i) == Adv(SetF(s, i.rt, DW, Load(s.mem, EA(s, i), 8)))
_sdc1(s, i) == Mem(s, EA(s, i), 8, FReg(s, i.rt, DW))
_lwc1(s, i) == Adv(SetF(s, i.rt, WW, Load(s.mem, EA(s, i), 4)))
_swc1(s, i) == Mem(s, EA(s, i), 4, s.cpr1[i.rt])

c1xExec(s, i) ==
    LET n == Bits(i.fmt)
        prod == Fpu("mul", n, FReg(s, i.rd, n), FReg(s, i.rt, n))
    IN  CASE i.op = "fmadd" -> Adv(SetF(s, i.sa, n, Fpu("add", n, prod, FReg(s, i.rs, n))))
          [] i.op = "fmsub" -> Adv(SetF(s, i.sa, n, Fpu("sub", n, prod, FReg(s, i.rs, n))))
          [] OTHER -> Stop(s, "exit")

\* base is rs and index rt.
lxc1(s, i, k) == Adv(SetF(s, i.sa, k * ByteBits, Load(s.mem, U(s.gpr[i.rs] + s.gpr[i.rt], WW), k)))

execCoproc1x(s, i) ==
    CASE i.op = "lwxc1" -> lxc1(s, i, 4)
      [] i.op = "ldxc1" -> lxc1(s, i, 8)
      [] i.op \in {"fmadd", "fmsub"} /\ i.fmt \in {"S", "D"} -> c1xExec(s, i)
      [] OTHER -> Stop(s, "exit")

\* currFpMode is mipsii: an odd register is half a double.
_truncw(s, i) ==
    LET n == Bits(i.fmt)
    IN  IF Odd(i.sa) \/ Odd(i.rd) THEN Stop(s, "abort")
        ELSE IF i.fmt \in {"S", "D"} THEN Adv(SetF(s, i.sa, DW, U(Fpu("to_int", n, FReg(s, i.rd, n), 0), WW)))
        ELSE Stop(s, "exit")

\* fd becomes fs, n bits of it, when the condition holds.
MoveIf(s, i, n, cond) == Adv(IF cond THEN SetF(s, i.sa, n, FReg(s, i.rd, n)) ELSE s)
_movnd(s, i) == MoveIf(s, i, DW, s.gpr[i.rt] # 0)
_movns(s, i) == MoveIf(s, i, WW, s.gpr[i.rt] # 0)
_movzd(s, i) == MoveIf(s, i, DW, s.gpr[i.rt] = 0)
_movzs(s, i) == MoveIf(s, i, WW, s.gpr[i.rt] = 0)
\* The condition code is in bits 2 to 4 of the ft field, true or false in bit 0.
OnCode(s, i) == getConditionCode(s, i.rt \div 4) = i.rt % 2
_movcd(s, i) == MoveIf(s, i, DW, OnCode(s, i))
_movcs(s, i) == MoveIf(s, i, WW, OnCode(s, i))
_movci(s, i) == Gpr(s, i.rd, IF OnCode(s, i) THEN s.gpr[i.rs] ELSE s.gpr[i.rd])

_cvts(s, i) ==
    IF Odd(i.sa) \/ Odd(i.rd) THEN Stop(s, "abort")
    ELSE CASE i.fmt = "D" -> Adv(SetF(s, i.sa, DW, Fpu("to_single", DW, FReg(s, i.rd, DW), 0)))
           [] i.fmt = "W" -> Adv(SetF(s, i.sa, DW, Fpu("of_int", WW, S(s.cpr1[i.rd], WW), 0)))
           [] OTHER -> Stop(s, "exit")

_cvtd(s, i) ==
    CASE i.fmt = "S" -> Adv(SetF(s, i.sa, DW, Fpu("to_double", WW, s.cpr1[i.rd], 0)))
      [] i.fmt = "W" -> Adv(SetF(s, i.sa, DW, Fpu("of_int", DW, S(s.cpr1[i.rd], WW), 0)))
      [] OTHER -> Stop(s, "exit")

_fmovn(s, i) == CASE i.fmt = "S" -> _movns(s, i) [] i.fmt = "D" -> _movnd(s, i) [] OTHER -> Stop(s, "exit")
_fmovz(s, i) == CASE i.fmt = "S" -> _movzs(s, i) [] i.fmt = "D" -> _movzd(s, i) [] OTHER -> Stop(s, "exit")
_fmovc(s, i) == CASE i.fmt = "S" -> _movcs(s, i) [] i.fmt = "D" -> _movcd(s, i) [] OTHER -> Stop(s, "exit")

\* COND_UN is computed as an equality.  The condition code is in bits 2 to 4 of
\* the fd field.
fpCmp(s, i, n) ==
    LET Set(op) == Adv([s EXCEPT !.fcr = setBit(@, Fpu(op, n, FReg(s, i.rd, n), FReg(s, i.rt, n)), i.sa \div 4)])
    IN  CASE i.op \in {"c.un", "c.eq"} -> Set("eq")
          [] i.op = "c.lt" -> Set("lt")
          [] i.op = "c.le" -> Set("le")
          [] OTHER -> Stop(s, "exit")
_c(s, i) == IF i.fmt \in {"S", "D"} THEN fpCmp(s, i, Bits(i.fmt)) ELSE Stop(s, "exit")

execFP(s, i, n) ==
    LET fs == FReg(s, i.rd, n)
        ft == FReg(s, i.rt, n)
        one == Fpu("one", n, 0, 0)
        v == CASE i.op = "fabs"  -> Fpu("abs", n, fs, 0)
               [] i.op = "fneg"  -> Fpu("neg", n, fs, 0)
               [] i.op = "fmov"  -> fs
               [] i.op = "fadd"  -> Fpu("add", n, fs, ft)
               [] i.op = "fsub"  -> Fpu("sub", n, fs, ft)
               [] i.op = "fmul"  -> Fpu("mul", n, fs, ft)
               [] i.op = "fsqrt" -> Fpu("sqrt", n, fs, 0)
               [] i.op = "fdiv"  -> IF Fpu("eq", n, ft, 0) = 1 THEN Fpu("max", n, 0, 0) ELSE Fpu("div", n, fs, ft)
               [] i.op = "rsqrt" -> Fpu("div", n, one, Fpu("sqrt", n, fs, 0))
               [] i.op = "recip" -> Fpu("div", n, one, fs)
    IN  Adv(SetF(s, i.sa, n, v))

do_fp_op(s, i) ==
    IF i.fmt = "D" THEN execFP(s, i, DW)
    ELSE IF Odd(i.sa) THEN Stop(s, "abort")
    ELSE [execFP(s, i, WW) EXCEPT !.cpr1[i.sa + 1] = 0]

FpOps == {"fadd", "fsub", "fmul", "fdiv", "fsqrt", "fabs", "fmov", "fneg", "recip", "rsqrt"}

execCoproc1(s, i) ==
    CASE i.op = "mfc1" -> _mfc1(s, i)
      [] i.op = "mtc1" -> _mtc1(s, i)
      [] i.op \in {"c.un", "c.eq", "c.lt", "c.le"} -> _c(s, i)
      [] i.op \in FpOps -> do_fp_op(s, i)
      [] i.op = "truncw" -> _truncw(s, i)
      [] i.op = "fmovc" -> _fmovc(s, i)
      [] i.op = "fmovz" -> _fmovz(s, i)
      [] i.op = "fmovn" -> _fmovn(s, i)
      [] i.op = "cvts" -> _cvts(s, i)
      [] i.op = "cvtd" -> _cvtd(s, i)
      [] OTHER -> Stop(s, "exit")               \* truncl and whatever is unhandled

-----------------------------------------------------------------------------
(* The rest of execMips, by groups of opcodes that stand together in it *)

Shifts(s, i) ==
    LET rs == s.gpr[i.rs]
        rt == s.gpr[i.rt]
        amount == IF i.op \in {"sllv", "srlv", "srav"} THEN rs % WW ELSE i.sa
    IN  CASE i.op \in {"sll", "sllv"} -> Gpr(s, i.rd, rt * 2^amount)
          [] i.op \in {"srl", "srlv"} -> Gpr(s, i.rd, rt \div 2^amount)
          [] i.op \in {"sra", "srav"} -> Gpr(s, i.rd, S(rt, WW) \div 2^amount)
          [] i.op = "movci" -> _movci(s, i)
          [] i.op = "monitor" -> _monitorBody(s, i)

\* syscall falls through to break; neither moves the pc.
Breaks(s, i) == IF i.op = "sync" THEN Adv(s) ELSE [s EXCEPT !.brk = 1]

\* INT_MIN / -1 is undefined: x86 raises SIGFPE, other hosts wrap.
MulDiv(s, i) ==
    LET rs == s.gpr[i.rs]
        rt == s.gpr[i.rt]
        Split(y) == HiLo(s, U(y, DW) \div 2^WW, y)
    IN  CASE i.op = "mfhi"  -> Gpr(s, i.rd, s.hi)
          [] i.op = "mthi"  -> HiLo(s, rs, s.lo)
          [] i.op = "mflo"  -> Gpr(s, i.rd, s.lo)
          [] i.op = "mtlo"  -> HiLo(s, s.hi, rs)
          [] i.op = "mult"  -> Split(S(rs, WW) * S(rt, WW))
          [] i.op = "multu" -> Split(rs * rt)
          [] i.op = "divu"  -> IF rt = 0 THEN Adv(s) ELSE HiLo(s, rs % rt, rs \div rt)
          [] i.op = "div"   -> IF rt = 0 THEN Adv(s)
                               ELSE IF rs = 2^(WW - 1) /\ rt = 2^WW - 1 /\ i.u = 1 THEN Stop(s, "signal")
                               ELSE HiLo(s, Rem(S(rs, WW), S(rt, WW)), Quot(S(rs, WW), S(rt, WW)))

Bool(b) == IF b THEN 1 ELSE 0

\* Only or guards register 0.
Arith(s, i) ==
    LET rs == s.gpr[i.rs]
        rt == s.gpr[i.rt]
        Rd(v) == Gpr(s, i.rd, v)
    IN  CASE i.op \in {"add", "addu"} -> Rd(rs + rt)
          [] i.op = "subu" -> Rd(rs - rt)
          [] i.op = "and"  -> Rd(rs & rt)
          [] i.op = "or"   -> IF i.rd = 0 THEN Adv(s) ELSE Rd(rs | rt)
          [] i.op = "xor"  -> Rd(rs ^^ rt)
          [] i.op = "nor"  -> Rd(Inv(rs | rt, WW))
          [] i.op = "slt"  -> Rd(Bool(S(rs, WW) < S(rt, WW)))
          [] i.op = "sltu" -> Rd(Bool(rs < rt))
          [] i.op = "movn" -> Rd(IF rt # 0 THEN rs ELSE s.gpr[i.rd])
          [] i.op = "movz" -> Rd(IF rt = 0 THEN rs ELSE s.gpr[i.rd])
          [] i.op = "teq"  -> IF rs = rt THEN Stop(s, "exit") ELSE Adv(s)
          [] OTHER -> Stop(s, "exit")               \* sub, and unknown functions

Coproc0(s, i) ==
    LET Old(t) == IF i.rt # 0 THEN [t EXCEPT !.gpr[i.rt] = s.cpr0[SR]] ELSE t
    IN  CASE i.op = "wait" -> IF s.cpr0[SR] % 2 = 0 THEN Stop(s, "exit") ELSE Adv(s)
          [] i.op = "di"   -> Adv(Old([s EXCEPT !.cpr0[SR] = setBit(@, 0, 0)]))
          [] i.op = "ei"   -> Adv(Old([s EXCEPT !.cpr0[SR] = setBit(@, 1, 0)]))
          [] i.op = "mfc0" -> Gpr(s, i.rt, s.cpr0[i.rd])
          [] i.op = "mtc0" -> Adv([s EXCEPT !.cpr0[i.rd] = s.gpr[i.rt]])
          [] OTHER -> Stop(s, "exit")               \* eret

Immediate(s, i) ==
    LET rs == s.gpr[i.rs]
        simm == S(i.imm, HW)
        Rt(v) == Gpr(s, i.rt, v)
    IN  CASE i.op \in {"addi", "addiu"} -> Rt(rs + simm)
          [] i.op = "slti"  -> Rt(Bool(S(rs, WW) < simm))
          [] i.op = "sltiu" -> Rt(Bool(rs < U(simm, WW)))
          [] i.op = "andi"  -> Rt(rs & i.imm)
          [] i.op = "ori"   -> Rt(rs | i.imm)
          [] i.op = "xori"  -> Rt(rs ^^ i.imm)
          [] i.op = "lui"   -> Rt(i.imm * 2^HW)

\* ll is a plain load, pref does nothing, an unknown opcode exits.
LoadStore(s, i) ==
    CASE i.op \in {"lw", "ll"} -> _lw(s, i)
      [] i.op = "sc"  -> _sc(s, i)
      [] i.op = "lb"  -> _lb(s, i)
      [] i.op = "lh"  -> _lh(s, i)
      [] i.op = "lwl" -> _lwl(s, i)
      [] i.op = "lbu" -> _lbu(s, i)
      [] i.op = "lhu" -> _lhu(s, i)
      [] i.op = "lwr" -> _lwr(s, i)
      [] i.op = "sb"  -> _sb(s, i)
      [] i.op = "sh"  -> _sh(s, i)
      [] i.op = "swl" -> _swl(s, i)
      [] i.op = "sw"  -> _sw(s, i)
      [] i.op = "swr" -> _swr(s, i)
      [] i.op = "lwc1" -> _lwc1(s, i)
      [] i.op = "pref" -> Adv(s)
      [] i.op = "ldc1" -> _ldc1(s, i)
      [] i.op = "swc1" -> _swc1(s, i)
      [] i.op = "sdc1" -> _sdc1(s, i)
      [] OTHER -> Stop(s, "exit")

-----------------------------------------------------------------------------
(* Branches and jumps, which call execMips for their delay slot *)

Likely == {"beql", "bnel", "blezl", "bgtzl", "bgezl", "bltzl", "bc1tl", "bc1fl"}

takeBranch(s, i) ==
    LET rs == S(s.gpr[i.rs], s.w)
    IN  CASE i.op \in {"beq", "beql"}   -> s.gpr[i.rt] = s.gpr[i.rs]
          [] i.op \in {"bne", "bnel"}   -> s.gpr[i.rt] # s.gpr[i.rs]
          [] i.op \in {"blez", "blezl"} -> rs <= 0
          [] i.op \in {"bgtz", "bgtzl"} -> rs > 0
          [] i.op \in {"bgez", "bgezl", "bgezal"} -> rs >= 0
          [] i.op \in {"bltz", "bltzl"} -> rs < 0
          [] i.op \in {"bc1t", "bc1tl"} -> getConditionCode(s, i.rt \div 4) = 1
          [] i.op \in {"bc1f", "bc1fl"} -> getConditionCode(s, i.rt \div 4) = 0

\* Enter the delay slot.  On its return the pc becomes target if the branch is
\* taken, and then $31 becomes link (0: no link).
Slot(s, taken, target, link) ==
    [Adv(s) EXCEPT !.frames = <<[taken |-> taken, target |-> target, link |-> link]>> \o @]

branch_from_pc(s, i) ==
    LET taken == takeBranch(s, i)
    IN  IF i.op \in Likely /\ ~taken THEN Adv(Adv(s))
        ELSE Slot(s, taken, U(S(i.imm, HW) * 4 + s.pc, WW), 0)

branch(s, i) ==
    LET npc == U(s.pc + 4, WW)
        taken == takeBranch(s, i)
    IN  IF i.op \in Likely /\ ~taken THEN Adv(Adv(s))
        ELSE Slot(s, taken, U(S(i.imm, HW) * 4 + npc, WW), IF i.op = "bgezal" THEN U(npc + 4, WW) ELSE 0)

\* jalr links in $31 whatever its rd is.
JumpRegister(s, i) ==
    Slot(IF i.op = "jalr" THEN [s EXCEPT !.gpr[R_ra] = U(s.pc + 8, s.w)] ELSE s,
         TRUE, U(s.gpr[i.rs], WW), 0)

JumpBits == WW - (WW \div 8)                       \* 28 of 32
JType(s, i) ==
    LET npc == U(s.pc + 4, WW)
    IN  Slot(IF i.op = "jal" THEN [s EXCEPT !.gpr[R_ra] = U(s.pc + 8, s.w)] ELSE s,
             TRUE, U(i.tgt * 4, JumpBits) | (npc - (npc % 2^JumpBits)), 0)

\* What a branch does when its slot has returned.
AfterSlot(s, f) ==
    CASE ~f.taken -> s
      [] f.taken /\ f.link = 0 -> [s EXCEPT !.pc = f.target]
      [] OTHER -> [s EXCEPT !.pc = f.target, !.gpr[R_ra] = f.link]

\* An execMips that entered no slot returns, and so do the calls above it.
Return(s) ==
    LET after[k \in 0 .. Len(s.frames)] ==
            IF k = 0 THEN [s EXCEPT !.frames = <<>>] ELSE AfterSlot(after[k - 1], s.frames[k])
    IN  IF s.st = "run" THEN after[Len(s.frames)] ELSE s

-----------------------------------------------------------------------------
(* execMips: which handler an instruction goes to. *)

ShiftOps == {"sll", "srl", "sra", "sllv", "srlv", "srav", "movci", "monitor"}
BreakOps == {"syscall", "break", "sync"}
MulDivOps == {"mfhi", "mthi", "mflo", "mtlo", "mult", "multu", "div", "divu"}
ArithOps == {"add", "addu", "sub", "subu", "and", "or", "xor", "nor", "slt", "sltu", "movn", "movz", "teq"}
Special2Ops == {"madd", "maddu", "mul", "msub", "clz"}
Special3Ops == {"seb", "seh", "ext", "ins", "rdhwr"}
JumpOps == {"j", "jal"}
RegJumpOps == {"jr", "jalr"}
Coproc0Ops == {"eret", "wait", "di", "ei", "mfc0", "mtc0"}
Coproc1Ops == FpOps \cup {"mfc1", "mtc1", "c.un", "c.eq", "c.lt", "c.le", "truncw", "truncl", "fmovc", "fmovz",
                          "fmovn", "cvts", "cvtd"}
Coproc1xOps == {"lwxc1", "ldxc1", "fmadd", "fmsub"}
ImmediateOps == {"addi", "addiu", "slti", "sltiu", "andi", "ori", "xori", "lui"}
MemoryOps == {"lw", "ll", "sc", "lb", "lh", "lwl", "lbu", "lhu", "lwr", "sb", "sh", "swl", "sw", "swr",
              "lwc1", "ldc1", "swc1", "sdc1", "pref", "unknown"}
BranchOps == Likely \cup {"beq", "bne", "blez", "bgtz", "bgez", "bltz", "bgezal", "bc1t", "bc1f"}
Transfers == BranchOps \cup JumpOps \cup RegJumpOps

Handler(s, i) ==
    CASE i.op \in ShiftOps -> Shifts(s, i)
      [] i.op \in BreakOps -> Breaks(s, i)
      [] i.op \in MulDivOps -> MulDiv(s, i)
      [] i.op \in ArithOps -> Arith(s, i)
      [] i.op \in Special2Ops -> execSpecial2(s, i)
      [] i.op \in Special3Ops -> execSpecial3(s, i)
      [] i.op \in JumpOps -> JType(s, i)
      [] i.op \in RegJumpOps -> JumpRegister(s, i)
      [] i.op \in Coproc0Ops -> Coproc0(s, i)
      [] i.op \in Coproc1Ops -> execCoproc1(s, i)
      [] i.op \in Coproc1xOps -> execCoproc1x(s, i)
      [] i.op \in ImmediateOps -> Immediate(s, i)
      [] i.op \in BranchOps -> branch(s, i)
      [] OTHER -> LoadStore(s, i)

Count(s) == [s EXCEPT !.icnt = @ + 1]

\* r is what the handler of the instruction makes of Count(s).
execMips(s, r) == IF Len(r.frames) > Len(s.frames) THEN r ELSE Return(r)
=============================================================================
