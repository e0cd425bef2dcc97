------------------------------- MODULE IssRun -------------------------------
(***************************************************************************)
(* Both interpreters running the same program from the same state, one     *)
(* instruction each per step: s is the state_t of interpret.cc, driven by  *)
(* the loop of top.cc that runs the checker alone, t a state64_t whose     *)
(* registers start as those of s, sign-extended.                           *)
(***************************************************************************)
EXTENDS Iss64

CONSTANTS
    Tests,        \* records: a program, and the registers and memory it starts from
    MaxIcnt,      \* option max_icnt
    HostResults   \* what a host system call may return

Registers == 0 .. 31
Ops == ShiftOps \cup BreakOps \cup MulDivOps \cup ArithOps \cup Special2Ops \cup Special3Ops \cup JumpOps \cup RegJumpOps
       \cup Coproc0Ops \cup Coproc1Ops \cup Coproc1xOps \cup ImmediateOps \cup MemoryOps \cup BranchOps

\* The fields of an instruction have their widths, a shift is by less than a word,
\* a bit field lies within one and f31 is not the first of a pair.
Decoded(i) ==
    /\ i \in [op : Ops, rs : Registers, rt : Registers, rd : Registers, sa : Registers, imm : Nat, tgt : Nat,
              fmt : {"S", "D", "W"}, u : {0}, h : {0}]
    /\ i.imm < 2^HW \/ i.op = "monitor"
    /\ i.tgt * 4 < 2^JumpBits
    /\ i.op \in ShiftOps \cup {"ext"} => i.sa < WW
    /\ i.op \in {"ext", "ins"} => i.rd < WW
    /\ i.op = "ins" => i.sa <= i.rd
    /\ i.fmt = "D" => 31 \notin {i.rs, i.rt, i.rd, i.sa}
    /\ i.op \in {"ldc1", "sdc1"} => i.rt # 31
    /\ i.op \in {"ldxc1", "cvtd"} => i.sa # 31

TestOK(test) ==
    /\ \A p \in DOMAIN test.code : Decoded(test.code[p])
    /\ test.pc \in Unsigned(WW) /\ test.hi \in Unsigned(WW) /\ test.lo \in Unsigned(WW) /\ test.fcr \in Unsigned(WW)
    /\ DOMAIN test.gpr \subseteq Registers /\ \A r \in DOMAIN test.gpr : test.gpr[r] \in Unsigned(WW)
    /\ DOMAIN test.cpr1 \subseteq Registers /\ \A r \in DOMAIN test.cpr1 : test.cpr1[r] \in Unsigned(WW)
    /\ DOMAIN test.mem \subseteq Nat /\ test.mem \in [DOMAIN test.mem -> Unsigned(ByteBits)]

ASSUME IssRunAssumption ==
    /\ MaxIcnt \in Nat
    /\ \A h \in HostResults : h \in Int /\ h <= Len(HostBytes)
    /\ \A test \in Tests : TestOK(test)

VARIABLES code, s, t
vars == <<code, s, t>>

Fetch(x) == IF x.pc \in DOMAIN code THEN code[x.pc] ELSE Nop

\* The loop asks for max_icnt and for brk between calls of execMips only.
CanRun(x) == x.st = "run" /\ (x.frames # <<>> \/ (x.icnt < MaxIcnt /\ x.brk = 0))

Handler_64(x, i) ==
    CASE i.op \in ShiftOps -> Shifts_64(x, i)
      [] i.op \in BreakOps \cup MulDivOps -> MulDiv_64(x, i)
      [] i.op \in ArithOps -> Arith_64(x, i)
      [] i.op \in Special2Ops -> execSpecial2_64(x, i)
      [] i.op \in Special3Ops -> execSpecial3_64(x, i)
      [] i.op \in JumpOps -> JType_64(x, i)
      [] i.op \in RegJumpOps -> JumpRegister_64(x, i)
      [] i.op \in Coproc0Ops -> Coproc0_64(x, i)
      [] i.op \in Coproc1Ops -> execCoproc1_64(x, i)
      [] i.op \in Coproc1xOps -> execCoproc1x_64(x, i)
      [] i.op \in ImmediateOps -> Immediate_64(x, i)
      [] i.op \in BranchOps -> branch_64(x, i)
      [] OTHER -> LoadStore_64(x, i)

-----------------------------------------------------------------------------
Widen(x) == [x EXCEPT !.w = DW, !.lo = SExt(@, WW, DW), !.hi = SExt(@, WW, DW),
                      !.gpr = [r \in DOMAIN @ |-> SExt(@[r], WW, DW)]]

\* The registers a test gives a value, the others zero.
Given(f) == [r \in Registers |-> IF r \in DOMAIN f THEN f[r] ELSE 0]

Init ==
    \E test \in Tests :
        LET fresh == initState(NewState(test.pc, [r \in Registers |-> 0], [r \in Registers |-> 0],
                                        [r \in Registers |-> 0], test.mem))
        IN  /\ code = test.code
            /\ s = [fresh EXCEPT !.gpr = Given(test.gpr), !.cpr1 = Given(test.cpr1),
                                 !.hi = test.hi, !.lo = test.lo, !.fcr = test.fcr]
            /\ t = Widen(s)

\* The instructions in which the code leaves the result of a shift or of a
\* division undefined, and the ones that ask the host.
Undefined(i) == IF i.op \in {"ext", "ins", "swl", "div"} THEN {0, 1} ELSE {0}
Asked(i) == IF i.op = "monitor" THEN HostResults ELSE {0}

Exec(ops, On(_, _)) ==
    /\ CanRun(s) /\ Fetch(s).op \in ops
    /\ \E u \in Undefined(Fetch(s)), h \in Asked(Fetch(s)) :
        /\ s' = LET r == On(Count(s), [Fetch(s) EXCEPT !.u = u, !.h = h]) IN execMips(s, r)
        /\ t' = LET r == Handler_64(Count(t), [Fetch(t) EXCEPT !.u = u, !.h = h])
                IN  IF CanRun(t) THEN execMips(t, r) ELSE t
    /\ UNCHANGED code

Next ==
    \/ Exec(ShiftOps, Shifts)
    \/ Exec(BreakOps, Breaks)
    \/ Exec(MulDivOps, MulDiv)
    \/ Exec(ArithOps, Arith)
    \/ Exec(Special2Ops, execSpecial2)
    \/ Exec(Special3Ops, execSpecial3)
    \/ Exec(JumpOps, JType)
    \/ Exec(RegJumpOps, JumpRegister)
    \/ Exec(Coproc0Ops, Coproc0)
    \/ Exec(Coproc1Ops, execCoproc1)
    \/ Exec(Coproc1xOps, execCoproc1x)
    \/ Exec(ImmediateOps, Immediate)
    \/ Exec(MemoryOps, LoadStore)
    \/ Exec(BranchOps, branch)

Spec == Init /\ [][Next]_vars

-----------------------------------------------------------------------------
StateOK(x, w) ==
    /\ x.pc \in Unsigned(w) /\ x.hi \in Unsigned(w) /\ x.lo \in Unsigned(w)
    /\ x.gpr \in [Registers -> Unsigned(w)]
    /\ x.cpr0 \in [Registers -> Unsigned(WW)] /\ x.cpr1 \in [Registers -> Unsigned(WW)]
    /\ x.fcr \in Unsigned(WW)
    /\ \A a \in DOMAIN x.mem : a \in Nat /\ x.mem[a] \in Unsigned(ByteBits)
    /\ x.st \in {"run", "exit", "abort", "signal"} /\ x.brk \in {0, 1}
\* Every state is a state_t, respectively a state64_t, of the widths declared in
\* interpret.hh.
TypeOK == StateOK(s, WW) /\ StateOK(t, DW)

(***************************************************************************)
(* The recursion of execMips against the two program counters of the       *)
(* architecture: every step of the interpreter, taken or not, likely or    *)
(* not, in a slot or not, is a step of DelaySlot.                          *)
(***************************************************************************)
NextPc == IF s.frames # <<>> /\ Head(s.frames).taken THEN Head(s.frames).target ELSE U(s.pc + 4, WW)
Mode == CASE Len(s.frames) = 0 -> "plain" [] Len(s.frames) = 1 -> "slot" [] OTHER -> "chaos"
ArchTarget(i, pc, gpr) ==
    LET slot == (pc + 4) % 2^WW
    IN  CASE i.op \in RegJumpOps -> gpr[i.rs]
          [] i.op \in JumpOps -> (slot \div 2^JumpBits) * 2^JumpBits + (4 * i.tgt)
          [] OTHER -> (slot + 4 * S(i.imm, HW)) % 2^WW
Arch == INSTANCE DelaySlot WITH PcMod <- 2^WW, Target <- ArchTarget,
                                pc <- s.pc, npc <- NextPc, mode <- Mode, gpr <- s.gpr
\* interpret.cc runs the delay slot inside the branch (branch, jr, jalr, j, jal);
\* seen from outside, control flows as the architecture says.
ImplementsDelaySlot == Arch!Spec

(***************************************************************************)
(* Arithmetic on hi and lo against exact integers.                         *)
(***************************************************************************)
Wide(x) == x.hi * 2^WW + x.lo
Exact(i, x, y) ==
    LET a == S(x.gpr[i.rs], WW)
        b == S(x.gpr[i.rt], WW)
        q == S(y.lo, WW)
        r == S(y.hi, WW)
    IN  CASE i.op = "div" /\ b # 0 -> /\ U(q * b + r - a, WW) = 0 /\ Abs(r) < Abs(b) /\ r * a >= 0
          [] i.op = "divu" /\ b # 0 -> y.lo * U(b, WW) + y.hi = U(a, WW) /\ y.hi < U(b, WW)
          [] i.op \in {"div", "divu"} /\ b = 0 -> Wide(y) = Wide(x)
          [] i.op = "madd"  /\ S(x.lo, WW) >= 0 -> Wide(y) = U(Wide(x) + a * b, DW)
          [] i.op = "maddu" /\ S(x.lo, WW) >= 0 -> Wide(y) = U(Wide(x) + U(a, WW) * U(b, WW), DW)
          [] i.op = "msub"  /\ S(x.lo, WW) >= 0 -> Wide(y) = U(Wide(x) - a * b, DW)
          [] OTHER -> TRUE
\* A division that returns leaves quotient and remainder of its operands in lo and
\* hi, with the sign rule of C, and leaves both alone when the divisor is zero
\* (interpret.cc:1667-1680); an accumulation is exact whenever lo is not negative
\* when read as int32_t (interpret.cc:163-204).
HiLoExact == [][s'.st = "run" => Exact(Fetch(s), s, s')]_vars

(***************************************************************************)
(* Unaligned accesses, done in two instructions.                           *)
(***************************************************************************)
\* The two instructions at p and the lower of their two addresses.
PairAt(p, left, right) ==
    /\ {p, p + 4} \subseteq DOMAIN code /\ code[p].op = left /\ code[p + 4].op = right
    /\ code[p].rs = code[p + 4].rs /\ code[p].rt = code[p + 4].rt /\ code[p].rs # code[p].rt
    /\ S(code[p + 4].imm, HW) = S(code[p].imm, HW) + (IF EL THEN -3 ELSE 3)
LowAddr(p) == EA(s, code[IF EL THEN p + 4 ELSE p])

\* The state they lead to.
Ran(x, i) == execMips(x, Handler(Count(x), i))
Both(p, u) == Ran(Ran(s, [code[p] EXCEPT !.u = u]), code[p + 4])

LoadsWord(p, u) == Both(p, u).gpr[code[p].rt] = Load(s.mem, LowAddr(p), 4)
StoresWord(p, u) ==
    /\ Load(Both(p, u).mem, LowAddr(p), 4) = s.gpr[code[p].rt]
    /\ \A b \in DOMAIN Both(p, u).mem \ (LowAddr(p) .. LowAddr(p) + 3) : Both(p, u).mem[b] = ByteAt(s.mem, b)

\* Wherever a program reaches them, lwl at an address and lwr three bytes on load
\* the word that starts there, swl and swr store it and touch no other byte (the
\* other way round for a little-endian guest): for every alignment, and whatever
\* the shift by 32 of an aligned swl gives (interpret.cc:655).
UnalignedPair ==
    \A p \in DOMAIN code, u \in {0, 1} :
        s.pc = p /\ CanRun(s) /\ s.frames = <<>> =>
            /\ PairAt(p, "lwl", "lwr") /\ LowAddr(p) + 3 < 2^WW => LoadsWord(p, u)
            /\ PairAt(p, "swl", "swr") /\ LowAddr(p) + 3 < 2^WW => StoresWord(p, u)

(***************************************************************************)
(* The interpreters against each other.                                    *)
(***************************************************************************)
WideOps == {"sra", "srav", "mfhi", "mthi", "mflo", "mtlo", "mult", "addu", "subu", "and", "xor", "nor", "slt",
            "sltu", "movn", "movz", "teq", "madd", "mul", "msub", "clz", "seb", "seh", "movci", "slti", "sltiu",
            "andi", "ori", "xori", "lui", "lw", "lh", "lb", "lwl", "sb", "sh", "swl", "swr", "mtc1", "j", "jal",
            "jr", "jalr", "break", "sync"} \cup (BranchOps \ {"bgezal"})
LoadOps == {"lw", "lh", "lb"}
LinkOps == {"jal", "jalr"}
\* One of these instructions, a load among them at an address that is not negative
\* when read as int32_t, a link below the middle of the address space.
StaysWide(i) ==
    /\ i.op \in WideOps
    /\ i.op \in LoadOps => S(s.gpr[i.rs], WW) + S(i.imm, HW) >= 0
    /\ s.pc + 8 < (IF i.op \in LinkOps THEN 2^(WW - 1) ELSE 2^WW)
\* On these instructions the 64-bit interpreter computes what the 32-bit one does,
\* every register sign-extended.  Left out are the instructions that do not keep
\* registers sign-extended.
Agree64 == [][t = Widen(s) /\ StaysWide(Fetch(s)) => t' = Widen(s')]_vars
=============================================================================
