------------------------------- MODULE MCIss -------------------------------
(***************************************************************************)
(* Programs for the interpreters, with bytes of two bits: words of 8 and   *)
(* doublewords of 16, 4-bit immediates.  Code starts at 64, data is below. *)
(***************************************************************************)
EXTENDS IssRun, TLC

\* A toy floating-point format: two's complement integers whose most negative
\* value stands for "not a number".
ToyFpu(op, n, a, b) ==
    LET x == S(a, n)
        y == S(b, n)
        nan(v) == v = -(2^(n - 1))
        Num(v) == IF nan(x) \/ nan(y) THEN 2^(n - 1) ELSE U(v, n)
    IN  CASE op = "add" -> Num(x + y)
          [] op = "sub" -> Num(x - y)
          [] op = "mul" -> Num(x * y)
          [] op = "div" -> IF y = 0 THEN 2^(n - 1) ELSE Num(Quot(x, y))
          [] op = "abs" -> Num(Abs(x))
          [] op = "neg" -> Num(-x)
          [] op = "sqrt" -> IF x < 0 THEN 2^(n - 1) ELSE CHOOSE r \in 0 .. x : r * r <= x /\ (r + 1) * (r + 1) > x
          [] op = "eq" -> Bool(x = y /\ ~nan(x))
          [] op = "lt" -> Bool(x < y /\ ~nan(x) /\ ~nan(y))
          [] op = "le" -> Bool(x <= y /\ ~nan(x) /\ ~nan(y))
          [] op = "one" -> 1
          [] op = "max" -> 2^(n - 1) - 1
          [] op = "to_single" -> U(x, WW)
          [] op = "to_double" -> U(x, DW)
          [] op = "to_int" -> U(x, WW)
          [] op = "of_int" -> U(a, n)

I(op) == [Nop EXCEPT !.op = op, !.rs = 8, !.rt = 9, !.rd = R_v0]
Test(prog, gpr) ==
    [pc |-> 64, code |-> [p \in {60 + 4 * k : k \in 1 .. Len(prog)} |-> prog[(p - 60) \div 4]],
     gpr |-> gpr, cpr1 |-> <<>>, hi |-> 0, lo |-> 0, fcr |-> 0,
     mem |-> [a \in 0 .. 15 |-> (a + (a \div 3)) % 4]]
Two(x, y) == 8 :> x @@ 9 :> y

V == {0, 1, 3, 127, 128, 129, 200, 255}

\* One instruction on every pair of operands.
Alu == {[Test(<<i>>, Two(x, y)) EXCEPT !.hi = hl[1], !.lo = hl[2]] :
            i \in {[I(op) EXCEPT !.imm = 13, !.sa = 3] : op \in ShiftOps \ {"monitor"}}
                  \cup {I(op) : op \in ArithOps \cup Special2Ops \cup {"div", "divu", "mult", "multu"}},
            x \in V, y \in V, hl \in {<<0, 5>>, <<255, 200>>}}
Single == {Test(<<i>>, Two(x, 77)) :
            i \in {[I(op) EXCEPT !.imm = k] : op \in ImmediateOps, k \in {3, 8}}
                  \cup {[I(op) EXCEPT !.sa = ps[1], !.rd = ps[2]] : op \in {"ext", "ins"}, ps \in {<<0, 7>>, <<2, 4>>, <<0, 0>>}}
                  \cup {I(op) : op \in {"seb", "seh", "rdhwr", "sync", "break", "syscall", "wait", "eret", "unknown", "truncl", "pref",
                                        "mfhi", "mthi", "mflo", "mtlo", "or"}}
                  \cup {[I("rdhwr") EXCEPT !.rd = 29]}
                  \cup {[I(op) EXCEPT !.rd = SR] : op \in {"mfc0", "mtc0", "di", "ei"}},
            x \in V}

\* Memory: every alignment and both signs of the offset.
Memory == {Test(<<[I(op) EXCEPT !.imm = k]>>, Two(b, v)) :
            op \in MemoryOps \ {"pref", "unknown", "lwc1", "ldc1", "swc1", "sdc1"}, k \in {0, 1, 15},
            b \in {4, 5, 6, 7, 128}, v \in {77, 177}}
Unaligned == {Test(<<[I(o[1]) EXCEPT !.imm = k], [I(o[2]) EXCEPT !.imm = (k + (IF EL THEN 13 ELSE 3)) % 16]>>, Two(b, v)) :
            o \in {<<"lwl", "lwr">>, <<"swl", "swr">>}, k \in {0, 14}, b \in 4 .. 8, v \in {77, 177}}

\* Coprocessor 1, on pairs of numbers and on the one that is none.
Fp == {[Test(<<i>>, Two(x, 4)) EXCEPT !.cpr1 = 0 :> x @@ 1 :> 1 @@ 2 :> y @@ 3 :> 128, !.fcr = 2] :
            i \in {[I(op) EXCEPT !.fmt = f, !.rs = IF op \in Coproc1xOps THEN 0 ELSE 8, !.rt = 2, !.rd = 0, !.sa = d] :
                      op \in (Coproc1Ops \ {"fmovc", "fmovz", "fmovn", "mfc1", "mtc1"}) \cup {"fmadd", "fmsub"},
                      f \in {"S", "D", "W"}, d \in {0, 2}}
                  \cup {[I(op) EXCEPT !.fmt = f, !.rt = c, !.rd = 0, !.sa = 2] :
                           op \in {"fmovc", "fmovz", "fmovn"}, f \in {"S", "D", "W"}, c \in {4, 5, 8, 9}}
                  \cup {[I("truncw") EXCEPT !.rd = 0, !.sa = 1], [I("cvts") EXCEPT !.rd = 0, !.sa = 1, !.fmt = "D"],
                        [I("fadd") EXCEPT !.rd = 0, !.rt = 2, !.sa = 1]}
                  \cup {[I(op) EXCEPT !.rd = 2, !.rt = 8] : op \in {"mfc1", "mtc1"}}
                  \cup {[I(op) EXCEPT !.rt = IF op \in {"lwxc1", "ldxc1"} THEN 9 ELSE 2, !.rs = 9, !.sa = 2] :
                           op \in {"lwxc1", "ldxc1", "lwc1", "ldc1", "swc1", "sdc1"}},
            x \in {3, 128, 255}, y \in {0, 3, 255}}

\* Branches and jumps forwards and backwards, with plain, trapping, branching and
\* $31-writing delay slots.
Slots == {[I("addu") EXCEPT !.rd = R_ra], [I("subu") EXCEPT !.rd = 8], I("break"), I("monitor"), [I("beq") EXCEPT !.rs = 0, !.rt = 0, !.imm = 14],
          [I("bnel") EXCEPT !.imm = 2], [I("jr") EXCEPT !.rs = R_ra]}
Control == {[Test(<<i, sl, I("xor"), I("sync")>>, Two(x, y) @@ R_ra :> 96) EXCEPT !.fcr = f] :
            i \in {[I(op) EXCEPT !.imm = k] : op \in BranchOps, k \in {2, 14}}
                  \cup {[I(op) EXCEPT !.tgt = 20, !.rs = R_ra] : op \in JumpOps \cup RegJumpOps},
            sl \in Slots, x \in {0, 1, 200}, y \in {0, 200}, f \in {0, 4}}

Monitor == {Test(<<[I("monitor") EXCEPT !.imm = 2 * r]>>, R_a0 :> a @@ R_a1 :> 12 @@ R_a2 :> 2 @@ R_ra :> 80) :
            r \in {6, 7, 8, 9, 10, 13, 33, 34, 35, 37, 38, 50, 55, 99}, a \in {0, 5}}

AllTests == Alu \cup Single \cup Memory \cup Unaligned \cup Fp \cup Control \cup Monitor
Bytes == <<1, 2>>
Words == <<<<3>>, <<2, 1>>>>
Results == {-1, 0, 2}
=============================================================================
