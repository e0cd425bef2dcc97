---------------------------- MODULE MCTestBench ----------------------------
(***************************************************************************)
(* Programs for the test bench: bytes of 3 bits, words of 12, immediates   *)
(* of 6.  Code is at 64, data at 16, the monitor at 1024.                  *)
(***************************************************************************)
EXTENDS TestBench

ToyFpu(op, n, a, b) ==
    LET x == S(a, n)
        y == S(b, n)
        nan == -(2^(n - 1))
    IN  CASE op = "eq" -> Bool(x = y /\ x # nan)
          [] op = "add" -> IF nan \in {x, y} THEN 2^(n - 1) ELSE U(x + y, n)

I(op, rs, rt, imm) == [Nop EXCEPT !.op = op, !.rs = rs, !.rt = rt, !.imm = U(imm, HW)]
R(op, rd, rs, rt) == [Nop EXCEPT !.op = op, !.rs = rs, !.rt = rt, !.rd = rd]
Call(reason) == [Nop EXCEPT !.op = "jal", !.tgt = (1024 + 8 * reason) \div 4]
Break == [Nop EXCEPT !.op = "break"]
Code(prog) == [p \in {60 + 4 * k : k \in 1 .. Len(prog)} |-> prog[(p - 60) \div 4]]
Data == [a \in 16 .. 31 |-> (a + (a \div 5)) % 8]

Dump(prog, gpr) ==
    [kind |-> "dump", pc |-> 64, gpr |-> gpr, lo |-> 0, hi |-> 0, cpr0 |-> SR :> 4, cpr1 |-> <<>>, fcr |-> 0, mem |-> Data, code |-> Code(prog)]
Elf(prog) ==
    [kind |-> "elf", magic |-> TRUE, class |-> 32, data |-> "msb", machine |-> Reversed(8, 2), entry |-> Reversed(64, 4),
     phdrs |-> <<[type |-> Reversed(1, 4), vaddr |-> Reversed(16, 4), memsz |-> Reversed(20, 4), bytes |-> <<0, 0, 0, 7>>],
                 [type |-> Reversed(4, 4), vaddr |-> Reversed(0, 4), memsz |-> Reversed(4, 4), bytes |-> <<1>>]>>,
     code |-> Code(prog)]

\* A loop over memory, integer and floating-point registers; branches both ways.
Busy == Dump(<<I("lw", 8, 9, 0), I("bne", 9, 0, 3), I("sw", 8, 4, 4), I("addiu", 4, 4, 1), Break,
               R("addu", 5, 9, 4), [Nop EXCEPT !.op = "fadd", !.rd = 0, !.rt = 2, !.sa = 2], R("mfc1", 2, 0, 6),
               I("beq", 5, 4, -5), I("sb", 8, 5, 1), I("lw", 8, 2, 0), Break>>,
             1 :> 5 @@ 4 :> 77 @@ 8 :> 16)
Full == [Busy EXCEPT !.cpr1 = 0 :> 3 @@ 2 :> 4000, !.lo = 70, !.hi = 4095, !.fcr = 1]
Codes == Dump(<<[Nop EXCEPT !.op = "bc1t", !.imm = 3], R("mflo", 4, 0, 0), Nop, Break,
                R("mfhi", 5, 0, 0), Nop, Nop, R("xor", 5, 4, 4), Break>>, 1 :> 5)
\* Checkpoints that cannot be restored: $1 zero, other codes than the first, f0 not a number.
Gaps == {[Codes EXCEPT !.gpr = 4 :> 1, !.hi = 9], [Codes EXCEPT !.fcr = 2],
         [Codes EXCEPT !.fcr = 1, !.cpr1 = 0 :> 2048], [Codes EXCEPT !.fcr = 1, !.lo = 3]}
Scratch == [Dump(<<R("addu", 4, 1, 0), Break>>, 4 :> 1) EXCEPT !.hi = 9]

\* Host calls on a buffer the program has written to.
Host(reason) == Elf(<<I("addiu", 0, 4, 16), I("sw", 4, 4, 4), I("sw", 4, 4, 8), Call(reason), I("sw", 4, 4, 0),
                      I("lw", 4, 5, 4), R("addu", 6, 2, 5), Break>>)

\* Transfers to themselves and to their slots, in slots, writes to $0, and the ends.
Strange == {Dump(<<I("beq", 0, 0, k), I("addiu", 4, 4, 1), Break>>, 4 :> 1) : k \in {-1, 0}}
       \cup {Dump(<<[Nop EXCEPT !.op = "j", !.tgt = 16], Nop>>, 4 :> 1),
             Dump(<<I("beq", 0, 0, 2), I("beq", 0, 0, 2), Nop, I("addiu", 4, 4, 1), I("addiu", 4, 4, 1), Break>>, 4 :> 1),
             Dump(<<R("addu", 0, 4, 4), R("addu", 5, 4, 0), Break>>, 4 :> 1),
             Dump(<<R("or", 0, 4, 4), R("addu", 5, 4, 0), [Nop EXCEPT !.op = "syscall"]>>, 4 :> 1),
             Dump(<<I("bnel", 0, 0, 2), Nop, [Nop EXCEPT !.op = "unknown"]>>, 4 :> 1),
             [Dump(<<Nop>>, 4 :> 1) EXCEPT !.pc = 0]}
BadFiles == LET f == Elf(<<Break>>)
            IN  {[f EXCEPT !.magic = FALSE], [f EXCEPT !.class = 64], [f EXCEPT !.data = "none"], [f EXCEPT !.machine = 3],
                 [f EXCEPT !.data = "lsb", !.machine = 8, !.entry = 64, !.phdrs = <<>>]}

AllImages == {Busy, Full, Codes, Scratch} \cup Gaps \cup {Host(r) : r \in {6, 7, 8, 9, 10, 33, 34, 35, 37, 50, 51, 52, 53, 55}}
             \cup Strange \cup BadFiles
Name == <<1, 2>>
Words == <<<<3>>, <<2, 1>>>>
Results == {0, 2}
=============================================================================
