----------------------------- MODULE TestBench -----------------------------
(***************************************************************************)
(* The test bench of top.cc: it loads a program twice (s is the state the  *)
(* core works on, ss the one of the checker), writes a checkpoint's        *)
(* registers into the core by running a program made for it, and then      *)
(* drives the core clock by clock: it serves the monitor and the memory,   *)
(* follows the registers the core retires, and runs the instruction-set    *)
(* simulator beside the core.                                              *)
(*                                                                         *)
(* The core is external here (Core models it): rtl is what it has          *)
(* committed and core what it is busy with.  It executes correctly; which  *)
(* instructions retire together, when lines miss or are evicted and when   *)
(* it stops for good is its choice.  rtl.mem holds the bytes in its data   *)
(* cache.  Code is kept apart from data: programs do not modify themselves *)
(* and instruction fetch makes no requests.                                *)
(***************************************************************************)
EXTENDS Iss, SequencesExt

CONSTANTS
    Images,            \* programs: ELF files and checkpoints
    MaxIcnt,           \* option maxicnt; maxcycle is taken as unlimited
    MemLat,            \* option memlat
    RetireLimit,       \* cycles without retirement the loop accepts (1 << 20)
    LineBytes,         \* bytes in a cache line (16)
    BootPc,            \* where the initialisation program is put (0xd0000)
    IDT_MONITOR_BASE,
    IDT_MONITOR_SIZE,
    MaxIdle,           \* bound: idle cycles in a row of a core that is alive
    HostResults,       \* what open, read, lseek and a clock may return
    NReg               \* number of coprocessor 1 registers

ASSUME TestBenchAssumption ==
    /\ MaxIcnt \in Nat /\ MaxIdle \in Nat /\ MemLat \in Nat /\ RetireLimit \in Nat
    /\ LineBytes \in Nat \ {0} /\ NReg \in Nat /\ NReg % 2 = 0

VARIABLES
    phase,  \* "load", "reset", "boot", "run", "done"
    why,    \* what ended the program
    img, code,
    s, ss,
    boot,   \* what is left of the initialisation program
    rtl, core,
    loop    \* the local variables of the main loop
vars == <<phase, why, img, code, s, ss, boot, rtl, core, loop>>

GPRs == {0, 1, R_v0, R_a0, R_a1, R_a2, 8, 9, R_ra}

-----------------------------------------------------------------------------
(* Files *)

\* A checkpoint.  loadState asserts that the file is there and its pc not zero.
loadState(x, f) ==
    IF f.pc = 0 THEN Stop(x, "abort")
    ELSE [x EXCEPT !.pc = f.pc, !.gpr = f.gpr @@ Zero(@), !.lo = f.lo, !.hi = f.hi,
                   !.cpr0 = f.cpr0 @@ Zero(@), !.cpr1 = f.cpr1 @@ Zero(@), !.fcr = f.fcr, !.icnt = 0, !.mem = f.mem @@ clear(@)]

\* Fields of an ELF file have the byte order the file declares.
bswap_(f, x, k) == IF f.data = "lsb" THEN x ELSE Reversed(x, k)

LoadSegment(f, mem, ph) ==
    LET va == bswap_(f, ph.vaddr, 4)
        memsz == S(bswap_(f, ph.memsz, 4), WW)
    IN  IF bswap_(f, ph.type, 4) # 1 \/ memsz = 0 THEN mem
        ELSE PutBytes(PutBytes(mem, va, [k \in 1 .. memsz |-> 0]), va, ph.bytes)

load_elf(x, f) ==
    IF ~f.magic \/ f.class # 32 THEN Stop(x, "exit")
    ELSE IF f.data \notin {"lsb", "msb"} THEN Stop(x, "abort")
    ELSE IF bswap_(f, f.machine, 2) # 8 THEN Stop(x, "exit")
    ELSE [x EXCEPT !.pc = bswap_(f, f.entry, 4),
                   !.mem = FoldLeft(LAMBDA mem, ph : LoadSegment(f, mem, ph), clear(@), f.phdrs)]

LoadFile(x, f) == IF f.kind = "dump" THEN loadState(x, f) ELSE load_elf(x, f)

-----------------------------------------------------------------------------
(* The initialisation program *)

li(r, v) == <<[Nop EXCEPT !.op = "lui", !.rs = r, !.rt = r, !.imm = v \div 2^HW],
              [Nop EXCEPT !.op = "ori", !.rs = r, !.rt = r, !.imm = v % 2^HW]>>
mtc1(fs, rt) == [Nop EXCEPT !.op = "mtc1", !.rd = fs, !.rt = rt]
mtlo(rs) == [Nop EXCEPT !.op = "mtlo", !.rs = rs]
mthi(rs) == [Nop EXCEPT !.op = "mthi", !.rs = rs]
ceqs == [Nop EXCEPT !.op = "c.eq"]                  \* 0x46000032: c.eq.s 0, f0, f0

BootFp(x) == FlattenSeq([k \in 1 .. NReg |->
                IF x.cpr1[k - 1] = 0 THEN <<>> ELSE Append(li(1, x.cpr1[k - 1]), mtc1(k - 1, 1))])
BootCodes(x) == FlattenSeq([k \in 1 .. 8 |-> IF x.fcr & 2^(k - 1) # 0 THEN <<ceqs>> ELSE <<>>])
BootHiLo(x) == (IF x.lo = 0 THEN <<>> ELSE Append(li(1, x.lo), mtlo(1)))
               \o (IF x.hi = 0 THEN <<>> ELSE Append(li(1, x.hi), mthi(1)))
BootGprs(x) == FlattenSeq([k \in 1 .. R_ra |->
                IF k \notin GPRs \/ x.gpr[k] = 0 THEN <<>> ELSE li(k, x.gpr[k])])

BootProgram_gprs_first(x) ==
    BootGprs(x) \o BootFp(x) \o BootCodes(x) \o BootHiLo(x) \o <<[Nop EXCEPT !.op = "break"]>>

\* The 128 nops behind the break are only fetched.
BootProgram(x) ==
    BootFp(x) \o BootCodes(x) \o BootHiLo(x) \o BootGprs(x) \o <<[Nop EXCEPT !.op = "break"]>>

-----------------------------------------------------------------------------
(* The core *)

NoReq == [op |-> 0]
NoRsp == <<>>
IdleCore == [npc |-> 0, slot |-> FALSE, dirty |-> {}, req |-> NoReq, rsp |-> NoRsp,
             mon |-> "none", v0 |-> 0, dead |-> FALSE]
StartAt(p) == [IdleCore EXCEPT !.npc = U(p + 4, WW)]

Insn(p) == IF p \in DOMAIN code THEN code[p] ELSE Nop
LineOf(a) == a - (a % LineBytes)
LineSpan(line) == line .. line + LineBytes - 1
DataOps == {"lw", "lb", "lbu", "sw", "sb", "lwc1", "swc1"}
Stores == {"sw", "sb", "swc1"}

\* Executing i with npc behind it, as the architecture says: $0 stays zero, a
\* transfer takes effect behind its slot, and a monitor call returns the answer.
Executed(x, c, i) == IF i.op = "monitor" THEN [x EXCEPT !.gpr[R_v0] = c.v0] ELSE Handler(x, i)
Landed(x, c, i, r) ==
    LET z == [r EXCEPT !.gpr[0] = 0, !.frames = <<>>]
        To(pc, npc, slot) == [x |-> [z EXCEPT !.pc = pc],
                              c |-> [c EXCEPT !.npc = npc, !.slot = slot,
                                              !.mon = IF i.op = "monitor" THEN "none" ELSE @,
                                              !.dirty = IF i.op \in Stores THEN @ \cup {LineOf(EA(x, i))} ELSE @]]
        Past(p) == U(p + 4, WW)
    IN  CASE i.op \in Transfers /\ r.frames # <<>> ->
                To(c.npc, IF r.frames[1].taken THEN r.frames[1].target ELSE Past(c.npc), TRUE)
          [] i.op \in Transfers /\ r.frames = <<>> -> To(r.pc, Past(r.pc), FALSE)
          [] i.op = "monitor" -> To(x.gpr[R_ra], Past(x.gpr[R_ra]), FALSE)
          [] OTHER -> To(c.npc, Past(c.npc), FALSE)
After(x, c, i) == Landed(x, c, i, Executed(x, c, i))

\* The registers the retirement ports report.
GprDst(i) ==
    CASE i.op \in (ShiftOps \ {"monitor"}) \cup ArithOps \cup {"mflo", "mfhi"} -> {i.rd}
      [] i.op \in ImmediateOps \cup {"lw", "lb", "lbu", "mfc1"} -> {i.rt}
      [] i.op \in {"jal", "jalr"} -> {R_ra}
      [] i.op = "monitor" -> {R_v0}
      [] OTHER -> {}
FprDst(i) ==
    CASE i.op = "mtc1" -> {i.rd, i.rd + 1} [] i.op \in FpOps -> {i.sa, i.sa + 1} [] i.op = "lwc1" -> {i.rt, i.rt + 1}
      [] OTHER -> {}

Halts == [break |-> "break", syscall |-> "syscall", unknown |-> "ud"]
Committable(x, c, i) ==
    /\ i.op \notin DOMAIN Halts
    /\ i.op = "monitor" => c.mon = "answered"
    /\ i.op \in DataOps => LineOf(EA(x, i)) \in DOMAIN x.mem

\* A branch is never the first of two, nor does a call, a return or a write of hi,
\* lo or a condition code come second (t_retire_two).
Pairs(i1, i2) ==
    /\ i1.op \notin Transfers \cup {"monitor"}
    /\ i2.op \notin {"jal", "jalr", "jr", "monitor"} \cup MulDivOps \cup {"c.eq"}

-----------------------------------------------------------------------------
(* The main loop *)

\* What the checker runs: one call of execMips, which includes the delay slots of
\* branches (Nest of them at most).
Nest == 4
RunChecker(x, h) ==
    LET Step(y, k) == LET r == Handler(Count(y), [Insn(y.pc) EXCEPT !.h = h])
                      IN  IF y.st = "run" /\ (k = 1 \/ y.frames # <<>>) THEN execMips(y, r) ELSE y
    IN  FoldLeft(Step, x, [k \in 1 .. Nest |-> k])

\* Serving the monitor on s; rsp is monitor_rsp_data.  A write takes all bytes.
Service(x, reason, h) ==
    LET Rsp(v) == [x |-> x, rsp |-> U(v, WW)]
        Put(y) == [x |-> [x EXCEPT !.mem = y.mem], rsp |-> 0]
        a0 == x.gpr[R_a0]
    IN  CASE reason \in {6, 9, 50} -> Rsp(h)         \* open, lseek, cycle
          [] reason = 7  -> [x |-> [x EXCEPT !.mem = per_page_read(x, h).mem], rsp |-> U(h, WW)]
          [] reason = 8  -> Rsp(x.gpr[R_a2])
          [] reason = 10 -> IF S(a0, WW) > 2 THEN Rsp(h) ELSE Rsp(0)
          [] reason = 33 -> Put(ZeroWords(x, {a0, a0 + 4}))
          [] reason = 34 -> Put(ZeroWords(x, {a0 + k : k \in 0 .. 3}))
          [] reason = 35 -> [Put(getargs(x)) EXCEPT !.rsp = sysArgc]
          [] reason \in {51, 52} -> Rsp(0)           \* nuke caches, flush a line
          [] reason = 53 -> Rsp(loop.insns_retired)
          [] reason = 55 -> LET y == [ZeroWords(x, {a0 + 4, a0 + 8}) EXCEPT !.mem = Store(@, a0, 4, 2^(WW - 1))]
                            IN  [x |-> [x EXCEPT !.mem = y.mem, !.gpr[R_v0] = 0], rsp |-> 0]
          [] OTHER -> [x |-> Stop(x, "exit"), rsp |-> 0]

\* retire_reg, retire_reg_fp
Apply(x, e) == [x EXCEPT !.gpr = [r \in DOMAIN @ |-> IF r \in GprDst(e.i) \ {0} THEN e.x.gpr[r] ELSE @[r]],
                         !.cpr1 = [r \in DOMAIN @ |-> IF r \in FprDst(e.i) THEN e.x.cpr1[r] ELSE @[r]]]

\* x is what ss runs with, e the first instruction retired, y the registers of s.
Check_always(x, e, y, h) ==
    LET z == RunChecker(x, h)
    IN  IF e.pc # x.pc
        THEN [ss |-> x, lag |-> loop.last_check + 1, end |-> IF loop.last_check + 1 > 2 THEN "nomatch" ELSE ""]
        ELSE [ss |-> z, lag |-> 0, end |-> IF z.gpr # y.gpr \/ z.cpr1 # y.cpr1 THEN "mismatch" ELSE ""]

Check_patient(x, e, y, h) ==
    IF e.pc # x.pc THEN [ss |-> x, lag |-> loop.last_check + 1, end |-> ""] ELSE [ss |-> RunChecker(x, h), lag |-> 0, end |-> ""]

Check(x, e, y, h) ==
    LET Diverged(z) == z.pc = U(e.pc + 4, WW) /\ (z.gpr # y.gpr \/ z.cpr1 # y.cpr1)
        Verdict(z) == [ss |-> z, lag |-> 0,
                       end |-> IF z.st # "run" THEN z.st ELSE IF Diverged(z) THEN "mismatch" ELSE ""]
    IN  IF e.pc # x.pc
        THEN [ss |-> x, lag |-> loop.last_check + 1, end |-> IF loop.last_check + 1 > 2 THEN "nomatch" ELSE ""]
        ELSE Verdict(RunChecker(x, h))

\* The second instruction is run but not compared.
CheckTwo_ignored(x, e, lag, h) == [ss |-> x, lag |-> lag]
CheckTwo(x, e, lag, h) == IF e.pc = x.pc THEN [ss |-> RunChecker(x, h), lag |-> 0] ELSE [ss |-> x, lag |-> lag]

\* ++last_retire, reset when something retires; counted up to where it matters.
Silence_one(ret) == 1
Silence(ret) == IF ret # <<>> THEN 1 ELSE Min({loop.last_retire, RetireLimit}) + 1

\* Answering the memory request: c is the core, x the bench's state.
Reply(x, c) ==
    IF c.req.op = 4 THEN [x |-> x, rsp |-> [b \in LineSpan(c.req.line) |-> ByteAt(x.mem, b)]]
    ELSE [x |-> [x EXCEPT !.mem = c.req.data @@ @], rsp |-> [b \in LineSpan(c.req.line) |-> 0]]

\* What ends the run, in the order of the tests: m is what the monitor made of
\* s, k1 and k2 what the checker found, quiet the clocks without retirement.
Ending(c, o, m, k1, k2, quiet) ==
    IF m.x.st # "run" THEN m.x.st
    ELSE IF o.ret # <<>> /\ o.ret[1].pc = loop.last_retired_pc THEN "assert"
    ELSE IF k1.end # "" THEN k1.end
    ELSE IF k2.ss.st # "run" THEN k2.ss.st
    ELSE IF quiet > RetireLimit /\ c.mon # "flush" THEN "hang"
    ELSE o.halt

\* The host's answer to the checker: a write takes all bytes.
HostSays(o, h) == IF o.ret # <<>> /\ o.ret[1].i.op = "monitor" /\ o.ret[1].i.imm \div 2 = 8 THEN ss.gpr[R_a2] ELSE h
Answers(asks) == IF asks THEN HostResults ELSE {CHOOSE h \in HostResults : TRUE}

\* One iteration, after the core went to r and c and shows the outputs o: the
\* instructions retired, the monitor call (-1: none) and the reason it halts.
\* The values the code computes once are bound once.
Iterate(r, c, o) ==
    LET n == Len(o.ret)
        quiet == Silence(o.ret)
        wait == IF c.req # NoReq /\ loop.reply = -1 THEN MemLat ELSE loop.reply
    IN  \E hb \in Answers(o.ask >= 0 /\ o.ask \notin {8, 33, 34, 35, 51, 52, 53, 55}),
           hc \in Answers(n > 0 /\ o.ret[1].i.op = "monitor") :
        \E m \in {IF o.ask >= 0 THEN Service(s, o.ask, hb) ELSE [x |-> s, rsp |-> 0]} :
        \E s1 \in {IF n > 0 THEN Apply(m.x, o.ret[1]) ELSE m.x} :
        \E k1 \in {IF n > 0 THEN Check(ss, o.ret[1], s1, HostSays(o, hc)) ELSE [ss |-> ss, lag |-> loop.last_check, end |-> ""]} :
        \E s2 \in {IF n > 1 THEN Apply(s1, o.ret[2]) ELSE s1} :
        \E k2 \in {IF n > 1 THEN CheckTwo(k1.ss, o.ret[2], k1.lag, HostSays(o, hc)) ELSE k1} :
        \E end \in {Ending(c, o, m, k1, k2, quiet)} :
        \E due \in {wait = 0 /\ end = "" /\ c.req # NoReq} :
        \E mem \in {IF due THEN Reply(s2, c) ELSE [x |-> s2, rsp |-> NoRsp]} :
          /\ s' = mem.x /\ ss' = k2.ss
          /\ rtl' = r
          /\ core' = [c EXCEPT !.rsp = mem.rsp, !.v0 = IF o.ask >= 0 THEN m.rsp ELSE @,
                               !.mon = IF o.ask >= 0 THEN "answered" ELSE @]
          /\ loop' = [last_retire |-> IF due THEN 0 ELSE quiet, last_check |-> k2.lag,
                      last_retired_pc |-> IF n > 0 THEN o.ret[1].pc ELSE loop.last_retired_pc,
                      insns_retired |-> loop.insns_retired + n, reply |-> IF wait <= 0 THEN -1 ELSE wait - 1,
                      odd |-> loop.odd \cup (IF o.ask >= 0 THEN {o.ask} ELSE {})]
          /\ why' = IF end # "" THEN end
                    ELSE IF wait = 0 /\ c.req = NoReq THEN "assert"
                    ELSE IF loop.insns_retired + n >= MaxIcnt THEN "icnt"
                    ELSE ""
          /\ phase' = IF why' = "" THEN "run" ELSE "done"
          /\ UNCHANGED <<img, code, boot>>

Quiet == [ret |-> <<>>, ask |-> -1, halt |-> ""]

-----------------------------------------------------------------------------
(* Loading, booting *)

Fresh == initState(NewState(0, [r \in GPRs |-> 0], [r \in {SR} |-> 0], [r \in 0 .. NReg - 1 |-> 0], clear(<<>>)))

Init ==
    /\ phase = "load" /\ why = "" /\ img \in Images /\ code = clear(<<>>) /\ boot = <<>>
    /\ s = Fresh /\ ss = Fresh
    /\ rtl = Fresh                \* the simulated registers start as zero
    /\ core = IdleCore
    /\ loop = [last_retire |-> 0, last_check |-> 0, last_retired_pc |-> 0, insns_retired |-> 0, reply |-> -1, odd |-> {}]

LoadBoth ==
    LET x == LoadFile(s, img)
    IN  /\ phase = "load"
        /\ s' = x /\ ss' = LoadFile(ss, img)
        /\ phase' = IF x.st = "run" THEN "reset" ELSE "done"
        /\ why' = IF x.st = "run" THEN "" ELSE x.st
        /\ code' = IF img.kind = "elf" THEN mkMonitorVectors(img.code, IDT_MONITOR_BASE, IDT_MONITOR_SIZE) ELSE img.code
        /\ UNCHANGED <<img, boot, rtl, core, loop>>

Reset ==
    /\ phase = "reset" /\ phase' = "boot"
    /\ s' = [s EXCEPT !.pc = BootPc]
    /\ boot' = BootProgram(s)
    /\ rtl' = [rtl EXCEPT !.pc = BootPc] /\ core' = StartAt(BootPc)
    /\ UNCHANGED <<why, img, code, ss, loop>>

\* The loop that runs the initialisation program follows the integer registers.
BootStep ==
    /\ phase = "boot" /\ Head(boot).op # "break"
    /\ \E a \in {After(rtl, core, Head(boot))} :
          /\ rtl' = a.x /\ core' = a.c /\ boot' = Tail(boot)
          /\ s' = [s EXCEPT !.gpr = [r \in DOMAIN @ |-> IF r \in GprDst(Head(boot)) THEN a.x.gpr[r] ELSE @[r]]]
    /\ loop' = [loop EXCEPT !.last_retire = 1, !.last_retired_pc = rtl.pc]
    /\ UNCHANGED <<phase, why, img, code, ss>>

\* The break ends it: s is loaded again, over the program and its traces.
Resume ==
    /\ phase = "boot" /\ Head(boot).op = "break" /\ phase' = "run"
    /\ s' = [LoadFile(s, img) EXCEPT !.pc = ss.pc]
    /\ rtl' = [rtl EXCEPT !.pc = ss.pc] /\ core' = StartAt(ss.pc)
    /\ boot' = <<>>
    /\ UNCHANGED <<why, img, code, ss, loop>>

-----------------------------------------------------------------------------
(* What the core does in a cycle *)

Running == phase = "run" /\ ~core.dead /\ core.rsp = NoRsp
Here == Insn(rtl.pc)

\* MaxIdle bounds the cycles a live core does nothing in.
Wait == Running /\ (core.req # NoReq \/ loop.last_retire <= MaxIdle) /\ Iterate(rtl, core, Quiet)

Retire ==
    /\ Running /\ Committable(rtl, core, Here) /\ core.mon \in {"none", "answered"}
    /\ \E a \in {After(rtl, core, Here)} :
          Iterate(a.x, a.c, [Quiet EXCEPT !.ret = <<[pc |-> rtl.pc, i |-> Here, x |-> a.x]>>])

RetireTwo ==
    /\ Running /\ Committable(rtl, core, Here)
    /\ \E a \in {After(rtl, core, Here)} :
          LET i == Insn(a.x.pc)
          IN  /\ Committable(a.x, a.c, i) /\ Pairs(Here, i)
              /\ \E b \in {After(a.x, a.c, i)} :
                    Iterate(b.x, b.c, [Quiet EXCEPT !.ret = <<[pc |-> rtl.pc, i |-> Here, x |-> a.x],
                                                             [pc |-> a.x.pc, i |-> i, x |-> b.x]>>])

Miss == /\ Running /\ core.req = NoReq /\ Here.op \in DataOps
        /\ LET line == LineOf(EA(rtl, Here))
           IN  line \notin DOMAIN rtl.mem /\ Iterate(rtl, [core EXCEPT !.req = [op |-> 4, line |-> line]], Quiet)

\* Writing back a dirty line, which leaves the cache: by choice, or to flush.
WriteBack ==
    /\ Running /\ core.req = NoReq
    /\ \E line \in core.dirty :
          Iterate([rtl EXCEPT !.mem = [b \in DOMAIN @ \ LineSpan(line) |-> @[b]]],
                  [core EXCEPT !.req = [op |-> 7, line |-> line, data |-> [b \in LineSpan(line) |-> rtl.mem[b]]],
                               !.dirty = @ \ {line}], Quiet)

TakeReply ==
    /\ phase = "run" /\ ~core.dead /\ core.rsp # NoRsp
    /\ Iterate([rtl EXCEPT !.mem = IF core.req.op = 4 THEN core.rsp @@ @ ELSE @],
               [core EXCEPT !.req = NoReq, !.rsp = NoRsp], Quiet)

\* A monitor call flushes the caches, asks the host and waits for the answer.
Flush == /\ Running /\ Here.op = "monitor" /\ core.mon = "none"
         /\ Iterate(rtl, [core EXCEPT !.mon = "flush"], Quiet)
Ask == /\ Running /\ core.mon = "flush" /\ core.dirty = {} /\ core.req = NoReq
       /\ Iterate([rtl EXCEPT !.mem = clear(@)], [core EXCEPT !.mon = "ask"], [Quiet EXCEPT !.ask = Here.imm \div 2])

Halt == /\ Running /\ Here.op \in DOMAIN Halts
        /\ Iterate(rtl, core, [Quiet EXCEPT !.halt = Halts[Here.op]])

\* The core hangs, with or without a request pending; its inputs no longer matter.
Die == Running /\ Iterate(rtl, [core EXCEPT !.dead = TRUE], Quiet)
Dead == phase = "run" /\ core.dead /\ Iterate(rtl, core, Quiet)

Cycle == Wait \/ Retire \/ RetireTwo \/ Miss \/ WriteBack \/ TakeReply \/ Flush \/ Ask \/ Halt \/ Die \/ Dead
Next == LoadBoth \/ Reset \/ BootStep \/ Resume \/ Cycle
\* The loop is sequential code: it goes on clocking a core that has stopped.
Spec == Init /\ [][Next]_vars /\ WF_vars(Dead)

-----------------------------------------------------------------------------
\* The state of both simulators and of the core has the widths of interpret.hh, a
\* dirty line is in the cache, and the counters of the main loop stay within what
\* makes it stop (last_retire, last_check and mem_reply_cycle in top.cc).
TypeOK ==
    /\ phase \in {"load", "reset", "boot", "run", "done"}
    /\ \A x \in {s, ss, rtl} :
          /\ x.pc \in 0 .. 2^WW - 1 /\ x.gpr \in [GPRs -> 0 .. 2^WW - 1] /\ x.cpr1 \in [0 .. NReg - 1 -> 0 .. 2^WW - 1]
          /\ \A a \in DOMAIN x.mem : a \in 0 .. 2^WW - 1 /\ x.mem[a] \in 0 .. 2^ByteBits - 1
    /\ \A line \in core.dirty : LineSpan(line) \subseteq DOMAIN rtl.mem
    /\ loop.last_retire \in 0 .. RetireLimit + 1
    /\ loop.last_check \in 0 .. 3 /\ loop.reply \in -1 .. MemLat

\* What a checkpoint must be like for the initialisation program to restore it:
\* $1 has a value of its own if the program uses it, and the condition codes are
\* those one comparison of f0 with itself can give.
Restorable ==
    LET ck == LoadFile(Fresh, img)
    IN  /\ ck.gpr[1] # 0 \/ BootFp(ck) \o BootHiLo(ck) = <<>>
        /\ ck.fcr \in {0, 1} /\ (ck.fcr = 1 => Fpu("eq", WW, ck.cpr1[0], ck.cpr1[0]) = 1)
\* When the main loop starts, the core holds the registers of the checkpoint: the
\* initialisation program of top.cc leaves none of its own values behind, except in
\* $1 and in the condition codes of a checkpoint that is not Restorable.
BootRestores ==
    phase = "run" /\ loop.insns_retired = 0 =>
        /\ \A r \in GPRs \ {1} : rtl.gpr[r] = ss.gpr[r]
        /\ rtl.lo = ss.lo /\ rtl.hi = ss.hi /\ rtl.cpr1 = ss.cpr1
        /\ Restorable => rtl.gpr[1] = ss.gpr[1] /\ rtl.fcr = ss.fcr

\* Programs on which simulator and core may differ by design: a transfer in the
\* delay slot of another, and a write to $0 (the simulator keeps it).
Wellformed ==
    \A p \in DOMAIN img.code :
        /\ img.code[p].op \in Transfers => Insn(p + 4).op \notin Transfers
        /\ 0 \in GprDst(img.code[p]) => img.code[p].op = "or" \/ img.code[p] = Nop
\* A transfer to itself or to its own delay slot.
Tight(p) ==
    \/ Insn(p).op \in BranchOps /\ S(Insn(p).imm, HW) \in {-1, 0}
    \/ Insn(p).op \in JumpOps /\ Insn(p).tgt * 4 \in {p, p + 4}
\* Host calls whose second execution, by the checker, may give another result, and
\* the ones only the bench or only the simulator knows.
Repeatable == {8, 33, 34, 35, 55}
Clean == loop.odd \subseteq Repeatable /\ Restorable /\ Wellformed /\ \A p \in DOMAIN img.code : ~Tight(p)

\* The bench stops a correct core only for cause: a register mismatch, a lost match
\* or an exit of the simulator means the program made a host call that cannot be
\* repeated, or is not Clean otherwise; the assertion on retired_same_pc fails only
\* behind a transfer to itself or to its slot.
NoFalseAlarm ==
    /\ why \in {"mismatch", "nomatch", "signal"} => ~Clean
    /\ why = "exit" /\ code # <<>> => ~Clean \/ LoadFile(Fresh, img).st = "exit"
    /\ why = "assert" => Tight(loop.last_retired_pc) \/ Tight(loop.last_retired_pc - 4)

\* What the core has committed, the lines on their way to memory included, and the
\* delay slot it has still to commit.
Bytes(x) == DOMAIN x.mem
View(a) ==
    CASE a \in DOMAIN rtl.mem -> rtl.mem[a]
      [] a \notin DOMAIN rtl.mem /\ core.req.op = 7 /\ LineOf(a) = core.req.line -> core.req.data[a]
      [] OTHER -> ByteAt(s.mem, a)
Committed ==
    LET whole == [rtl EXCEPT !.mem = [a \in Bytes(s) \cup Bytes(rtl) \cup Bytes(ss) |-> View(a)]]
    IN  IF core.slot THEN After(whole, core, Here).x ELSE whole
MatchesChecker(x) ==
    /\ <<x.pc, x.gpr, x.lo, x.hi, x.cpr1, x.fcr>> = <<ss.pc, ss.gpr, ss.lo, ss.hi, ss.cpr1, ss.fcr>>
    /\ \A a \in Bytes(x) \cup Bytes(ss) : ByteAt(x.mem, a) = ByteAt(ss.mem, a)
\* Between iterations of the main loop the checker is where the core is, or one
\* delay slot ahead: same pc, registers and memory, through caches, write-backs,
\* pairs of retirements and host calls that both carry out.
Lockstep == phase = "run" /\ Clean /\ core.mon # "answered" => MatchesChecker(Committed)

\* A core that no longer does anything is noticed, and the run ends: unless it
\* keeps a memory request up, whose replies restart the count (top.cc, last_retire),
\* or hangs while it flushes.
WatchdogEnds == core.dead /\ core.req = NoReq /\ core.mon # "flush" ~> phase = "done"
=============================================================================
