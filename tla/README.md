# A TLA+ model of mipscore

mipscore is an out-of-order MIPS processor in SystemVerilog (`*.sv`) with a C++
test bench (`top.cc` and friends) that feeds it memory, answers its monitor
calls and runs an instruction-set simulator (`interpret.cc`) in lock step with
it. This directory models the parts of it whose correctness depends on the order
of events, checks them with TLC on small instances, and proves with TLAPS what
holds for every size.

## 1. The system

| part | source | state it keeps | operations | talks to |
|---|---|---|---|---|
| core state machine | `core.sv` 748-1260 | `r_state` (18 states), restart registers, sticky acknowledgements, `r_ds_done`, latched interrupt | one branch of a `case` per clock | everything |
| decode queue | `core.sv` 2403-2505 | 4 entries, four pointers | push 0-2, pop 0-2, clear | fetch queue, allocation |
| reorder buffer | `core.sv` 1604-2059 | entries, `r_rob_complete`, `r_rob_inflight`, four pointers | allocate 0-2, complete, retire 0-2, clear | exec, l1d, test bench |
| renaming | `core.sv` 1296-1601, 2063-2287 | two alias tables, two free lists, for four register classes | rename two, retire two, recover | exec, reorder buffer |
| execution | `exec.sv`, `mul.sv`, `divider.sv`, `fp_*.sv`, `fpu.sv` | three queues, an integer scheduler, write-back shift registers, register files | queue, wake up, issue, write back, squash | core, l1d |
| fetch | `l1i.sv` | fetch queue, cache, predictors, return stack, sticky requests | fetch, refill, restart, flush | core, memory, utlb |
| data cache | `l1d.sv`, `ram*.sv` | two-port pipeline, miss queue, valid/dirty/tag/data arrays | load, store, refill, write back, flush a line, flush all | exec, core, memory, utlb |
| glue | `core_l1d_l1i.sv` | memory arbiter, flush bookkeeping | grant, answer, count flush completions | both caches, memory, test bench |
| TLBs | `tlb.sv`, `utlb.sv` | entries, replacement counter | look up, refill, flush | caches |
| decoder | `decode_mips32.sv` | none | one instruction to one uop | core |
| helpers | `find_first_set.sv`, `popcount.sv`, ... | none | pure functions | all |
| test bench | `top.cc`, `top.hh` | two simulator states (`s` follows the core, `ss` is the checker), memory, reply timer, watchdog counters | load, reset, write a checkpoint's registers into the core, clock, serve the monitor, compare, answer memory, stop | core, memory port, simulator |
| simulator | `interpret.cc`, `interpret64.cc`, `interpret.hh`, `helper.hh` | architectural state, memory; during a branch, the C++ call stack | run one instruction (`execMips`), and inside a branch its delay slot | test bench, host system calls |
| loader, checkpoints, memory | `loadelf.cc`, `saveState.cc`, `sparse_mem.*` | files, the 4 GB mapping | load an ELF file or a checkpoint, read and write bytes | test bench, simulator |
| disassembler, pipeline viewer | `disassemble.cc`, `gen_html`, ... | tables | formatting | test bench |

Everything in the processor advances on one clock; the concurrency is between
units that are each in the middle of something in the same clock, and most
handshakes are pulses that must be remembered by whoever needs them later.

**What is hard.** A branch and its delay slot are two instructions that
must be treated as one: the slot may not have been fetched when the branch turns
out to be mispredicted, may have to be nullified, may be interrupted, may be a
serializing instruction. Squashed uops stay in the units for a while and
complete into reorder-buffer slots that may have a new owner. Two uops are
renamed, two retired and a recovery started from registered state of the
previous clock. Acknowledgements (restart, two flush completions) arrive at any
time and in any order. Both caches share one memory port that reads the address
only when it answers. In the data cache a store is answered long before it is
written, and what a load must see may be in a queue, in a port, in the arrays or
in memory. The simulator runs delay slots by recursion and leans on C++ casts,
which differ between its two versions, and the bench executes every host call
twice. `PROJECT.json` lists these hazards with the lines at which
they bite.

**What makes each part correct.** Core: the retired instructions are the
simulator's, no completion outlives its uop, the host sees memory only
after both caches are clean, the core never stops retiring. Queues: a bounded
FIFO. Renaming: every physical register is in exactly one place, every operand
is the youngest older write, recovery restores the architectural mapping.
Arbiter: every request performed once, on its own line, answered to its owner,
and nobody starves. Data cache: a load
returns the last older store that was not squashed, every operation is answered
once, after a flush memory holds the retired stores, everything ends. Simulator: it
follows the architecture's control flow and arithmetic, in both widths. Bench: the checker is
where the core is, raises no false alarm, and a core that stops is noticed.
Fetch (planned): the fetch queue is the predicted path from the last restart.

## 2. Modules

| module | models | used by |
|---|---|---|
| `RingPtr` | wrap-around pointers with an extra bit: increment, index, full, empty, look-ahead | `RingQueue`, `Core` |
| `Fifo` | abstract: a bounded FIFO that may be cleared, two pushes and pops a clock | refined by `RingQueue` |
| `RingQueue` | the decode queue with its four pointers | run `ring_queue` |
| `RingQueueProofs` | theorems about it | |
| `Rename`, `MCRename` | alias tables, free lists, recovery | run `rename` |
| `RenameProofs` | theorems about it and about the banks | |
| `FreeList`, `MCFreeList` | the two banks and priority encoders that choose the register; EXTENDS `Rename` and refines it | runs `free_list*` |
| `Core`, `MCCore` | state machine, decode queue, reorder buffer, and the units, fetch engine, caches' flushes, simulator as the core sees them | runs `core_*` |
| `CoreProofs` | theorems: types, the buffer's head, the units; flushes, `break` and what the host sees | |
| `CorePathProofs` | theorems: the retired path is the simulator's | |
| `MemPort` | abstract: a port that performs each request of a client once and answers it | refined by `MemArbiter` |
| `MemArbiter` | arbiter, the caches' request handshake, the memory of the test bench | run `mem_arbiter` |
| `MemArbiterProofs` | theorems about it | |
| `L1D`, `MCL1D` | the data cache, between a core that sends, retires, squashes and flushes and a memory of any latency | run `l1d` |
| `L1DProofs` | theorems: types, who is answered, the queues, the assertions | |
| `L1DDataProofs` | theorems: what loads return and what a flush leaves in memory | |
| `Word` | fixed-width integers, byte order, byte-addressed memory | `Iss`, `Iss64`, `TestBench` |
| `Iss`, `Iss64` | every instruction of the two interpreters | `IssRun`, `TestBench` |
| `DelaySlot` | abstract: the architecture's control flow with two program counters | refined by `IssRun` |
| `IssRun`, `MCIss` | both interpreters side by side on one program | run `iss` |
| `IssProofs` | theorems: types, control flow, hi and lo, unaligned accesses, the two interpreters against each other | |
| `TestBench`, `MCTestBench` | loading, boot and the main loop of `top.cc`, the checker being `Iss` | run `testbench` |

### Core

One step is one clock. Every action is one branch of the `case(r_state)` of
`core.sv` and contains `Pipeline(na, nr, clr_rob, clr_dq)`, which is everything
else the clock edge does when `na` uops are allocated and `nr` retired: the
decode queue, the buffer, the units, the fetch engine, the sticky registers.
The variables are the registers they are annotated with; a wire is an operator.

The data are abstracted. A program counter is an index of the constant
`Program`; instructions are the classes the control tells apart (folded, single
cycle, integer divide, FP divide, load, branch, likely branch, jump, the
serializing kinds, illegal). Register values are gone: a branch goes either way
each time it executes, and `arch`, the simulator, follows what the retired
branches did, so `matched` says that the retired program counters are the ones
the simulator visits. Which waiting uop has its operands is left open.

Deliberate simplifications, each with its reason:

- the look-ahead pointers are `Inc` of the pointers (`RingQueueProofs` proves
  that of the four-pointer pattern); freed slots are blanked (`HeadIsLive` says
  nobody reads one unasked);
- shortage of queue entries and of hi/lo registers may stall allocation only
  while the buffer is not empty, because only its uops hold them; a uop that
  writes a register may find the bank `r_bank_sel` selects dry at any time, and the other one a clock
  later;
- the decode queue takes what the fetch queue shows in *every* state, while
  `insn_ack` is given in `ACTIVE` only, as in the code; the next `t_clr_dq` has to
  remove what is taken that way, and `PathIntact` says it does;
- `r_start_int` is gated by `ds_done`, the data cache's queue and the FP divider's
  start are not, as in the code. The divider takes the three clocks it has in the
  build (Verilator, where `machine.vh` defines `DEBUG_FPU`): round, valid, completion signalled.
  The other FP operations start only when popped (`exec.sv:1988`), which the squash forbids, and have no class;
- a restart leaves the fetch queue empty for two clocks (`gap`), the time from
  the acknowledgement to the first instruction;
- `memq_empty` is registered and includes `drain_ds_complete`, itself registered;
- `WRITE_EPC`, `WRITE_CAUSE` only take time; `WRITE_BADVADDR`, `DELAY_SLOT`, `take_trap` and the
  TLB exceptions are never reached; `ERET` and `ARCH_WAIT` end the simulation with
  `$stop`; `WAIT` with interrupts off takes the same path as `break`; the test of
  `serializing_op` in the retiring branch (952-960) can never succeed, because the
  buffer is not empty there. None of these is an action;
- indirect jumps (`jr`, `jalr`) fault on a wrong *target* rather than a wrong
  direction; they go through the same states as a mispredicted `br` and are not
  a class of their own yet;
- `t_rob_next_tail.is_ret` tests `t_uop.srcA` where the first uop's line has its
  own; it affects the return-stack predictor only and is not modelled.

### Rename

The four register classes are renamed by the same code; `LREG`, `PREG` are their
union and `Pool` separates them. `AllocTwo` reads the registered table once for
both uops and forwards from the first to the second, as `t_rob_next_tail` does;
retirement of the same clock is applied to the result. Which free register is
taken is left open, so the theorems hold for every choice of a register that is
free. `FreeList` adds `r_bank_sel`, the two banks and `find_first_set`, with the
tests that guard each allocation, and makes only choices `Rename` allows unless a
bank runs dry (theorem `BanksRefineUntilDry`).

### MemArbiter

`cache[c]` is the handshake of a cache: one clock of `mem_req_valid`, then waiting with
address, opcode and data held. `Idle`, `Gnt` are the arbiter's states; `Memory` is
the reply timer of `top.cc`, which looks at the request when it answers, with any
latency from 0 to `MaxLat`. `mem_req_valid` is the registered `r_req`.

### L1D

One step is one clock, and one action is one branch of `case(r_state)`; `Registers` is what
every clock edge does alike. A request of the core reads the arrays through
port 2 (`p2`) and is answered in the next clock, or pushed to the miss queue `mq`:
loads that miss or that find a queued request for their set, and every store,
which is answered at once and waits there until `graduated` says it has retired. Port 1
(`p1`) replays the queue, refills and writes back. A port holds what the RAMs read
for it (`out`): they return the old contents when written in the same clock, so
forwarding is visible. `mreq` is the request to memory and whether it is still owed.

The core is an environment with all the freedom `core.sv` and `exec.sv` leave it: it sends the
program in order when exec's queue and the buffer have room, retires 0, 1 or 2
answered operations a clock, squashes what has not retired at any clock
(`ds_done`, and one clock later `drain_ds_complete`), still sends a ready uop in
the first of those clocks, restarts once `memq_empty` is seen, and then goes on
with the oldest squashed operation (an interrupt) or behind the youngest (a wrong
path). It flushes a line or the cache when its buffer is empty. Slots are
reused from 0 after a restart, so a late answer would find a new owner.

Simplified: a line has words, not bytes, so the byte lanes of `sb`, `swl` etc. are one store of a word (the
merge itself is in `Iss`); memory and the RAMs start as zero; `SC` is not
decoded by the design; `RELOAD_UTLB` is never entered because nothing sets it;
`WAIT_INJECT_RELOAD` has no action, and `OrderAssertions` says that its condition never
arises; the `move` class stands for the FP/integer merges, which only pass
through; hit counters are left out; registers nobody reads are blanked.

### Simulator

`Iss` is `execMips` of `interpret.cc`: an instruction is a record of its fields, a
state the record of `state_t`. C++ behaviour is kept: unsigned wrap, sign extension
on conversion, undefined shifts (`u`, a free choice), a signal on `INT_MIN / -1`, aborts, exits.
The call stack is the field `frames`: a branch pushes what it will do when its slot returns.
`Iss64` has the functions of `interpret64.cc` that differ. The width of a byte is
the constant `ByteBits` and every width follows from it; host floating-point arithmetic is the
constant operator `Fpu`, host calls return a free choice. `IssRun` runs both
from the same state and maps the 32-bit one to `DelaySlot`. A test of `IssRun` is a
program of decoded instructions (`Decoded`: the widths of the fields; shifts and bit fields within
a word, FP pairs that end at `f31`) and the registers and memory it starts from.

### TestBench

The phases of `top.cc`'s `main`: `LoadBoth`, `Reset`, `BootStep` (the program made up to write a
checkpoint's registers into the core), `Resume`, then one action for each thing a
core can do in a clock (`Wait`, `Retire`, `RetireTwo`, `Miss`, `WriteBack`, `TakeReply`, `Flush`, `Ask`, `Halt`, `Die`, `Dead`),
each followed by the whole loop body `Iterate`: monitor service, retirement into
`s`, the checker on `ss`, the watchdog, the memory reply, the limits, in the order of the code. The core is external
here: a correct one, free in what retires together, what misses, what is evicted and when it stops.
Code is kept apart from data, so self-modifying programs and fetch requests are outside.

## 3. Runs

| run | instance | checks | shows |
|---|---|---|---|
| `ring_queue` | 4 entries, 2 values | `TypeOK`, `PointersInStep`, `ImplementsFifo` | full, empty and both look-aheads are right at every wrap; 4 is the real size of the decode queue |
| `rename` | 3 logical, 6 physical registers in 2 classes, 3 buffer entries | `TypeOK`, `Partition`, `YoungestWriter`, `SourcesIntact`, `RecoverySound` | the pool runs dry, two writers of one register share a clock, retirement frees in the clock of an allocation |
| `free_list` | 2 renamed registers, 8 physical | `ImplementsRename` | the encoders never hand out a taken register or one register twice, also in the serializing states |
| `free_list_full` | 2 renamed registers, 6 physical: the ratio of the design | `HasRegister` | violation, see findings |
| `core_interrupts` | buffer 4, queue 2; ten instructions: branch and likely branch with load and alu slots, `mfc0`, monitor call, cycle count, divide, illegal instruction, break; the pin changes freely | `TypeOK`, `CosimMatches`, `NoStaleCompletion`, `HeadIsLive`, `PathIntact` | mispredictions in all combinations and nested, interrupts in any clock: the retired path is the simulator's, no squashed uop completes later, the pipeline holds the predicted path |
| `core_liveness` | branch, load, line flush, monitor call, break | `HostSeesMemory`, `KeepsRetiring` | flush completions in either order; no wait is for ever |
| `core_slot_hang` | branch with `mfc0` in its slot | `KeepsRetiring` | violation, see findings |
| `core_divide` | buffer 4, queue 2; FP divides in a delay slot, on the wrong path and on the path next to a load; the pin changes freely | `NoStaleCompletion`, `CompleteMeansExecuted` | a divide started in the clock of the squash is finished in time, with no clock to spare |
| `mem_arbiter` | 2 lines, 2 contents, latency 0-2 | `TypeOK`, `NoLostRequest`, `ImplementsPort`, `NoStarvation` | simultaneous pulses, a pulse during the other's grant, write then read of a line; each request is answered |
| `l1d` | 3 sets, 2 tags, lines of 2 words, miss queue 3, exec queue 2, buffer 4, one squash; every program of 3 operations over 5 accesses and six longer ones | `TypeOK`, `LoadsCurrent`, `AnsweredOnce`, `PortTwoClear`, `FlushedIsCurrent`, `OrderAssertions`, `Finishes` | loads meet stores in every stage, evictions of dirty lines, squashes and flushes at every clock |
| `iss` | bytes of 2 bits (words of 8); every opcode on edge-case operands, every alignment, branches over seven kinds of slot | `TypeOK`, `UnalignedPair`, `Agree64`, `ImplementsDelaySlot`, `HiLoExact` | recursion over slots is the architecture's control flow; accumulators, divisions and unaligned pairs are exact; the interpreters agree |
| `testbench` | bytes of 3 bits; 35 images: loops over memory and FP, checkpoints restorable or not, each host call, transfers to themselves, bad files | `TypeOK`, `BootRestores`, `NoFalseAlarm`, `Lockstep`, `WatchdogEnds` | the checker follows a correct core however it retires and evicts, and stops it only for the listed causes |

*Bounds.* The buffer has 4 slots: a branch, its slot and two wrong-path uops,
or two branches with slots; the pointers wrap many times. Two decode-queue
entries are the least with which two can be pushed and popped. Longer programs only repeat
the patterns; each program is chosen so that its classes meet in every relative
position. `MaxLat` 2 lets the other cache's pulse fall before, in and after the
clock of the reply. In `l1d` two tags for a set give evictions, the third set makes the
flush walk pass a clean, a dirty and the last set, and with a miss queue of 3 the almost-full test
bites at two entries; a second squash only repeats the first, because a restart leaves the cache empty-handed. In `iss` the operands
are 0, 1, the largest positive, the most negative and its neighbours, so every sign and carry
case occurs; `MaxIcnt` 3 covers a branch, its slot and the instruction behind. In
`testbench`, `RetireLimit` 4 stands for 2^20, `MaxIdle` bounds only how long a live core is idle, `MaxIcnt` 16 is the option of that name.
Where one property holds only for some programs (`Agree64`, `NoFalseAlarm`, `Lockstep`,
the last set in `FlushedIsCurrent`) the exceptions are named in it and listed as observations below.

*The divider's margin.* No drain waits for the FP divider: `t_divide_ready` is the integer one, and a uop
squashed while it waits leaves `r_rob_inflight`. Its start is not gated by the squash, so a divide at the head of
its queue in the first clock of `ds_done`, *c*, starts all the same. It rounds in *c*+1, is valid in *c*+2 and signals
`complete_valid_2` in *c*+3. `memq_empty` is registered behind the registered
`drain_ds_complete`, so the first clock of `RAT` is *c*+3 too, where `t_clr_rob` goes before the completion (`core.sv:1815`).
One clock more in the divider and `NoStaleCompletion` fails (mutant
`MutDividerComputesExp`); with the clocks of the path without `DEBUG_FPU`, so does `CompleteMeansExecuted`.

*What `OrderAssertions` leaves out.* It states the `$stop`s of `l1d.sv` about the order of events (468, 493, 1564, 1695, 1718,
1906). Line 1365 stops the simulation when a store has waited 1024 clocks at the head of the miss queue; the
model leaves every latency open and bounds no wait in clocks, so this one is not claimed, and `Finishes` says
only that the wait ends. Line 917 is compiled with `VERBOSE_L1D` only; 1714, 1778, 1779, 1786, 1787 and 1911
repeat or contradict the condition they stand under; 1517 reads `in_storebuf` of a request of port 2, which `exec.sv:2318` clears.

*View and symmetry.* `FromHead` (in `MCCore`) looks at the buffer from its head; every
action treats slots alike, so states that differ by a rotation have the same
futures (the argument is at the definition). It is used for invariants only. The
liveness runs use no view. `FreeAtReset` permutes two registers that no
definition names; `rename` has no temporal property.

*Fairness.* `WF(Next)`: the clock does not stop. In `Core` also: a uop that stays in a queue or
unit is eventually served (its operands come from older uops, which leave in
order), the fetch engine ends its refills, serves its
requests and delivers (the memory answers within `mem_lat`), the data cache's
walk ends, the host answers a monitor call and resumes a halted core
(`top.cc` does both in its loop). In `MemArbiter` only `WF(Next)`. In `L1D`: the clock runs, a
sendable operation is sent and an answered one retired eventually, the core
restarts when the cache is drained, memory answers; that it may squash is not assumed. In `TestBench` only `WF(Dead)`: the
loop is sequential code and goes on clocking a core that has stopped.
`NoStarvation` would hold even if grants did not alternate, because a cache
that has been answered needs a clock before it asks again and the other's
request is remembered meanwhile.

## 4. Proofs

TLAPS proves, for every value of the constants that satisfies the named
assumption of each module:

- `RingQueueInvariant`, `RingQueueIsFifo` (`NAssumption`: `N >= 2`). The
  invariant says the look-ahead pointers are the increments of the others and
  at most `N` entries lie between head and tail. Needed because full, empty and
  the look-ahead tests are computed from four registers that are incremented
  separately. The refinement maps the slots from head to tail to a sequence;
  the lemmas `AtMove`, `PushEntries`, `ClockSlides` say how it slides.
- `RenameTypeCorrect`, `RegistersPartitioned`, `AliasTableCurrent`,
  `OperandsIntact`, `RecoveryAlwaysSound` (`RenameAssumption`). None of the five
  is inductive alone. The inductive invariant `RenameInv` is stated of a renaming
  *state*, so the halves of a clock are proved separately: `AllocOneInv`,
  `AllocTwoIsSequential` (renaming two at once with forwarding equals renaming one
  after the other), `RetireOneInv`, `RecoverInv`. The heart is `OldIsArchitectural`:
  the mapping the head replaced is the architectural one, so
  freeing it cannot free an operand of a younger uop.
- `BanksRefineUntilDry` (`FreeListAssumption`: registers are numbered from 1, finitely
  many are renamed). The serving bank's encoder answers a free register if the bank has one, the
  other encoder a different one, because the banks are disjoint. An allocation that waits behind others tests what it uses;
  the one into an empty buffer (the serializing states) tests both banks together and may be served by an empty one: `BankDry`. As long as
  that does not happen every step is a step of `Rename`, for every size. In the design
  the even bank has 31 registers and there are 31 logical ones, so that it can happen: it is
  the finding of `free_list_full`, and by the theorem the only way the choice goes wrong.
- `ArbiterInvariant`, `ArbiterIsPort` (`MemArbiterAssumption`). `NoLostRequest` ties each
  cache's wait to the arbiter's memory of it and the grant to the reply timer; with the types it
  is inductive. The refinement maps the request under grant to the abstract
  port's; its key step is that `Selected` is still the granted cache's request
  when the reply is due.

- Core, for every program, every size of the queues and any pattern of
  mispredictions, latencies and interrupts (`CoreAssumption`: the queue sizes, the operations, and branch
  targets that are in the program). The invariant is built in layers, each usable
  without the next:
  - `ShapeInv` (`CoreProofs`): types, the buffer's pointers with their extra bit, and for each
    state of the machine how many uops the buffer holds. It gives `TypeCorrect` and
    `HeadLive`. Everything about one clock is stated once (`Clock`, `NextIsClock`) and
    shared by the later layers.
  - `UnitsInv` (`CoreProofs`): a unit that works does so for a live, incomplete uop;
    while a drain goes on only what has started is left. Its part `DividerInv` is the argument above in
    invariant form: a busy divider has its uop alone, has passed rounding when `memq_empty` is seen, and is
    signalling when the state is `RAT`. It gives `NoStale` and `CompleteIsExecuted`.
  - `FlushInv`, `BreakInv` (`CoreProofs`): where each of the two flushes stands in each
    state, so that an acknowledgement is neither lost nor left over; a
    `break` is alone in the buffer. They give `HostSees`.
  - `AckInv`, `EntryInv`, `PathInv` (`CorePathProofs`): the restart handshake; a completed branch faults exactly if its
    prediction was wrong; and, for each state, where the architectural position is: in `ACTIVE` the
    uops from the head of the buffer through the decode queue to the fetch cursor are one
    predicted path that starts at the simulator's position and ends at
    the first fault, in recovery the restart goes to where the simulator is once
    the delay slot has been dealt with. They give `Cosimulation` and `PathStays`. They need
    `SlotsPlain`: no serializing instruction in a delay slot. Without it the core hangs or loses the
    branch (`core_slot_hang`, finding 1, and the observation below it).
  - `PathIntact` defines the path by a recursive function, about which nothing can be
    proved by induction here. The invariant says pointwise that each uop follows its
    predecessor; the two agree because a least position at which they
    differ would contradict the recursion equation at that position.
- Data cache, for every number of sets, tags, words, queue and buffer entries, squashes
  and every program (`L1DAssumption`: sizes positive, a miss queue of at least two,
  programs are sequences of operations). `PortTwoAlwaysClear` needs
  only that `mq` is a sequence: a request is accepted while one entry
  besides the last is free and only in a clock that starts no refill, no flush and no replayed load; one clock
  later it may be pushed without looking. The other three, `TypeCorrect`, `AnswersOnce` and
  `OrderAssertionsHold`, follow from `FlowInvariant`, whose parts are
  - `RingInv`: the slots in the buffer are consecutive, and one just retired is not in use again;
  - `MirrorInv`: exec's queue is the end of the buffer, so the rest has been accepted (`NAcc`);
  - `OrderInv`: port 1, miss queue, port 2 and exec's queue hold requests in program order;
  - `OwnInv`: who waits for an answer is in the buffer, unanswered, under its own slot and
    epoch: what `AnsweredOnce` needs, and false as soon as a restart could overtake an answer;
  - `StoreInv`: a queued store is registered in `graduated` alone under its slot, as
    retired only after it has left the buffer: what the `$stop` assertions need;
  - `PortInv`: what a port remembers of its request, and that a store is never followed at once by a refill of its set;
  - `DrainInv`: `n_inflight` is the number of accepted, unanswered operations, so
    `memq_empty` means none: this is what keeps a restart from overtaking an answer. The
    counter moves with the set because at most one answer is given in a clock (`PortTwoClear`);
  - `FlushInv`: one flush at a time, with an empty buffer and an empty miss queue.

  No part is inductive alone: ownership needs the count, the count needs the order, the
  order needs the mirror, and the mirror needs the ring. Each has one lemma for a clock
  (`RingKept` ... `FlushKept`), over lemmas that say what a clock does to each queue
  (`RobMoves`, `QMoves`, `MqMoves`, `P1Next`, `P2Next`).
- The data in the cache (`L1DDataProofs`), under the same assumption. `LoadsAreCurrent` and
  `FlushesAreComplete` follow from `DataInvariant`, which is `FlowInv` and
  - `PendInv`: a store is *pending* (in exec's queue, port 2, the miss queue or port
    1) from the moment it is sent until port 1 writes it, and every store in the
    buffer is pending;
  - `CommitInv`: what has retired, for each word, is the youngest pending store that has
    left the buffer or, if there is none, what the arrays and behind them the
    memory show (`ArrVal`). A store retires before it is written, so the arrays alone lag behind;
  - `LoadInv`: what each waiting load has to return is the youngest pending store older than
    it, or what the cache shows; and a load that hits in port 2 has already read it. This
    is where forwarding matters: port 2 reads the arrays in the clock in which port 1
    may be writing the same line (`t_cm_block`), and goes to the miss queue
    (`p2.busy`) when that holds any request to its set;
  - `LineInv`, `MemInv`: a clean line equals the memory, a line being written back stays as
    it is until the answer, a refill brings the line of the request that missed;
  - `WalkInv`: the sets a flush has passed are invalid.

  The central lemma is `Shows`: over a clock `ArrVal` changes only in the word port 1
  writes, so refills, write-backs and invalidations are invisible and can be set aside in the
  rest of the proof. `LoadInv` is claimed only outside a drain: the answers to squashed operations are dropped.

- The simulator (`IssProofs`), for every width of a byte, both byte orders, every set of tests and every
  answer of the host. `PowersOfTwo` says that `2^(n+1)` is `2 * 2^n`, which the
  provers do not know of exponentiation and TLC evaluates. The theorems have the
  hypothesis `FpuTotal`: the host's floating-point arithmetic returns a number. The results are built from the bottom:
  - arithmetic: what `U`, `S`, the bitwise operators, `Quot` and `Rem`, byte order, loads and stores return and between which bounds. Sums over
    bits or bytes are recursive functions; facts about them come from the least index at which they would fail;
  - `Outcome`: what one instruction can leave behind, of either interpreter. It
    stops; or it goes on straight ahead, with the frames untouched; or it pushes one frame; or it skips a slot; or it goes where the monitor's
    caller is. One lemma per group of instructions (`Outcomes`, `Outcomes64`) proves this for all of them;
  - `IInv`: both states have their widths and the program is one of the tests, decoded. With
    `Outcome` it is inductive and gives `TypeCorrect`;
  - `DelaySlots` needs in addition how a return unwinds the frames (`ReturnFlow`): with one frame, `pc` is the branch's target or
    the word behind the slot, which is where the second program counter was. Deeper nesting is a branch in a
    slot, which the architecture leaves open;
  - `HiLoIsExact`: truncated division on the absolute values, and the accumulator taken apart into `hi` and `lo`;
  - `UnalignedPairs`: each of `lwl`, `lwr`, `swl`, `swr` is described byte by byte (which bytes of the register or of the
    word it takes from where), masks and shifts being sums over bits that split at a byte; a word is its bytes
    (`SameBytes`). The second instruction then completes the first;
  - `InterpretersAgree`: each operation on a sign-extended word, cut back to a word, is the
    operation on the word (`Ext`, `WideCongruent`, `WideAnd`, `WideNor`, `WideSplit` for products), so every handler commutes with `Widen`
    (`HandlersAgree`), and so does the return out of a slot (`WideReturn`) unless a link is owed: the
    32-bit `bgezal` writes `r31` after its slot, the 64-bit one never. The invariant adds that no frame of `t` owes
    one (`LInv`); from `t = Widen(s)` it follows for `s`. The hypothesis `SizeDivides`, `WW` divides `2^WW`, is used for `srav`, whose
    amount is taken modulo the word size: 32 divides 2^32.

`RingQueueInvariant` and `ArbiterInvariant` include the type invariants of their modules.

Left to TLC: liveness (fairness and `ENABLED` are out of the prover's reach) and `TestBench`, whose
properties depend on the images it is given (what a file may hold, which programs
the checker can follow) and whose loader is a fold over the file.

## 5. Findings

1. *A serializing instruction in the slot of a mispredicted branch hangs the
   core* (`core_slot_hang`, `core.sv:833` against `core.sv:1006`): the branch waits
   for its slot to be allocated, the slot waits for an empty buffer.
2. *A serializing uop can be renamed to r0's register* (`free_list_full`, `core.sv:1131`).
   The test looks at both banks, the register comes from one. The even bank holds the home of r0
   and so can be emptied by the other 31 logical registers, the odd one cannot.
   Nothing else can go wrong with the choice (`BanksRefineUntilDry`); the run `free_list`
   has a register to spare and finds no wrong step.

Observations that no document of the repository contradicts, kept as they are in the
models and as exceptions in the properties:

- core: a serializing instruction in the slot of a correctly predicted taken
  branch restarts fetch at its own `pc + 4` and the branch is lost (`core.sv:1141`);
- data cache: the flush walk ends on reaching the last set without looking at it
  (`l1d.sv:1851`);
- simulator: `ext` and `ins` of size 32 and an aligned `swl` shift by 32;
  madd and its kin or a sign-extended `lo` into the accumulator; only `or` guards `$0`; `jalr` always
  links `$31`; `bgezal` links only when taken, after its slot; `sc` always succeeds;
  the unordered comparison is computed as equality; a division by zero gives
  the largest number; host call 34 zeroes seven bytes; `argc` may be one
  more than the strings copied;
- 64-bit simulator: `sw` stores the upper word, `lbu` and `lhu` keep the old upper half,
  `addi` and `sll` are not cut to 32 bits, `srl`, `lwr`, `ins`, `mfc1`, `divu`, `maddu` zero-extend, a negative address is outside
  the mapping, `add` aborts, `bgezal` does not link;
- bench: the boot program leaves its scratch value in `$1` when the checkpoint's is
  zero, restores only condition code 0 and only if `f0` is a number, and no
  coprocessor-0 register; a branch to itself trips the assertion on `retired_same_pc`, a branch to its own slot
  gives a false mismatch; host calls are executed twice, so `read`, `lseek` and clocks may differ; calls 51-53 are
  unknown to the simulator, 37 and 38 to the bench, and end the run; replies to memory requests
  restart the watchdog; only the first of two retired instructions is compared, and only when execution went on sequentially.

Differences in wording met on the way and not turned into runs: the README's
"in order FIFO scheduler" against the out-of-order integer scheduler of `exec.sv`,
its BTB size against `LG_BTB_SZ`.

## 6. Not modelled

The processor's arithmetic on 32 and 64 bits (ALU, multiplier, dividers' results, FPU): out of
TLC's reach at full width and not where the order of events matters; the same
operations are checked in `Iss` at reduced width. Host floating-point
arithmetic. The decoder's bit patterns. Performance counters, statistics, command-line options, `$display`, the
disassembler and the pipeline viewer: formatting. Writing checkpoints: output. `osx_elf.h` is a third-party header.
Branch-predictor contents: predictions are free in `Core`, which covers every predictor.

Code that no build uses: `wrap.sv`, which connects ports that no longer exist; `sim_queue.hh`,
`sim_bitvec.hh`; the page-map memory under `#if 0` in `sparse_mem.hh`; `linux_o32_syscall`, compiled only with
`LINUX_SYSCALL_EMULATION`; `compute_fp_insn`; of `fp_div.sv` the states `COMPUTE_EXP`, `WAIT_FOR_DIVIDE` and `NORMALIZE`, since the
build defines `DEBUG_FPU` with `ENABLE_FPU` and the quotient comes from the host through DPI.

## 7. What is left of the plan

1. `L1I`: the fetch queue, delay-slot flag, refill, TLB miss, restart and flush; refined to the
   cursor `Core` uses. A restart out of `IDLE` keeps `r_delay_slot`
   (`l1i.sv:790`).
2. `Sched`: queues, wake-up, wait bits and the write-back vectors of `exec.sv`,
   to show that two completions never want one port (`exec.sv:625`).
3. `TLB`, `UTLB`; pure helpers (`popcount`, the dividers' step)
   against reference definitions.
4. Indirect jumps in `Core`.
5. Proofs: that the pointers of `Core`'s buffer are `RingQueue`'s.
