-------------------------------- MODULE Core --------------------------------
(***************************************************************************)
(* The in-order ends of the pipeline and the state machine that drives     *)
(* them (core.sv), one clock per step: decode queue, reorder buffer,       *)
(* allocation of up to two uops, retirement of up to two, and the recovery *)
(* from mispredicted branches, interrupts, serializing instructions,       *)
(* monitor calls, breaks and illegal instructions.                         *)
(*                                                                         *)
(* Around it, reduced to what the core can observe: the execution units    *)
(* (exec.sv) as one status per reorder-buffer slot, the fetch engine       *)
(* (l1i.sv) as a cursor on the predicted path with its restart and flush   *)
(* handshakes, and the data cache's flush (l1d.sv).                        *)
(*                                                                         *)
(* Program counters are indices of Program; pc + 1 is the next word.       *)
(* Register values are abstracted: a branch may go either way each time it *)
(* executes, and the oracle below follows the branches that retire.        *)
(***************************************************************************)
EXTENDS Integers, Sequences

CONSTANTS ROB_ENTRIES,   \* 1 << LG_ROB_ENTRIES
          DQ_ENTRIES,    \* 1 << LG_DQ_ENTRIES
          Program,       \* sequence of [op : Ops, tgt : Nat]
          EntryPC,       \* resume_pc of the host
          ExternIrq      \* values the extern_irq pin may take

Ops == {"nop", "ii", "j", "alu", "div", "load", "fdiv", "br", "brl",
        "mfc0", "break", "getcycle", "flushline", "monitor"}

ASSUME CoreAssumption ==
    /\ ROB_ENTRIES \in Nat /\ ROB_ENTRIES >= 2
    /\ DQ_ENTRIES \in Nat /\ DQ_ENTRIES >= 2
    /\ Program \in Seq([op : Ops, tgt : Nat])
    \* targets beyond the program are all the one word past its end
    /\ \A i \in 1 .. Len(Program) : Program[i].tgt <= Len(Program) + 1
    /\ EntryPC \in 1 .. Len(Program)
    /\ ExternIrq \subseteq BOOLEAN /\ FALSE \in ExternIrq

R == INSTANCE RingPtr WITH N <- ROB_ENTRIES

VARIABLES
    \* registers of the state machine
    state,          \* r_state
    ds_done,        \* r_ds_done
    slot,           \* r_has_delay_slot, r_has_nullifying_delay_slot, r_take_br
    restart_valid,  \* r_restart_valid
    restart_pc,     \* r_restart_pc
    got_ack,        \* r_got_restart_ack
    irq,            \* r_extern_irq
    got,            \* r_got_break, r_got_ud
    flush_req,      \* r_flush_req, r_flush_cl_req: what is asked of the caches
    l1i_flushed,    \* r_l1i_flush_complete
    l1d_flushed,    \* r_l1d_flush_complete
    drain,          \* drain_ds_complete
    memq_empty,     \* memq_empty
    \* decode queue and reorder buffer
    dq,             \* r_dq between its pointers, uops [pc, pred]
    in_ds,          \* r_in_delay_slot
    rob,            \* r_rob
    head, tail,     \* r_rob_head_ptr, r_rob_tail_ptr
    complete,       \* r_rob_complete
    inflight,       \* r_rob_inflight
    \* the parts around the core
    x,              \* the execution units, by reorder-buffer slot
    fdiv,           \* the FP divider, which keeps its own copy of the slot
    fe,             \* the fetch engine
    l1d,            \* the data cache's flush machine
    flush_state,    \* r_flush_state of core_l1d_l1i.sv; in_flush_mode outside FLUSH_IDLE
    \* what the test bench sees
    retire_valid,   \* retire_valid + retire_two_valid
    arch,           \* the instruction-set simulator that shadows the core
    matched         \* the uops that retired are the ones the simulator runs

fsm == <<state, ds_done, slot, restart_valid, restart_pc, irq, got,
         flush_req, l1i_flushed, l1d_flushed>>
vars == <<fsm, got_ack, drain, memq_empty, dq, in_ds, rob, head, tail, complete, inflight,
          x, fdiv, fe, l1d, flush_state, retire_valid, arch, matched>>

-----------------------------------------------------------------------------
(* Instructions (decode_mips32.sv, exec.sv).                               *)

Slots == R!Index
PC == 0 .. (Len(Program) + 2)

\* Wrong-path fetch past the end of the program finds nops.
Op(pc) == IF pc \in 1 .. Len(Program) THEN Program[pc].op ELSE "nop"
Tgt(pc) == IF pc \in 1 .. Len(Program) THEN Program[pc].tgt ELSE 0
Plus(pc, n) == IF pc + n > Len(Program) + 1 THEN Len(Program) + 1 ELSE pc + n

Folded == {"nop", "ii", "j"}                      \* t_fold_uop
HasDelaySlot == {"br", "brl", "j"}                \* has_delay_slot, is_br
Nullifying == {"brl"}                             \* has_nullifying_delay_slot
Monitors == {"getcycle", "flushline", "monitor"}  \* MONITOR 50/53, 52, others and SYSCALL
Serializing == {"mfc0", "break"} \cup Monitors    \* serializing_op
SingleCycle == Serializing \cup {"alu", "br", "brl"}
WritesHiLo == {"div"}                             \* hilo_dst_valid
WritesRegister == {"alu", "load", "fdiv"}         \* dst_valid, fp_dst_valid

\* A conditional branch is predicted either way, the others always taken.
Predictions(pc) == IF Op(pc) = "br" THEN BOOLEAN ELSE {Op(pc) \in {"brl", "j"}}

\* One step along a path: tgt # 0 says that pc is the delay slot of a branch
\* that goes to tgt.
Follow(c, taken) ==
    IF c.tgt # 0 THEN [pc |-> c.tgt, tgt |-> 0]
    ELSE IF Op(c.pc) \in HasDelaySlot /\ taken
         THEN [pc |-> Plus(c.pc, 1), tgt |-> Tgt(c.pc)]
    ELSE IF Op(c.pc) \in Nullifying THEN [pc |-> Plus(c.pc, 2), tgt |-> 0]
    ELSE [pc |-> Plus(c.pc, 1), tgt |-> 0]

\* The same for the instruction-set simulator: a monitor call returns to $ra.
Executes(c, taken) ==
    IF Op(c.pc) \in Monitors THEN [pc |-> Tgt(c.pc), tgt |-> 0] ELSE Follow(c, taken)

\* complete_bundle_1.faulted and .restart_pc, by what the uop turned out to do
\* (a monitor call is flagged too, but leaves the buffer in WAIT_FOR_MONITOR).
Faulted(u, take) ==
    \/ Op(u.pc) \in {"br", "brl"} /\ take # u.pred
    \/ Op(u.pc) \in {"break"} \cup Monitors
MutTargetPCSlotTwice(e) ==
    IF Op(e.pc) \in HasDelaySlot THEN IF e.take THEN Tgt(e.pc) ELSE Plus(e.pc, 1)
    ELSE IF Op(e.pc) = "break" THEN e.pc ELSE IF Op(e.pc) \in Monitors THEN Tgt(e.pc)
    ELSE Plus(e.pc, 1)
TargetPC(e) ==
    IF Op(e.pc) \in HasDelaySlot THEN IF e.take THEN Tgt(e.pc) ELSE Plus(e.pc, 2)
    ELSE IF Op(e.pc) = "break" THEN e.pc
    ELSE IF Op(e.pc) \in Monitors THEN Tgt(e.pc)
    ELSE Plus(e.pc, 1)

-----------------------------------------------------------------------------
(* Reading the reorder buffer.  A freed slot is blanked here; the RTL      *)
(* leaves the old entry in place (HeadIsLive says nothing reads it).       *)

Blank == [pc |-> 0, pred |-> FALSE, flt |-> FALSE, take |-> FALSE, ds |-> FALSE]

HeadSlot == R!Idx(head)
NextSlot == R!Idx(R!Inc(head))
RobHead == rob[HeadSlot]
RobNextHead == rob[NextSlot]
RobEmpty == R!IsEmpty(head, tail)
RobNextEmpty == R!NextEmpty(R!Inc(head), tail)
HeadComplete == HeadSlot \in complete
Live == {R!At(head, i) : i \in 0 .. (R!Count(head, tail) - 1)}

\* t_can_retire_rob_head: a faulted branch waits for its delay slot to be
\* allocated behind it.
MutCanRetireNoSlot == HeadComplete /\ ~RobEmpty
CanRetire ==
    /\ HeadComplete
    /\ ~RobEmpty
    /\ RobHead.flt /\ Op(RobHead.pc) \in HasDelaySlot => ~RobNextEmpty

\* t_retire_two.  A second uop that writes hi and lo waits (valid_hilo_dst); so
\* would a call, a return and a writer of the FP condition codes, of which Ops
\* has none.
CanRetireTwo ==
    /\ ~RobNextEmpty
    /\ ~RobHead.flt
    /\ ~RobNextHead.flt
    /\ NextSlot \in complete
    /\ Op(RobHead.pc) \notin HasDelaySlot
    /\ Op(RobNextHead.pc) \notin WritesHiLo

\* How many uops t_alloc and t_alloc_two take.  Queue entries and hi/lo
\* registers are held by uops of the reorder buffer only, so they run short only
\* when it is not empty.  A register also has to be in the bank that r_bank_sel
\* selects, which may be dry for a clock whatever the buffer holds.
CanAlloc ==
    /\ dq # <<>>
    /\ Op(dq[1].pc) \notin Serializing
    /\ ~R!IsFull(head, tail)
CanAllocTwo ==
    /\ CanAlloc
    /\ Len(dq) >= 2
    /\ Op(dq[2].pc) \notin Serializing \cup WritesHiLo
    /\ ~R!NextFull(head, R!Inc(tail))
AllocCounts ==
    {n \in 0 .. 2 : /\ n = 0 /\ CanAlloc => ~RobEmpty \/ Op(dq[1].pc) \in WritesRegister
                    /\ n = 1 => CanAlloc
                    /\ n = 2 => CanAllocTwo}

-----------------------------------------------------------------------------
(* The execution units.  A uop waits in its queue or scheduler (its wait   *)
(* bit is set), is started (single-cycle and divide uops: the wait bit     *)
(* falls one clock later), runs in the data cache or the integer divider,  *)
(* and is done for the one clock in which its completion is signalled.  An *)
(* FP divide moves from its queue to fdiv, which takes three clocks in the *)
(* build there is (DEBUG_FPU).  One uop of each kind may leave its queue   *)
(* in a clock, and one of each may finish.  Which one has its operands is  *)
(* left open.                                                              *)

InUnit(st, ops) == {i \in Slots : x[i] = st /\ Op(rob[i].pc) \in ops}
UpToOne(S) == {{}} \cup {{i} : i \in S}

Waiting == {i \in Slots : x[i] \in {"wait", "start"}}      \* uq_wait, mq_wait, fq_wait

\* complete_valid_1, complete_valid_2, core_mem_rsp_valid
Done == {i \in Slots : x[i] = "done" \/ (fdiv.st = "done" /\ fdiv.slot = i)}

\* r_start_int is gated by ds_done; the memory queue's push is not, nor is the
\* start of the FP divider, so both may take a uop that is being squashed.  The
\* divider can be started when it is neither active nor valid (t_fp_div_active).
Issues ==
    {p \cup m \cup f :
        p \in UpToOne(IF ds_done THEN {} ELSE InUnit("wait", SingleCycle \cup {"div"})),
        m \in UpToOne(InUnit("wait", {"load"})),
        f \in UpToOne(IF fdiv.st \in {"idle", "done"} THEN InUnit("wait", {"fdiv"}) ELSE {})}
Finishes == {a \cup b : a \in UpToOne(InUnit("run", {"load"})), b \in UpToOne(InUnit("run", {"div"}))}

\* The status of slot i after a clock in which the slots of go left their queue
\* and those of fin finished.
Executed(i, go, fin) ==
    IF i \in go
    THEN IF Op(rob[i].pc) = "fdiv" THEN "idle" ELSE IF Op(rob[i].pc) = "load" THEN "run" ELSE "start"
    ELSE IF x[i] = "wait" /\ ds_done THEN "idle"                \* t_flash_clear
    ELSE IF x[i] = "start" /\ Op(rob[i].pc) = "div" THEN IF ds_done THEN "idle" ELSE "run"
    ELSE IF x[i] = "start" \/ i \in fin THEN "done"
    ELSE IF x[i] = "done" THEN "idle"
    ELSE x[i]

\* The FP divider: ROUND, then DONE with its valid output, which is registered
\* into complete_valid_2.
FpStart(go, st) ==
    LET f == {i \in go : Op(rob[i].pc) = "fdiv"}
    IN  IF f = {} THEN [st |-> "idle", slot |-> 0] ELSE [st |-> st, slot |-> CHOOSE i \in f : TRUE]
\* Mutants: as synthesized without DEBUG_FPU, the exponent takes a clock, and so
\* does at the least the division of the mantissas.
MutDividerComputesExp(go) ==
    CASE fdiv.st = "exp" -> [fdiv EXCEPT !.st = "round"]
      [] fdiv.st = "round" -> [fdiv EXCEPT !.st = "valid"]
      [] fdiv.st = "valid" -> [fdiv EXCEPT !.st = "done"]
      [] OTHER -> FpStart(go, "exp")
MutDividerDivides(go) ==
    CASE fdiv.st = "exp" -> [fdiv EXCEPT !.st = "wait"]
      [] fdiv.st = "wait" -> [fdiv EXCEPT !.st = "round"]
      [] fdiv.st = "round" -> [fdiv EXCEPT !.st = "valid"]
      [] fdiv.st = "valid" -> [fdiv EXCEPT !.st = "done"]
      [] OTHER -> FpStart(go, "exp")
Divider(go) ==
    CASE fdiv.st = "round" -> [fdiv EXCEPT !.st = "valid"]
      [] fdiv.st = "valid" -> [fdiv EXCEPT !.st = "done"]
      [] OTHER -> FpStart(go, "round")

-----------------------------------------------------------------------------
(* The fetch engine.  [pc, tgt] is the path position of the oldest         *)
(* instruction of the fetch queue; gap counts the clocks a restart leaves  *)
(* the queue empty.  Outside those clocks the engine may be refilling its  *)
(* cache or its TLB and keep a request waiting.                            *)

FeStates == {"IDLE", "ACTIVE", "FLUSH_CACHE"}

\* insn, insn_two: what the fetch queue shows.
Offers ==
    IF fe.st # "ACTIVE" \/ fe.gap # 0 THEN {<<>>}
    ELSE LET one == {[pc |-> fe.pc, pred |-> p] : p \in Predictions(fe.pc)}
             nxt(u) == Follow([pc |-> fe.pc, tgt |-> fe.tgt], u.pred).pc
         IN  {<<>>} \cup {<<u>> : u \in one}
             \cup UNION {{<<u, [pc |-> nxt(u), pred |-> p]>> : p \in Predictions(nxt(u))} : u \in one}

\* What restart_valid and flush_req make of the engine, when acked uops of ins
\* leave the fetch queue.  Both requests are sticky; a flush goes first; IDLE
\* knows restarts only.
Fetch(ins, acked) ==
    LET nreq == restart_valid \/ fe.req
        nflush == flush_req = "all" \/ fe.flush
        cursor == [pc |-> fe.pc, tgt |-> fe.tgt]
        moved == IF acked = 0 THEN cursor
                 ELSE IF acked = 1 THEN Follow(cursor, ins[1].pred)
                 ELSE Follow(Follow(cursor, ins[1].pred), ins[2].pred)
        idle(st, done) == [st |-> st, pc |-> moved.pc, tgt |-> moved.tgt, req |-> nreq, ack |-> FALSE,
                           gap |-> IF fe.gap = 0 THEN 0 ELSE fe.gap - 1, flush |-> nflush, done |-> done]
        idling == idle(fe.st, FALSE)
        flushed == idle("IDLE", TRUE)
        restarted == [st |-> "ACTIVE", pc |-> restart_pc, tgt |-> 0, req |-> FALSE, ack |-> TRUE,
                      gap |-> 2, flush |-> nflush, done |-> FALSE]
        flushing == [st |-> "FLUSH_CACHE", pc |-> 0, tgt |-> 0, req |-> nreq, ack |-> FALSE,
                     gap |-> 0, flush |-> FALSE, done |-> FALSE]
    IN  CASE fe.st = "IDLE" -> {IF nreq THEN restarted ELSE idling}
          [] fe.st = "FLUSH_CACHE" -> {idling, flushed}
          [] fe.st = "ACTIVE" -> {IF nflush THEN flushing ELSE IF nreq THEN restarted ELSE idling}
                                 \cup (IF fe.gap = 0 THEN {idling} ELSE {})

-----------------------------------------------------------------------------
(* One clock of everything the state machine does not own, when it         *)
(* allocates na uops, retires nr, and raises t_clr_rob or t_clr_dq.        *)

\* t_rob_tail, t_rob_next_tail.
Entry(u, ds) == [pc |-> u.pc, pred |-> u.pred, flt |-> Op(u.pc) = "ii",
                 take |-> Op(u.pc) = "j", ds |-> ds]

\* What complete_bundle_1 and _2 leave in the entry of a uop that is done.
Completed(e, b) == [pc |-> e.pc, pred |-> e.pred, flt |-> Faulted(e, b), take |-> b, ds |-> e.ds]

MutAcceptedWhenFull(ins) == Len(ins)
Accepted(ins) ==
    IF Len(ins) = 0 \/ Len(dq) = DQ_ENTRIES THEN 0
    ELSE IF Len(ins) = 2 /\ Len(dq) + 2 <= DQ_ENTRIES THEN 2 ELSE 1

\* The queue takes what the fetch engine shows in every state; the engine is
\* told so (insn_ack) in ACTIVE only.
Decode(na, clr_dq) ==
    \E ins \in Offers :
        LET n == Accepted(ins) IN
        /\ dq' = IF clr_dq THEN <<>>
                 ELSE SubSeq(dq, na + 1, Len(dq)) \o SubSeq(ins, 1, n)
        /\ fe' \in Fetch(ins, IF state = "ACTIVE" THEN n ELSE 0)

\* r_rob, r_rob_complete, r_rob_inflight, the units, and r_in_delay_slot.
Buffer(na, nr, clr_rob, clr_dq) ==
    LET t1 == R!Idx(tail)
        t2 == R!Idx(R!Inc(tail))
        new == (IF na >= 1 THEN {t1} ELSE {}) \cup (IF na = 2 THEN {t2} ELSE {})
        uop(i) == IF i = t1 THEN dq[1] ELSE dq[2]
        fold == {i \in new : Op(uop(i).pc) \in Folded}
        freed == (IF nr >= 1 THEN {HeadSlot} ELSE {}) \cup (IF nr = 2 THEN {NextSlot} ELSE {})
        branches == {i \in Done : Op(rob[i].pc) \in {"br", "brl"}}
    IN  /\ head' = IF clr_rob THEN 0 ELSE R!Move(head, nr)
        /\ tail' = IF clr_rob THEN 0 ELSE R!Move(tail, na)
        /\ \E take \in [branches -> BOOLEAN] :
              rob' = [i \in Slots |->
                  IF clr_rob THEN Blank
                  ELSE IF i \in new
                       THEN Entry(uop(i), IF i = t1 THEN in_ds ELSE Op(dq[1].pc) \in HasDelaySlot)
                  ELSE IF i \in freed THEN Blank
                  ELSE IF i \in Done
                       THEN Completed(rob[i], i \in branches /\ take[i])
                  ELSE rob[i]]
        /\ complete' = IF clr_rob THEN {} ELSE (complete \ (new \cup freed)) \cup fold \cup Done
        /\ inflight' = IF ds_done THEN inflight \ (Waiting \cup Done)
                       ELSE (inflight \ Done) \cup (new \ fold)
        /\ \E go \in Issues, fin \in Finishes :
              /\ x' = [i \in Slots |-> IF i \in new \ fold THEN "wait" ELSE Executed(i, go, fin)]
              /\ fdiv' = Divider(go)
        /\ in_ds' = IF na >= 1 THEN Op(dq[na].pc) \in HasDelaySlot
                    ELSE IF clr_dq \/ clr_rob THEN FALSE ELSE in_ds

\* retire_pc and retire_two_pc against the simulator, which runs one
\* instruction per retired uop.
Retire(nr) ==
    LET one == Executes(arch, RobHead.take)
        two == Executes(one, RobNextHead.take)
    IN  /\ retire_valid' = nr
        /\ arch' = IF nr = 0 THEN arch ELSE IF nr = 1 THEN one ELSE two
        /\ matched' = /\ nr >= 1 => RobHead.pc = arch.pc
                      /\ nr = 2 => RobNextHead.pc = one.pc

GotAck == state # "ACTIVE" /\ (got_ack \/ fe.ack)          \* n_got_restart_ack

\* The flush bookkeeping of core_l1d_l1i.sv: a full flush is on until both caches
\* have reported.
FlushState ==
    IF flush_state = "FLUSH_IDLE"
    THEN IF flush_req = "all" THEN "WAIT_FOR_L1D_L1I" ELSE "FLUSH_IDLE"
    ELSE LET d == l1d = "done" \/ flush_state = "GOT_L1D"
             i == fe.done \/ flush_state = "GOT_L1I"
         IN  IF d /\ i THEN "FLUSH_IDLE" ELSE IF d THEN "GOT_L1D"
             ELSE IF i THEN "GOT_L1I" ELSE "WAIT_FOR_L1D_L1I"

Pipeline(na, nr, clr_rob, clr_dq) ==
    /\ Decode(na, clr_dq)
    /\ Buffer(na, nr, clr_rob, clr_dq)
    /\ got_ack' = GotAck
    /\ drain' = ds_done
    /\ memq_empty' = (drain /\ InUnit("run", {"load"}) = {})
    /\ l1d' \in (IF flush_req # "none" THEN {"flush"}
                 ELSE IF l1d = "flush" THEN {"flush", "done"} ELSE {"idle"})
    /\ flush_state' = FlushState

-----------------------------------------------------------------------------
(* The state machine: one action per branch of its case statement.         *)

L1iFlushed == l1i_flushed \/ fe.done                       \* n_l1i_flush_complete
MutL1dFlushedEarly == l1d_flushed \/ l1d # "idle"
MutL1dFlushedPulse == l1d = "done"
L1dFlushed == l1d_flushed \/ l1d = "done"                  \* n_l1d_flush_complete

NoRestart == restart_valid' = FALSE /\ restart_pc' = restart_pc
RestartAt(pc) == restart_valid' = TRUE /\ restart_pc' = pc
NoFlush == flush_req' = "none" /\ l1i_flushed' = L1iFlushed /\ l1d_flushed' = L1dFlushed
Flush(what) == flush_req' = what /\ l1i_flushed' = L1iFlushed /\ l1d_flushed' = L1dFlushed
LatchIrq == \E e \in ExternIrq : irq' = (irq \/ e)

MutTakesIrqInSlot == state = "ACTIVE" /\ irq /\ ~RobEmpty
TakesIrq == state = "ACTIVE" /\ irq /\ ~RobEmpty /\ ~RobHead.ds

\* ACTIVE: an interrupt abandons everything in flight and refetches the head.
Interrupt ==
    /\ TakesIrq
    /\ Pipeline(0, 0, FALSE, FALSE) /\ Retire(0)
    /\ state' = "EXCEPTION_DRAIN"
    /\ ds_done' = TRUE
    /\ irq' = FALSE
    /\ RestartAt(RobHead.pc)
    /\ NoFlush
    /\ UNCHANGED <<slot, got>>

\* ACTIVE: the head faulted; it retires, and so does its delay slot later.
Fault ==
    /\ state = "ACTIVE" /\ ~TakesIrq /\ CanRetire /\ RobHead.flt
    /\ Op(RobHead.pc) \notin {"break", "ii"}
    /\ Pipeline(0, 1, FALSE, FALSE) /\ Retire(1)
    /\ state' = "DRAIN"
    /\ ds_done' = (Op(RobHead.pc) \notin HasDelaySlot)
    /\ slot' = [has |-> Op(RobHead.pc) \in HasDelaySlot, null |-> Op(RobHead.pc) \in Nullifying,
                take |-> RobHead.take]
    /\ RestartAt(TargetPC(RobHead))
    /\ NoFlush /\ LatchIrq
    /\ UNCHANGED got

\* ACTIVE: a break or an illegal instruction stops the machine.
FaultHalt ==
    /\ state = "ACTIVE" /\ ~TakesIrq /\ CanRetire /\ RobHead.flt
    /\ Op(RobHead.pc) \in {"break", "ii"}
    /\ Pipeline(0, 1, FALSE, FALSE) /\ Retire(1)
    /\ state' = "WRITE_EPC"
    /\ got' = (IF Op(RobHead.pc) = "break" THEN "break" ELSE "ud")
    /\ slot' = [has |-> FALSE, null |-> FALSE, take |-> RobHead.take]
    /\ restart_valid' = FALSE /\ restart_pc' = TargetPC(RobHead)
    /\ Flush("all") /\ LatchIrq
    /\ UNCHANGED ds_done

\* ACTIVE: one or two uops retire while others are allocated.
Graduate ==
    /\ state = "ACTIVE" /\ ~TakesIrq /\ CanRetire /\ ~RobHead.flt
    /\ \E na \in AllocCounts : Pipeline(na, IF CanRetireTwo THEN 2 ELSE 1, FALSE, FALSE)
    /\ Retire(IF CanRetireTwo THEN 2 ELSE 1)
    /\ NoRestart /\ NoFlush /\ LatchIrq
    /\ UNCHANGED <<state, ds_done, slot, got>>

MustSerialize == dq # <<>> /\ Op(dq[1].pc) \in Serializing /\ RobEmpty

\* ACTIVE: nothing retires; uops may be allocated.
Allocate ==
    /\ state = "ACTIVE" /\ ~TakesIrq /\ ~CanRetire /\ ~MustSerialize
    /\ \E na \in AllocCounts : Pipeline(na, 0, FALSE, FALSE)
    /\ Retire(0)
    /\ NoRestart /\ NoFlush /\ LatchIrq
    /\ UNCHANGED <<state, ds_done, slot, got>>

\* ACTIVE: a serializing uop is next and the reorder buffer is empty.
Serialize ==
    /\ state = "ACTIVE" /\ ~TakesIrq /\ ~CanRetire /\ MustSerialize
    /\ Pipeline(0, 0, FALSE, FALSE) /\ Retire(0)
    /\ state' = CASE Op(dq[1].pc) \in {"mfc0", "break"} -> "ALLOC_FOR_SERIALIZE"
                  [] Op(dq[1].pc) = "getcycle" -> "HANDLE_MONITOR"
                  [] Op(dq[1].pc) \in {"flushline", "monitor"} -> "MONITOR_FLUSH_CACHE"
    /\ flush_req' = CASE Op(dq[1].pc) = "monitor" -> "all"
                      [] Op(dq[1].pc) = "flushline" -> "line"
                      [] OTHER -> "none"
    /\ l1i_flushed' = (L1iFlushed \/ Op(dq[1].pc) = "flushline")
    /\ l1d_flushed' = L1dFlushed
    /\ NoRestart /\ LatchIrq
    /\ UNCHANGED <<ds_done, slot, got>>

\* When a drain may end: nothing in flight, nothing in the data cache, the
\* integer divider idle.
MutDrainedIgnoresMemq == inflight = {} /\ drain /\ InUnit("run", {"div"}) = {}
Drained == inflight = {} /\ memq_empty /\ InUnit("run", {"div"}) = {}

\* DRAIN: the delay slot of the faulted branch retires (or is nullified), then
\* everything younger is squashed and leaves the units.
Drain ==
    /\ state = "DRAIN"
    /\ LET ends == HeadComplete /\ ~ds_done /\ (slot.null \/ slot.has)
           nr == IF ends /\ (slot.null => slot.take) THEN 1 ELSE 0
       IN  /\ Pipeline(0, nr, FALSE, FALSE) /\ Retire(nr)
           /\ ds_done' = (ds_done \/ ends)
    /\ state' = IF ds_done /\ Drained THEN "RAT" ELSE "DRAIN"
    /\ NoRestart /\ NoFlush /\ LatchIrq
    /\ UNCHANGED <<slot, got>>

ExceptionDrain ==
    /\ state = "EXCEPTION_DRAIN"
    /\ Pipeline(0, 0, FALSE, FALSE) /\ Retire(0)
    /\ state' = IF Drained THEN "RAT" ELSE "EXCEPTION_DRAIN"
    /\ NoRestart /\ NoFlush /\ LatchIrq
    /\ UNCHANGED <<ds_done, slot, got>>

\* RAT: alias tables and free lists are restored (Rename!RatCopy) and the
\* queues cleared, for as long as the fetch engine has not restarted.
Rat ==
    /\ state = "RAT"
    /\ Pipeline(0, 0, TRUE, TRUE) /\ Retire(0)
    /\ state' = IF GotAck THEN "ACTIVE" ELSE "RAT"
    /\ ds_done' = (ds_done /\ ~GotAck)
    /\ NoRestart /\ NoFlush /\ LatchIrq
    /\ UNCHANGED <<slot, got>>

\* A serializing uop is allocated alone into an empty buffer; t_alloc needs
\* entries, and a register of either bank, that only uops of the buffer could
\* hold.
AllocAlone == IF dq # <<>> /\ RobEmpty THEN {1} ELSE IF dq # <<>> THEN {0, 1} ELSE {0}

AllocForSerialize ==
    /\ state = "ALLOC_FOR_SERIALIZE"
    /\ \E na \in AllocAlone :
          /\ Pipeline(na, 0, FALSE, FALSE) /\ Retire(0)
          /\ state' = IF na = 1 THEN "WAIT_FOR_SERIALIZE_AND_RESTART" ELSE "ALLOC_FOR_SERIALIZE"
    /\ NoRestart /\ NoFlush /\ LatchIrq
    /\ UNCHANGED <<ds_done, slot, got>>

AllocForMonitor ==
    /\ state = "ALLOC_FOR_MONITOR"
    /\ \E na \in AllocAlone : Pipeline(na, 0, FALSE, FALSE)
    /\ Retire(0)
    /\ state' = "WAIT_FOR_MONITOR"
    /\ NoRestart /\ NoFlush /\ LatchIrq
    /\ UNCHANGED <<ds_done, slot, got>>

\* The uop has executed: fetch is restarted behind it, and the restart is
\* requested again in every clock until it is acknowledged.
WaitForSerialize ==
    /\ state = "WAIT_FOR_SERIALIZE_AND_RESTART"
    /\ Pipeline(0, 0, FALSE, HeadComplete) /\ Retire(0)
    /\ IF HeadComplete THEN RestartAt(TargetPC(RobHead)) ELSE NoRestart
    /\ state' = IF HeadComplete /\ GotAck THEN "ACTIVE" ELSE "WAIT_FOR_SERIALIZE_AND_RESTART"
    /\ NoFlush /\ LatchIrq
    /\ UNCHANGED <<ds_done, slot, got>>

\* The same for a monitor call, which retires here.
WaitForMonitor ==
    /\ state = "WAIT_FOR_MONITOR"
    /\ LET nr == IF HeadComplete /\ GotAck THEN 1 ELSE 0
       IN  /\ Pipeline(0, nr, FALSE, HeadComplete) /\ Retire(nr)
           /\ state' = IF nr = 1 THEN "ACTIVE" ELSE "WAIT_FOR_MONITOR"
    /\ IF HeadComplete THEN RestartAt(TargetPC(RobHead)) ELSE NoRestart
    /\ NoFlush /\ LatchIrq
    /\ UNCHANGED <<ds_done, slot, got>>

\* Both flush states wait for two sticky completions and consume them.
FlushWait(from, to) ==
    /\ state = from
    /\ Pipeline(0, 0, FALSE, FALSE) /\ Retire(0)
    /\ IF L1iFlushed /\ L1dFlushed
       THEN state' = to /\ l1i_flushed' = FALSE /\ l1d_flushed' = FALSE
       ELSE state' = from /\ l1i_flushed' = L1iFlushed /\ l1d_flushed' = L1dFlushed
    /\ flush_req' = "none"
    /\ NoRestart /\ LatchIrq
    /\ UNCHANGED <<ds_done, slot, got>>

MonitorFlushCache == FlushWait("MONITOR_FLUSH_CACHE", "HANDLE_MONITOR")
FlushForHalt == FlushWait("FLUSH_FOR_HALT", "HALT")

\* HANDLE_MONITOR: monitor_req_valid until the host answers.
HandleMonitor ==
    /\ state = "HANDLE_MONITOR"
    /\ Pipeline(0, 0, FALSE, FALSE) /\ Retire(0)
    /\ state' \in {"HANDLE_MONITOR", "ALLOC_FOR_MONITOR"}
    /\ NoRestart /\ NoFlush /\ LatchIrq
    /\ UNCHANGED <<ds_done, slot, got>>

\* WRITE_EPC and WRITE_CAUSE take a clock each.
WriteCpr0 ==
    /\ state \in {"WRITE_EPC", "WRITE_CAUSE"}
    /\ Pipeline(0, 0, FALSE, FALSE) /\ Retire(0)
    /\ state' = IF state = "WRITE_EPC" THEN "WRITE_CAUSE" ELSE "FLUSH_FOR_HALT"
    /\ NoRestart /\ NoFlush /\ LatchIrq
    /\ UNCHANGED <<ds_done, slot, got>>

\* HALT: the host resumes the core after reset and after a break, never after
\* an illegal instruction.
Halt ==
    /\ state = "HALT"
    /\ Pipeline(0, 0, FALSE, FALSE) /\ Retire(0)
    /\ NoRestart /\ NoFlush /\ LatchIrq
    /\ UNCHANGED <<state, ds_done, slot, got>>

Resume ==
    /\ state = "HALT" /\ got # "ud"
    /\ Pipeline(0, 0, FALSE, TRUE)
    /\ retire_valid' = 0 /\ matched' = TRUE
    /\ arch' = [pc |-> EntryPC, tgt |-> 0]
    /\ state' = "HALT_WAIT_FOR_RESTART"
    /\ got' = "none"
    /\ RestartAt(EntryPC) /\ NoFlush /\ LatchIrq
    /\ UNCHANGED <<ds_done, slot>>

HaltWaitForRestart ==
    /\ state = "HALT_WAIT_FOR_RESTART"
    /\ Pipeline(0, 0, FALSE, FALSE) /\ Retire(0)
    /\ state' = IF GotAck THEN "ACTIVE" ELSE "HALT_WAIT_FOR_RESTART"
    /\ NoRestart /\ NoFlush /\ LatchIrq
    /\ UNCHANGED <<ds_done, slot, got>>

Init ==
    /\ state = "HALT" /\ ds_done = FALSE
    /\ slot = [has |-> FALSE, null |-> FALSE, take |-> FALSE]
    /\ restart_valid = FALSE /\ restart_pc = 0 /\ got_ack = FALSE
    /\ irq = FALSE /\ got = "none"
    /\ flush_req = "none" /\ l1i_flushed = FALSE /\ l1d_flushed = FALSE
    /\ drain = FALSE /\ memq_empty = FALSE
    /\ dq = <<>> /\ in_ds = FALSE
    /\ rob = [i \in Slots |-> Blank] /\ head = 0 /\ tail = 0
    /\ complete = {} /\ inflight = {}
    /\ x = [i \in Slots |-> "idle"] /\ fdiv = [st |-> "idle", slot |-> 0]
    /\ fe = [st |-> "IDLE", pc |-> 0, tgt |-> 0, req |-> FALSE, ack |-> FALSE, gap |-> 0,
             flush |-> FALSE, done |-> FALSE]
    /\ l1d = "idle" /\ flush_state = "FLUSH_IDLE"
    /\ retire_valid = 0 /\ arch = [pc |-> EntryPC, tgt |-> 0] /\ matched = TRUE

Next ==
    \/ Interrupt \/ Fault \/ FaultHalt \/ Graduate \/ Allocate \/ Serialize
    \/ Drain \/ ExceptionDrain \/ Rat
    \/ AllocForSerialize \/ AllocForMonitor \/ WaitForSerialize \/ WaitForMonitor
    \/ MonitorFlushCache \/ HandleMonitor
    \/ WriteCpr0 \/ FlushForHalt \/ Halt \/ Resume \/ HaltWaitForRestart

Spec == Init /\ [][Next]_vars

-----------------------------------------------------------------------------
States == {"HALT", "ACTIVE", "DRAIN", "RAT", "ALLOC_FOR_SERIALIZE", "MONITOR_FLUSH_CACHE",
           "HANDLE_MONITOR", "ALLOC_FOR_MONITOR", "WAIT_FOR_MONITOR", "FLUSH_FOR_HALT",
           "HALT_WAIT_FOR_RESTART", "WAIT_FOR_SERIALIZE_AND_RESTART", "WRITE_EPC",
           "WRITE_CAUSE", "EXCEPTION_DRAIN"}

\* The registers of the core and of the parts around it have their types: no
\* queue is overfilled, no pointer runs away, no uop carries a pc of nowhere.
TypeOK ==
    /\ state \in States
    /\ {ds_done, restart_valid, got_ack, irq, l1i_flushed, l1d_flushed, drain, memq_empty,
        in_ds, matched} \subseteq BOOLEAN
    /\ slot \in [has : BOOLEAN, null : BOOLEAN, take : BOOLEAN]
    /\ restart_pc \in PC
    /\ got \in {"none", "break", "ud"}
    /\ flush_req \in {"none", "line", "all"}
    /\ \A i \in 1 .. Len(dq) : dq[i] \in [pc : PC, pred : BOOLEAN]
    /\ Len(dq) <= DQ_ENTRIES
    /\ rob \in [Slots -> [pc : PC, pred : BOOLEAN, flt : BOOLEAN, take : BOOLEAN, ds : BOOLEAN]]
    /\ head \in R!Ptr /\ tail \in R!Ptr /\ R!Count(head, tail) <= ROB_ENTRIES
    /\ complete \subseteq Slots /\ inflight \subseteq Slots
    /\ x \in [Slots -> {"idle", "wait", "start", "run", "done"}]
    /\ fdiv \in [st : {"idle", "round", "valid", "done"}, slot : Slots]
    /\ fe \in [st : FeStates, pc : PC, tgt : PC, req : BOOLEAN, ack : BOOLEAN, gap : 0 .. 2,
               flush : BOOLEAN, done : BOOLEAN]
    /\ l1d \in {"idle", "flush", "done"}
    /\ flush_state \in {"FLUSH_IDLE", "WAIT_FOR_L1D_L1I", "GOT_L1D", "GOT_L1I"}
    /\ retire_valid \in 0 .. 2
    /\ arch \in [pc : PC, tgt : PC]

(***************************************************************************)
(* The retired instructions are, in order, the instructions the simulator  *)
(* executes: none is lost, repeated or taken from a wrong path by a        *)
(* misprediction, a nullified or retired delay slot, an interrupt, a       *)
(* serializing instruction, a monitor call or a halt (top.cc compares      *)
(* retire_pc with ss->pc).                                                 *)
(***************************************************************************)
CosimMatches == matched

\* A unit works for slot i.
Busy(i) == x[i] # "idle" \/ (fdiv.st # "idle" /\ fdiv.slot = i)

(***************************************************************************)
(* Outside a drain every execution unit works for a uop that is in the     *)
(* reorder buffer and has not completed: no completion of a squashed uop   *)
(* can reach a slot that has been given to another uop.                    *)
(***************************************************************************)
NoStaleCompletion ==
    ~ds_done => \A i \in Slots : Busy(i) => i \in Live \cap inflight /\ i \notin complete

(***************************************************************************)
(* A uop that is marked complete, and so may retire, has left its unit:    *)
(* apart from the folded ones every uop is completed by its own execution. *)
(***************************************************************************)
CompleteMeansExecuted == \A i \in Live \cap complete : ~Busy(i)

\* The uops between retirement and fetch, oldest first.
Uops == [i \in 1 .. R!Count(head, tail) |-> rob[R!At(head, i - 1)]] \o dq

(***************************************************************************)
(* In ACTIVE the uops in flight are exactly the predicted path that starts *)
(* at the architectural position, and fetch continues it.  Instructions    *)
(* the decode queue takes without acknowledging them in other states, or   *)
(* that were fetched before a restart, never get in.  (A completed break   *)
(* is about to halt the core and is followed by nothing.)                  *)
(***************************************************************************)
PathIntact ==
    state = "ACTIVE" /\ ~(RobHead.flt /\ Op(RobHead.pc) = "break") =>
        LET us == Uops
            path[n \in 0 .. Len(us)] ==
                IF n = 0 THEN arch ELSE Follow(path[n - 1], us[n].pred)
        IN  /\ \A n \in 1 .. Len(us) : us[n].pc = path[n - 1].pc
            /\ fe.st = "ACTIVE" => [pc |-> fe.pc, tgt |-> fe.tgt] = path[Len(us)]

(***************************************************************************)
(* The states that read the head of the reorder buffer without asking      *)
(* whether it is empty find a uop there: the delay slot in DRAIN, the      *)
(* serializing uop or monitor call in the two waiting states.              *)
(***************************************************************************)
HeadIsLive ==
    /\ state \in {"WAIT_FOR_SERIALIZE_AND_RESTART", "WAIT_FOR_MONITOR"} => ~RobEmpty
    /\ state = "DRAIN" /\ ~ds_done => ~RobEmpty

(***************************************************************************)
(* The host is called, or finds the core halted after a break, only when   *)
(* both caches have finished the flush asked for and no uop is anywhere in *)
(* the pipeline, and no completion is left over to satisfy a later flush.  *)
(***************************************************************************)
HostSeesMemory ==
    state \in {"HANDLE_MONITOR", "HALT"} /\ got # "ud" =>
        /\ l1d = "idle" /\ fe.st # "FLUSH_CACHE" /\ ~fe.flush /\ flush_req = "none"
        /\ ~l1i_flushed /\ ~l1d_flushed /\ flush_state = "FLUSH_IDLE"
        /\ RobEmpty /\ \A i \in Slots : ~Busy(i)

-----------------------------------------------------------------------------
(* Liveness.  The clock never stops, and a dry register bank stops the     *)
(* allocation for one clock only, because r_bank_sel flips in each; beyond *)
(* that, a uop that stays in its queue or unit is eventually served, the   *)
(* fetch engine ends every refill, serves its requests and delivers, the   *)
(* flushes end, and the host answers monitor calls and resumes a core that *)
(* did not die of an illegal instruction.                                  *)

Fairness ==
    /\ WF_vars(Next)
    /\ \A i \in Slots : WF_vars(Next /\ x[i] \in {"wait", "run"} /\ x'[i] # x[i])
    /\ WF_vars(Next /\ state = "ACTIVE" /\ dq = <<>> /\ dq' # <<>>)
    /\ WF_vars(Next /\ fe'.ack)
    /\ WF_vars(Next /\ fe.st # fe'.st)
    /\ WF_vars(Next /\ l1d = "flush" /\ l1d' = "done")
    /\ WF_vars(HandleMonitor /\ state' # state)
    /\ WF_vars(Resume)

LiveSpec == Spec /\ Fairness

(***************************************************************************)
(* The core always retires another instruction, unless it has stopped on   *)
(* an illegal one: no misprediction, serialization, flush or halt leaves   *)
(* it waiting for something that never comes (the "no retire in" watchdog  *)
(* of top.cc).                                                             *)
(***************************************************************************)
KeepsRetiring == []<>(retire_valid > 0 \/ got = "ud")
=============================================================================
