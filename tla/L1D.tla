-------------------------------- MODULE L1D --------------------------------
(***************************************************************************)
(* The data cache (l1d.sv): a request of the core reads the arrays through *)
(* port 2; what cannot be answered there (a miss, a store, which waits for *)
(* its retirement, a load behind a queued request for its set) goes to the *)
(* miss queue and is replayed in order through port 1, where misses refill *)
(* the line.  Stores are answered at once.  One step is one clock.         *)
(*                                                                         *)
(* The core is modelled by what it does to the cache: it sends the memory  *)
(* operations of a program in order, retires them in order, may squash     *)
(* all that has not retired at any clock, and flushes the cache when it    *)
(* has nothing in flight.  Operation k of the program stores the value k.  *)
(***************************************************************************)
EXTENDS Integers, Sequences, FiniteSets

CONSTANTS
    L1D_NUM_SETS, Tags, Words,   \* shape of the cache; a line has Words
    N_MRQ,                       \* entries of the miss queue
    N_MQ,                        \* entries of exec's memory queue
    N_ROB,                       \* entries of the reorder buffer
    Programs,                    \* sequences of operations
    MaxSquash                    \* bound on squashes

Sets == 0 .. L1D_NUM_SETS - 1
Operations == [op : {"load", "store", "move", "flush", "flushcl"}, set : Sets, tag : Tags, word : Words]

ASSUME L1DAssumption ==
    /\ L1D_NUM_SETS \in Nat \ {0} /\ N_MRQ \in Nat \ {0, 1} /\ N_MQ \in Nat \ {0} /\ N_ROB \in Nat \ {0}
    /\ Tags # {} /\ MaxSquash \in Nat
    /\ \A p \in Programs : p \in Seq(Operations)

VARIABLES
    state,          \* r_state
    arr,            \* dc_valid, dc_dirty, dc_tag, dc_data: one line per set
    p1,             \* port 1: r_got_req, r_req, r_cache_idx, r_last_wr, r_is_retry,
                    \* r_did_reload, r_hit_busy_addr, r_*_out
    p2,             \* port 2: r_got_req2, r_req2, r_last_wr2, r_hit_busy_addr2, r_*_out2
    rr_wr,          \* rr_cache_idx while rr_last_wr, otherwise -1
    mq,             \* the miss queue
    lock,           \* r_lock_cache
    reload_issue,   \* r_reload_issue
    inhibit,        \* r_inhibit_write
    mreq,           \* r_mem_req_*, and whether the memory still owes the answer
    graduated,      \* r_graduated
    flush_req, flush_cl_req, flush_complete,
    n_inflight, memq_empty,
    mem,            \* the memory
    prog, pc,       \* the program, and its next operation
    q,              \* r_mem_q of exec.sv, whose head is core_mem_req
    rob, tail,      \* memory operations in the reorder buffer, oldest first; next slot
    retired,        \* retired_rob_ptr, retired_rob_ptr_two
    ds_done, drain, \* r_ds_done, drain_ds_complete
    squashes,
    fl,             \* a flush the core has asked for
    commit          \* what the retired stores make of the memory

cacheVars == <<state, arr, p1, p2, rr_wr, mq, lock, reload_issue, inhibit, mreq, graduated,
               flush_req, flush_cl_req, flush_complete, n_inflight, memq_empty, mem>>
coreVars == <<prog, pc, q, rob, tail, retired, ds_done, drain, squashes, fl, commit>>
vars == <<cacheVars, coreVars>>

-----------------------------------------------------------------------------
Slots == 0 .. N_ROB - 1
Bit(b) == IF b THEN 1 ELSE 0
Junk == -1                       \* data of a reply to a write
Values == {Junk} \cup 0 .. Len(prog)
Datas == [Words -> Values]
Fill(v) == [w \in Words |-> v]
AnyTag == CHOOSE t \in Tags : TRUE

IsStore(r) == prog[r.k].op = "store"
IsLoad(r) == prog[r.k].op = "load"       \* "move": MTC1_MERGE, MFC1_MERGE
Set(r) == prog[r.k].set
Tag(r) == prog[r.k].tag
Word(r) == prog[r.k].word

NoReq == [slot |-> 0, k |-> 0, exp |-> 0, ep |-> 0]
Line(valid, dirty, tag, data) == [valid |-> valid, dirty |-> dirty, tag |-> tag, data |-> data]
NoLine == Line(FALSE, FALSE, AnyTag, Fill(0))
IdlePort(r, i, line) == [got |-> FALSE, req |-> r, idx |-> i, wr |-> FALSE, retry |-> FALSE,
                         reload |-> FALSE, busy |-> FALSE, out |-> line]
NoPort == IdlePort(NoReq, 0, NoLine)
MemReq(st, op, set, tag, data) == [st |-> st, op |-> op, set |-> set, tag |-> tag, data |-> data]
NoMem == MemReq("no", "LW", 0, AnyTag, Fill(0))

-----------------------------------------------------------------------------
(* Port 1, in ACTIVE: the requests replayed from the miss queue *)

Active == state = "ACTIVE"
Hit1 == Active /\ p1.got /\ p1.out.valid /\ p1.out.tag = Tag(p1.req)
t_got_miss == Active /\ p1.got /\ ~Hit1
DirtyMiss == t_got_miss /\ p1.out.valid /\ p1.out.dirty
Reloads == t_got_miss /\ ((p1.busy => p1.retry) \/ (~DirtyMiss /\ lock))
t_wr_array == Hit1 /\ IsStore(p1.req) /\ (p1.retry \/ p1.reload)
t_array_data == [p1.out.data EXCEPT ![Word(p1.req)] = p1.req.k]

\* What becomes of the head of the miss queue.
t_mem_head == Head(mq)
t_mh_block == p1.got /\ p1.wr /\ p1.idx = Set(t_mem_head)
Served == Active /\ mq # <<>> /\ ~t_got_miss /\ ~lock /\ ~t_mh_block
dead_rob_mask == {rob[i].slot : i \in DOMAIN rob}
t_got_rd_retry == Served /\ ~IsStore(t_mem_head)
FiresStore == Served /\ IsStore(t_mem_head) /\ graduated[t_mem_head.slot] = 2
t_force_clear_busy ==
    /\ Served /\ IsStore(t_mem_head) /\ graduated[t_mem_head.slot] # 2
    /\ drain /\ t_mem_head.slot \in dead_rob_mask
t_pop_mq == t_got_rd_retry \/ FiresStore \/ t_force_clear_busy

-----------------------------------------------------------------------------
(* Port 2, in ACTIVE: the requests of the core *)

core_mem_req == Head(q)
t_cm_block == p1.got /\ p1.wr /\ p1.idx = Set(core_mem_req) /\ Tag(p1.req) = Tag(core_mem_req)
\* Mutants: a load is accepted right behind a store to its set; a request is
\* accepted together with a replayed load; a slot's store need not have left.
MutAckBehindStore ==
    /\ Active /\ q # <<>> /\ ~t_got_miss /\ Len(mq) < N_MRQ - 1 /\ ~t_got_rd_retry
    /\ graduated[core_mem_req.slot] = 0
MutAckWithRetry ==
    /\ Active /\ q # <<>> /\ ~t_got_miss /\ Len(mq) < N_MRQ - 1
    /\ ~(p2.wr /\ p2.idx = Set(core_mem_req) /\ ~IsStore(core_mem_req))
    /\ graduated[core_mem_req.slot] = 0
MutAckSlotBusy ==
    /\ Active /\ q # <<>> /\ ~t_got_miss /\ Len(mq) < N_MRQ - 1 /\ ~t_got_rd_retry
    /\ ~(p2.wr /\ p2.idx = Set(core_mem_req) /\ ~IsStore(core_mem_req))
MutAckUntilFull ==
    /\ Active /\ q # <<>> /\ ~t_got_miss /\ Len(mq) < N_MRQ /\ ~t_got_rd_retry
    /\ ~(p2.wr /\ p2.idx = Set(core_mem_req) /\ ~IsStore(core_mem_req))
    /\ graduated[core_mem_req.slot] = 0
core_mem_req_ack ==
    /\ Active /\ q # <<>> /\ ~t_got_miss
    /\ Len(mq) < N_MRQ - 1
    /\ ~t_got_rd_retry
    /\ ~(p2.wr /\ p2.idx = Set(core_mem_req) /\ ~IsStore(core_mem_req))
    /\ ~(t_cm_block /\ ~(p1.retry \/ p1.reload))
    /\ graduated[core_mem_req.slot] = 0

Hit2 == p2.out.valid /\ p2.out.tag = Tag(p2.req)
t_incr_busy == Active /\ p2.got /\ ~drain /\ IsStore(p2.req)
t_push_miss == t_incr_busy \/ (Active /\ p2.got /\ ~drain /\ IsLoad(p2.req) /\ (Hit2 => p2.busy))

\* The answer to the core.  Port 1 answers loads only.
Answers1 == Hit1 /\ ~IsStore(p1.req)
core_mem_rsp_valid == Answers1 \/ (Active /\ p2.got /\ (IsStore(p2.req) \/ ~t_push_miss))
rsp_req == IF p2.got THEN p2.req ELSE p1.req
rsp_data == IF Answers1 THEN p1.out.data[Word(p1.req)] ELSE p2.out.data[Word(p2.req)]

\* A flush waits until the stores are in the arrays.
MutStoresDoneQueueOnly == mq = <<>>
StoresDone == mq = <<>> /\ ~(p1.got /\ p1.wr)
StartFlush == Active /\ ~core_mem_req_ack /\ flush_req /\ StoresDone
StartFlushCl == Active /\ ~core_mem_req_ack /\ ~flush_req /\ flush_cl_req /\ StoresDone

-----------------------------------------------------------------------------
(* The core *)

\* The value a load of the next operation's word has to return.
Current ==
    LET same == {i \in DOMAIN rob : IsStore(rob[i]) /\ Set(rob[i]) = prog[pc].set
                                   /\ Tag(rob[i]) = prog[pc].tag /\ Word(rob[i]) = prog[pc].word}
    IN  IF same = {} THEN commit[prog[pc].set, prog[pc].tag][prog[pc].word]
        ELSE rob[CHOOSE i \in same : \A j \in same : j <= i].k

Retirable(n) == (n > 0 => ~ds_done) /\ n <= Len(rob) /\ \A i \in 1 .. n : rob[i].done
Commit(c, e) ==
    IF IsStore(e)
    THEN [c EXCEPT ![<<Set(e), Tag(e)>>] = [c[<<Set(e), Tag(e)>>] EXCEPT ![Word(e)] = e.k]]
    ELSE c

\* What the next operation puts into exec's queue and into the reorder buffer.
NewReq == [slot |-> tail, k |-> pc, exp |-> Current, ep |-> squashes]
NewEntry == [slot |-> tail, k |-> pc, ep |-> squashes, done |-> FALSE]

\* The entries after the clock in which the cache may answer one of them.
Mark(e) == [slot |-> e.slot, k |-> e.k, ep |-> e.ep,
            done |-> e.done \/ (core_mem_rsp_valid /\ e.slot = rsp_req.slot)]
Marked(s) == [i \in 1 .. Len(s) |-> Mark(s[i])]

Sends(is) == is /\ prog[pc].op \notin {"flush", "flushcl"}
CanSend ==
    /\ pc <= Len(prog) /\ ~drain /\ fl = "no"
    /\ IF Sends(TRUE) THEN Len(q) < N_MQ /\ Len(rob) < N_ROB ELSE rob = <<>> /\ ~ds_done

\* n operations retire, is: the next operation is sent, sq: what is left is
\* squashed, rs: the core restarts after a squash.  A uop that was ready when it
\* was squashed is still sent in the first clock of ds_done; drain_ds_complete
\* follows ds_done by a clock.  After a squash the program goes on with the
\* oldest squashed operation (an interrupt) or behind the youngest (a wrong path).
CoreStep(n, is, sq, rs) ==
    /\ Retirable(n) /\ (is => CanSend)
    /\ sq => ~ds_done /\ n <= 1 /\ fl = "no" /\ squashes < MaxSquash
    /\ rs => ds_done /\ drain /\ memq_empty
    /\ rob' = IF rs THEN <<>> ELSE Marked(SubSeq(rob, n + 1, Len(rob))) \o (IF Sends(is) THEN <<NewEntry>> ELSE <<>>)
    /\ q' = (IF core_mem_req_ack THEN Tail(q) ELSE q) \o (IF Sends(is) THEN <<NewReq>> ELSE <<>>)
    /\ tail' = IF rs THEN 0 ELSE (tail + Bit(Sends(is))) % N_ROB
    /\ \/ pc' = IF Sends(is) \/ (fl = "wait" /\ flush_complete) THEN pc + 1 ELSE pc
       \/ rs /\ rob # <<>> /\ pc' = rob[1].k
    /\ commit' = CASE n = 0 -> commit [] n = 1 -> Commit(commit, rob[1])
                   [] n = 2 -> Commit(Commit(commit, rob[1]), rob[2])
    /\ retired' = {rob[i].slot : i \in 1 .. n}
    /\ ds_done' = (sq \/ (ds_done /\ ~rs)) /\ drain' = ds_done
    /\ squashes' = IF sq THEN squashes + 1 ELSE squashes
    /\ fl' = CASE is /\ ~Sends(is) -> prog[pc].op
               [] ~is /\ fl \in {"flush", "flushcl"} -> "wait"
               [] ~is /\ fl = "wait" /\ flush_complete -> "no"
               [] OTHER -> fl
    /\ UNCHANGED prog

-----------------------------------------------------------------------------
(* Registers that every clock updates in the same way *)

Port(r, reload) ==
    [got |-> TRUE, req |-> r, idx |-> Set(r), wr |-> IsStore(r), retry |-> ~reload, reload |-> reload,
     busy |-> \E i \in DOMAIN mq : ~(i = 1 /\ t_pop_mq) /\ Set(mq[i]) = Set(r), out |-> arr[Set(r)]]

\* A store that is in port 1 now forwards the line it writes.
Port2(r) ==
    [got |-> TRUE, req |-> r, idx |-> Set(r), wr |-> IsStore(r), retry |-> FALSE, reload |-> FALSE,
     busy |-> \E i \in DOMAIN mq : Set(mq[i]) = Set(r),
     out |-> Line(arr[Set(r)].valid, arr[Set(r)].dirty, arr[Set(r)].tag,
                  IF t_cm_block THEN t_array_data ELSE arr[Set(r)].data)]

\* Mutant: a squashed store leaves the miss queue and its slot stays taken.
MutNextGraduatedKeepsDead ==
    [s \in Slots |->
        CASE Hit1 /\ IsStore(p1.req) /\ s = p1.req.slot -> 0
          [] t_incr_busy /\ s = p2.req.slot -> 1
          [] s \in retired /\ graduated[s] = 1 -> 2
          [] OTHER -> graduated[s]]
NextGraduated ==
    [s \in Slots |->
        CASE t_force_clear_busy /\ s = t_mem_head.slot -> 0
          [] Hit1 /\ IsStore(p1.req) /\ s = p1.req.slot -> 0
          [] t_incr_busy /\ s = p2.req.slot -> 1
          [] s \in retired /\ graduated[s] = 1 -> 2
          [] OTHER -> graduated[s]]

t_got_req == t_got_rd_retry \/ FiresStore \/ state = "HANDLE_RELOAD"
\* Mutant: the answers the cache owes are not counted.
MutNextMemqEmptyUncounted ==
    mq = <<>> /\ drain /\ q = <<>> /\ ~t_got_req /\ ~core_mem_req_ack /\ ~t_push_miss
NextMemqEmpty ==
    /\ mq = <<>> /\ drain /\ q = <<>> /\ ~t_got_req /\ ~core_mem_req_ack /\ ~t_push_miss
    /\ n_inflight = 0

Registers ==
    /\ p2' = IF core_mem_req_ack THEN Port2(core_mem_req) ELSE NoPort
    /\ rr_wr' = IF p1.wr THEN p1.idx ELSE -1
    /\ mq' = (IF t_pop_mq THEN Tail(mq) ELSE mq) \o (IF t_push_miss THEN <<p2.req>> ELSE <<>>)
    /\ graduated' = NextGraduated
    /\ flush_req' = ((flush_req \/ fl = "flush") /\ ~StartFlush)
    /\ flush_cl_req' = ((flush_cl_req \/ fl = "flushcl") /\ ~StartFlushCl)
    /\ n_inflight' = n_inflight + Bit(core_mem_req_ack) - Bit(core_mem_rsp_valid)
    /\ memq_empty' = NextMemqEmpty

\* The memory answers a request some clocks after it was made.
MemAnswers == mreq.st = "wait"
MemWaits ==
    /\ mreq' = IF mreq.st = "ask" THEN MemReq("wait", mreq.op, mreq.set, mreq.tag, mreq.data) ELSE mreq
    /\ UNCHANGED <<arr, mem, inhibit>>
MemReply ==
    /\ MemAnswers
    /\ mem' = IF mreq.op = "SW" THEN [mem EXCEPT ![<<mreq.set, mreq.tag>>] = mreq.data] ELSE mem
    /\ arr' = [arr EXCEPT ![mreq.set] =
                  Line(~inhibit, FALSE, mreq.tag,
                       IF mreq.op = "LW" THEN mem[mreq.set, mreq.tag] ELSE Fill(Junk))]
    /\ mreq' = NoMem
    /\ inhibit' = FALSE

-----------------------------------------------------------------------------
(* One action for each state *)

WriteBack == MemReq("ask", "SW", p1.idx, p1.out.tag, p1.out.data)
Walk(i) == IdlePort(NoReq, i, arr[i])
Write(s, valid, dirty, data) == arr' = [arr EXCEPT ![s] = Line(valid, dirty, arr[s].tag, data)]
MarkInvalid == Write(p1.idx, FALSE, arr[p1.idx].dirty, arr[p1.idx].data)

DoActive ==
    /\ Active
    /\ state' = CASE StartFlush -> "FLUSH_CACHE" [] StartFlushCl -> "FLUSH_CL"
                  [] Reloads /\ ~StartFlush /\ ~StartFlushCl -> "INJECT_RELOAD" [] OTHER -> "ACTIVE"
    /\ p1' = CASE StartFlush -> Walk(0)
               [] StartFlushCl -> Walk(prog[pc].set)
               [] t_got_rd_retry \/ FiresStore -> Port(t_mem_head, FALSE)
               [] Reloads /\ ~StartFlush /\ ~StartFlushCl -> IdlePort(p1.req, 0, NoLine)
               [] OTHER -> NoPort
    /\ IF t_wr_array THEN Write(p1.idx, arr[p1.idx].valid, TRUE, t_array_data) ELSE UNCHANGED arr
    /\ mreq' = CASE Reloads /\ DirtyMiss -> WriteBack
                 [] Reloads /\ ~DirtyMiss -> MemReq("ask", "LW", p1.idx, Tag(p1.req), Fill(0))
                 [] OTHER -> mreq
    /\ lock' = IF Reloads THEN DirtyMiss ELSE lock
    /\ reload_issue' = (reload_issue \/ DirtyMiss \/ Reloads)
    /\ inhibit' = IF t_got_miss THEN DirtyMiss ELSE inhibit
    /\ flush_complete' = FALSE
    /\ UNCHANGED mem

DoInjectReload ==
    /\ state = "INJECT_RELOAD"
    /\ \/ /\ MemReply
          /\ state' = IF reload_issue THEN "HANDLE_RELOAD" ELSE "ACTIVE"
          /\ reload_issue' = FALSE
       \/ MemWaits /\ UNCHANGED <<state, reload_issue>>
    /\ flush_complete' = FALSE
    /\ UNCHANGED <<p1, lock>>

DoHandleReload ==
    /\ state = "HANDLE_RELOAD"
    /\ state' = "ACTIVE"
    /\ p1' = Port(p1.req, TRUE)
    /\ flush_complete' = FALSE
    /\ UNCHANGED <<arr, mem, mreq, lock, reload_issue, inhibit>>

DoFlushCl ==
    /\ state = "FLUSH_CL"
    /\ p1' = NoPort
    /\ \/ /\ p1.out.dirty
          /\ state' = "FLUSH_CL_WAIT" /\ mreq' = WriteBack /\ inhibit' = TRUE /\ flush_complete' = FALSE
          /\ UNCHANGED arr
       \/ /\ ~p1.out.dirty
          /\ state' = "ACTIVE" /\ MarkInvalid /\ flush_complete' = TRUE
          /\ UNCHANGED <<mreq, inhibit>>
    /\ UNCHANGED <<mem, lock, reload_issue>>

DoFlushClWait ==
    /\ state = "FLUSH_CL_WAIT"
    /\ \/ MemReply /\ state' = "ACTIVE" /\ flush_complete' = TRUE
       \/ MemWaits /\ UNCHANGED state /\ flush_complete' = FALSE
    /\ UNCHANGED <<p1, lock, reload_issue>>

\* The walk ends on reaching the last set, whose dirty bit it does not look at.
WalkEnds == p1.idx = L1D_NUM_SETS - 1
DoFlushCache ==
    /\ state = "FLUSH_CACHE"
    /\ \/ /\ WalkEnds
          /\ state' = "ACTIVE" /\ p1' = NoPort /\ flush_complete' = TRUE
          /\ UNCHANGED <<arr, mreq, inhibit>>
       \/ /\ ~WalkEnds /\ ~p1.out.dirty
          /\ MarkInvalid /\ p1' = Walk(p1.idx + 1) /\ flush_complete' = FALSE
          /\ UNCHANGED <<state, mreq, inhibit>>
       \/ /\ ~WalkEnds /\ p1.out.dirty
          /\ state' = "FLUSH_CACHE_WAIT" /\ mreq' = WriteBack /\ inhibit' = TRUE
          /\ p1' = Walk(p1.idx + 1) /\ flush_complete' = FALSE
          /\ UNCHANGED arr
    /\ UNCHANGED <<mem, lock, reload_issue>>

DoFlushCacheWait ==
    /\ state = "FLUSH_CACHE_WAIT"
    /\ p1' = Walk(p1.idx)
    /\ \/ MemReply /\ state' = "FLUSH_CACHE"
       \/ MemWaits /\ UNCHANGED state
    /\ flush_complete' = FALSE
    /\ UNCHANGED <<lock, reload_issue>>

Cache ==
    /\ Registers
    /\ \/ DoActive \/ DoInjectReload \/ DoHandleReload
       \/ DoFlushCl \/ DoFlushClWait \/ DoFlushCache \/ DoFlushCacheWait

-----------------------------------------------------------------------------
Init ==
    /\ state = "ACTIVE" /\ arr = [s \in Sets |-> NoLine] /\ p1 = NoPort /\ p2 = NoPort /\ rr_wr = -1
    /\ mq = <<>> /\ lock = FALSE /\ reload_issue = FALSE /\ inhibit = FALSE /\ mreq = NoMem
    /\ graduated = [s \in Slots |-> 0]
    /\ flush_req = FALSE /\ flush_cl_req = FALSE /\ flush_complete = FALSE
    /\ n_inflight = 0 /\ memq_empty = TRUE
    /\ prog \in Programs /\ pc = 1 /\ q = <<>> /\ rob = <<>> /\ tail = 0 /\ retired = {}
    /\ ds_done = FALSE /\ drain = FALSE /\ squashes = 0 /\ fl = "no"
    /\ mem = [a \in Sets \X Tags |-> Fill(0)] /\ commit = mem

Next == Cache /\ \E n \in 0 .. 2, is, sq, rs \in BOOLEAN : CoreStep(n, is, sq, rs)

\* The clock runs, ready operations are sent and retired (their other operands
\* come from older uops), the core restarts once the cache is drained, and the
\* memory answers.
Fairness ==
    /\ WF_vars(Next)
    /\ WF_vars(Cache /\ \E n \in 0 .. 2, sq, rs \in BOOLEAN : CoreStep(n, TRUE, sq, rs))
    /\ WF_vars(Cache /\ \E n \in 1 .. 2, is, sq, rs \in BOOLEAN : CoreStep(n, is, sq, rs))
    /\ WF_vars(Cache /\ \E n \in 0 .. 2, is, sq \in BOOLEAN : CoreStep(n, is, sq, TRUE))
    /\ WF_vars(Next /\ MemReply)
Spec == Init /\ [][Next]_vars /\ Fairness

-----------------------------------------------------------------------------
(* Properties *)

Reqs == [slot : Slots, k : 0 .. Len(prog), exp : Values, ep : 0 .. MaxSquash]
Lines == [valid : BOOLEAN, dirty : BOOLEAN, tag : Tags, data : Datas]
Ports == [got : BOOLEAN, req : Reqs, idx : Sets, wr : BOOLEAN, retry : BOOLEAN, reload : BOOLEAN,
          busy : BOOLEAN, out : Lines]
Among(s, S, n) == Len(s) <= n /\ \A i \in DOMAIN s : s[i] \in S

\* Every register keeps its type, and neither queue overflows.
TypeOK ==
    /\ state \in {"ACTIVE", "INJECT_RELOAD", "HANDLE_RELOAD", "FLUSH_CL", "FLUSH_CL_WAIT", "FLUSH_CACHE",
                 "FLUSH_CACHE_WAIT"}
    /\ DOMAIN arr = Sets /\ \A s \in Sets : arr[s] \in Lines
    /\ p1 \in Ports /\ p2 \in Ports /\ rr_wr \in Sets \cup {-1}
    /\ Among(mq, Reqs, N_MRQ) /\ Among(q, Reqs, N_MQ)
    /\ {lock, reload_issue, inhibit, flush_req, flush_cl_req, flush_complete, memq_empty, ds_done, drain}
          \subseteq BOOLEAN
    /\ mreq \in [st : {"no", "ask", "wait"}, op : {"LW", "SW"}, set : Sets, tag : Tags, data : Datas]
    /\ graduated \in [Slots -> 0 .. 2] /\ n_inflight \in 0 .. N_ROB /\ squashes \in 0 .. MaxSquash
    /\ mem \in [Sets \X Tags -> Datas] /\ commit \in [Sets \X Tags -> Datas]
    /\ pc \in 1 .. Len(prog) + 1 /\ tail \in Slots /\ retired \subseteq Slots
    /\ Among(rob, [slot : Slots, k : 1 .. Len(prog), ep : 0 .. MaxSquash, done : BOOLEAN], N_ROB)
    /\ fl \in {"no", "flush", "flushcl", "wait"}

\* A load is answered with the value of the last older store to its word that
\* is not squashed, whether that store is still waiting in the miss queue, is
\* being written by port 1, is in the arrays, or is in memory.
LoadsCurrent ==
    core_mem_rsp_valid /\ IsLoad(rsp_req) /\ ~drain => rsp_data = rsp_req.exp

\* Every answer goes to an operation that is still in the reorder buffer and
\* has not been answered: memq_empty does not let the core restart while the
\* cache owes an answer to the old path.
AnsweredOnce ==
    core_mem_rsp_valid =>
        \E i \in DOMAIN rob : /\ rob[i].slot = rsp_req.slot /\ rob[i].k = rsp_req.k
                            /\ rob[i].ep = rsp_req.ep /\ ~rob[i].done

\* A request in port 2, which has one clock there, always finds the cache in
\* ACTIVE, room in the miss queue, and no load in port 1 that needs the answer
\* of the same clock.
PortTwoClear ==
    p2.got => /\ state = "ACTIVE"
              /\ Len(mq) < N_MRQ
              /\ ~(p1.got /\ ~IsStore(p1.req))

\* When a flush reports completion, the memory holds every retired store to the
\* flushed set, or, for a flush of the cache, to every set but the last.
FlushedIsCurrent ==
    flush_complete =>
        \A s \in Sets, t \in Tags :
            (IF prog[pc].op = "flushcl" THEN s = prog[pc].set ELSE s # L1D_NUM_SETS - 1)
                => mem[s, t] = commit[s, t]

\* The assertions of l1d.sv about the order of events hold (the numbers are the
\* lines of their $stop): a slot has one store at a time between its answer and
\* its write (468); nothing retires while a drain goes on (493); what hits in
\* port 1 was replayed or reloaded (1564); no miss is queued once the queue has
\* been reported empty (1695); a store that waits at the head of the queue is
\* registered (1718); the queue is not full when a miss is pushed (1906).  And
\* WAIT_INJECT_RELOAD, which no action models, is never entered.
\* Not among them is the one assertion about time (1365): that no store waits
\* 1024 clocks at the head of the queue for its retirement.  How long the core
\* takes depends on the latencies of the units, which are left open here;
\* Finishes says that every such wait ends.
OrderAssertions ==
    /\ t_incr_busy => graduated[p2.req.slot] = 0
    /\ drain => retired = {}
    /\ Hit1 => p1.retry \/ p1.reload
    /\ t_force_clear_busy => ~(t_push_miss /\ memq_empty)
    /\ Served /\ IsStore(t_mem_head) /\ ~t_pop_mq => graduated[t_mem_head.slot] # 0
    /\ t_push_miss => Len(mq) < N_MRQ
    /\ Reloads => rr_wr # p1.idx

\* Every program ends with its retired stores in the arrays or in memory:
\* no request is lost, no wait is for ever.
Finished == pc = Len(prog) + 1 /\ rob = <<>> /\ mq = <<>> /\ ~p1.got /\ Active
Finishes == <>[]Finished
=============================================================================
