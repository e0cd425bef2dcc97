--------------------------- MODULE L1DDataProofs ---------------------------
(***************************************************************************)
(* The data the cache returns and leaves in memory, for every shape of the *)
(* cache, every size of its queues and every program.  A store is pending  *)
(* from the moment it is sent until port 1 writes it; what a load has to   *)
(* return, and what has retired, is the youngest pending store there is,   *)
(* or what the arrays, and behind them the memory, hold.                   *)
(***************************************************************************)
EXTENDS L1DProofs

\* The memory as the cache shows it.
ArrVal(s, t) == IF arr[s].valid /\ arr[s].tag = t THEN arr[s].data ELSE mem[<<s, t>>]

\* Operation k is on its way to the arrays.
Pend(k) ==
    \/ \E i \in 1 .. Len(mq) : mq[i].k = k
    \/ Busy1 /\ p1.req.k = k
    \/ p2.got /\ p2.req.k = k
    \/ \E i \in 1 .. Len(q) : q[i].k = k
GoneK(k) == k < pc /\ \A i \in 1 .. Len(rob) : k < rob[i].k

\* Operation k stores to a word of a line.
StoreAt(k, s, t, w) ==
    k \in 1 .. Len(prog) /\ prog[k].op = "store" /\ prog[k].set = s /\ prog[k].tag = t /\ prog[k].word = w

\* The stores in the buffer are pending, unless they are being dropped.
PendInv == ~drain => \A i \in 1 .. Len(rob) : IsStore(rob[i]) => Pend(rob[i].k)

\* What has retired is the youngest store that is both pending and retired, or
\* what the cache shows; younger pending stores have not been written.
CommitOK(s, t, w) ==
    LET c == commit[<<s, t>>][w]
        a == ArrVal(s, t)[w]
    IN  /\ a <= c /\ c < pc
        /\ \A i \in 1 .. Len(rob) : c < rob[i].k
        /\ \A k \in 1 .. Len(prog) : Pend(k) /\ StoreAt(k, s, t, w) => a < k /\ (GoneK(k) => k <= c)
        /\ c = a \/ (Pend(c) /\ StoreAt(c, s, t, w) /\ GoneK(c))
CommitInv == \A s \in Sets, t \in Tags, w \in Words : CommitOK(s, t, w)

\* What load k has to return is the youngest older store that is pending, or
\* what the cache shows.
LoadOK(k, e) ==
    LET s == prog[k].set
        t == prog[k].tag
        w == prog[k].word
        a == ArrVal(s, t)[w]
    IN  /\ a <= e
        /\ \A x \in 1 .. Len(prog) : Pend(x) /\ StoreAt(x, s, t, w) /\ x < k => x <= e
        /\ e = a \/ (Pend(e) /\ StoreAt(e, s, t, w) /\ e < k)
Requests ==
    {mq[i] : i \in 1 .. Len(mq)} \cup {q[i] : i \in 1 .. Len(q)}
    \cup {r \in {p1.req} : Busy1} \cup {r \in {p2.req} : p2.got}
LoadInv ==
    ~drain =>
        /\ \A r \in Requests : IsLoad(r) => LoadOK(r.k, r.exp)
        /\ p2.got /\ IsLoad(p2.req) /\ Hit2 /\ ~p2.busy => p2.out.data[Word(p2.req)] = p2.req.exp

\* A clean line is what the memory holds, and a port has the line it read.
LineInv ==
    /\ \A s \in Sets : /\ arr[s].dirty => arr[s].valid
                       /\ arr[s].valid /\ ~arr[s].dirty => arr[s].data = mem[<<s, arr[s].tag>>]
    /\ p1.got \/ state \in {"FLUSH_CL", "FLUSH_CACHE"} => p1.out = arr[p1.idx]

\* A line that is written back stays as it is until the memory answers, and a
\* refill is for the request that missed.
Owing == {"INJECT_RELOAD", "FLUSH_CL_WAIT", "FLUSH_CACHE_WAIT"}
MemInv ==
    /\ mreq.st # "no" <=> state \in Owing
    /\ state \in Owing /\ mreq.op = "SW" =>
          inhibit /\ arr[mreq.set].valid /\ arr[mreq.set].tag = mreq.tag /\ arr[mreq.set].data = mreq.data
    /\ state \in Owing /\ mreq.op = "LW" => ~inhibit /\ ~arr[mreq.set].dirty
    /\ state = "INJECT_RELOAD" => /\ reload_issue /\ mreq.set = Set(p1.req) /\ (lock <=> mreq.op = "SW")
                                  /\ mreq.op = "LW" => mreq.tag = Tag(p1.req)
    /\ state = "HANDLE_RELOAD" => IF lock THEN ~arr[Set(p1.req)].valid
                                  ELSE arr[Set(p1.req)].valid /\ arr[Set(p1.req)].tag = Tag(p1.req)
    /\ p1.got /\ p1.reload => IF lock THEN ~p1.out.valid ELSE p1.out.valid /\ p1.out.tag = Tag(p1.req)
    /\ p1.got => (p1.reload <=> ~p1.retry)
    /\ state \in {"FLUSH_CL_WAIT", "FLUSH_CACHE_WAIT"} => mreq.op = "SW"

\* The lines a flush has left behind are invalid.
WalkInv ==
    /\ state = "FLUSH_CL" => p1.idx = prog[pc].set
    /\ state = "FLUSH_CL_WAIT" => mreq.set = prog[pc].set
    /\ state = "FLUSH_CACHE" => \A s \in Sets : s < p1.idx => ~arr[s].valid
    /\ state = "FLUSH_CACHE_WAIT" => mreq.set = p1.idx - 1 /\ \A s \in Sets : s < p1.idx - 1 => ~arr[s].valid
    /\ flush_complete => IF prog[pc].op = "flushcl" THEN ~arr[prog[pc].set].valid
                         ELSE \A s \in Sets : s < L1D_NUM_SETS - 1 => ~arr[s].valid

DataInv == FlowInv /\ PendInv /\ CommitInv /\ LoadInv /\ LineInv /\ MemInv /\ WalkInv

-----------------------------------------------------------------------------
(* The arrays.                                                             *)

\* A miss that blocks the cache always asks the memory for something.
LEMMA MissReloads ==
    ASSUME MemInv, t_got_miss
    PROVE  Reloads
<1>1. p1.got /\ ~Hit1 /\ Active
  BY DEF t_got_miss
<1>2. CASE p1.retry
  BY <1>2 DEF Reloads
<1>3. CASE ~p1.retry
  <2>1. p1.reload
    BY <1>1, <1>3 DEF MemInv
  <2>2. lock /\ ~p1.out.valid
    BY <1>1, <2>1 DEF MemInv, Hit1
  <2> QED  BY <2>2 DEF Reloads, DirtyMiss
<1> QED  BY <1>2, <1>3

\* A flush starts when port 1 is free.
LEMMA FlushStarts ==
    ASSUME FlowInv, StartFlush \/ StartFlushCl
    PROVE  /\ ~Busy1 /\ ~t_got_miss /\ ~Hit1 /\ ~t_wr_array /\ ~Reloads /\ ~Pops /\ mq = <<>> /\ Active
           /\ rob = <<>> /\ pc \in 1 .. Len(prog) /\ ~core_mem_req_ack
<1>1. CoreType /\ FlushInv /\ OwnInv /\ PortInv
  BY DEF FlowInv, TypeInv
<1>2. Active /\ (flush_req \/ flush_cl_req) /\ mq = <<>> /\ ~(p1.got /\ p1.wr) /\ ~core_mem_req_ack
  BY DEF StartFlush, StartFlushCl, StoresDone
<1>3. rob = <<>> /\ pc <= Len(prog)
  BY <1>1, <1>2 DEF FlushInv
<1>4. ~p1.got
  <2>1. Len(rob) = 0 /\ Len(q) \in Nat
    BY <1>1, <1>3, Heads
  <2>2. ~(\E i \in 1 .. NAcc : TRUE)
    BY <2>1 DEF NAcc
  <2>3. ~Owned(p1.req)
    BY <2>2 DEF Owned
  <2> QED  BY <1>1, <1>2, <2>3 DEF OwnInv, PortInv, Busy1
<1>5. pc \in 1 .. Len(prog)
  BY <1>1, <1>3, ProgFacts DEF CoreType
<1> QED  BY <1>2, <1>3, <1>4, <1>5 DEF Busy1, Active, t_got_miss, Hit1, t_wr_array, Reloads, Pops, t_got_rd_retry, FiresStore, Served

\* What a clock in ACTIVE does.
LEMMA ActiveStep ==
    ASSUME FlowInv, MemInv, LineInv, DoActive
    PROVE  \/ (StartFlush /\ state' = "FLUSH_CACHE" /\ p1' = Walk(0) /\ arr' = arr /\ mreq' = mreq)
           \/ (StartFlushCl /\ state' = "FLUSH_CL" /\ p1' = Walk(prog[pc].set) /\ arr' = arr /\ mreq' = mreq)
           \/ (/\ t_got_miss /\ ~Pops /\ state' = "INJECT_RELOAD" /\ p1' = IdlePort(p1.req, 0, NoLine) /\ arr' = arr
               /\ reload_issue' /\ p1.got /\ p1.out = arr[p1.idx] /\ p1.idx = Set(p1.req)
               /\ (lock' <=> DirtyMiss) /\ (inhibit' <=> DirtyMiss)
               /\ DirtyMiss => mreq' = WriteBack
               /\ ~DirtyMiss => mreq' = MemReq("ask", "LW", p1.idx, Tag(p1.req), Fill(0)))
           \/ (state' = "ACTIVE" /\ Pops /\ p1' = Port(mq[1], FALSE) /\ mreq' = mreq)
           \/ (state' = "ACTIVE" /\ ~Pops /\ ~t_got_miss /\ p1' = NoPort /\ mreq' = mreq)
<1>1. TypeInv /\ CoreType /\ PortInv
  BY DEF FlowInv, TypeInv
<1>2. state' = CASE StartFlush -> "FLUSH_CACHE" [] StartFlushCl -> "FLUSH_CL"
                 [] Reloads /\ ~StartFlush /\ ~StartFlushCl -> "INJECT_RELOAD" [] OTHER -> "ACTIVE"
  BY DEF DoActive
<1>3. p1' = CASE StartFlush -> Walk(0)
               [] StartFlushCl -> Walk(prog[pc].set)
               [] t_got_rd_retry \/ FiresStore -> Port(t_mem_head, FALSE)
               [] Reloads /\ ~StartFlush /\ ~StartFlushCl -> IdlePort(p1.req, 0, NoLine)
               [] OTHER -> NoPort
  BY DEF DoActive
<1>4. mreq' = CASE Reloads /\ DirtyMiss -> WriteBack
                 [] Reloads /\ ~DirtyMiss -> MemReq("ask", "LW", p1.idx, Tag(p1.req), Fill(0))
                 [] OTHER -> mreq
  BY DEF DoActive
<1>5. /\ ~t_wr_array => arr' = arr
      /\ t_got_miss => (inhibit' <=> DirtyMiss)
      /\ Reloads => (lock' <=> DirtyMiss) /\ reload_issue'
  <2>1. /\ ~t_wr_array => arr' = arr
        /\ t_got_miss => inhibit' = DirtyMiss
        /\ Reloads => lock' = DirtyMiss
        /\ reload_issue' = (reload_issue \/ DirtyMiss \/ Reloads)
    BY DEF DoActive
  <2>2. t_got_miss => (inhibit' <=> DirtyMiss)
    <3>1. t_got_miss => inhibit' = DirtyMiss
      BY <2>1
    <3> QED  BY <3>1, Zenon
  <2>3. Reloads => (lock' <=> DirtyMiss)
    <3>1. Reloads => lock' = DirtyMiss
      BY <2>1
    <3> QED  BY <3>1, Zenon
  <2>4. Reloads => reload_issue'
    <3>1. reload_issue' = (reload_issue \/ DirtyMiss \/ Reloads)
      BY <2>1
    <3> QED  BY <3>1, Zenon
  <2> QED  BY <2>1, <2>2, <2>3, <2>4
<1>6. ~(StartFlush /\ StartFlushCl)
  BY DEF StartFlush, StartFlushCl
<1>7. CASE StartFlush
  <2>1. ~Reloads /\ ~t_wr_array
    BY <1>7, FlushStarts
  <2>2. state' = "FLUSH_CACHE"
    BY <1>2, <1>6, <1>7
  <2>3. p1' = Walk(0)
    BY <1>3, <1>6, <1>7, <2>1, FlushStarts DEF Pops
  <2>4. mreq' = mreq
    BY <1>4, <2>1
  <2> QED  BY <1>5, <1>7, <2>1, <2>2, <2>3, <2>4
<1>8. CASE StartFlushCl
  <2>1. ~Reloads /\ ~t_wr_array
    BY <1>8, FlushStarts
  <2>2. state' = "FLUSH_CL"
    BY <1>2, <1>6, <1>8
  <2>3. p1' = Walk(prog[pc].set)
    BY <1>3, <1>6, <1>8, <2>1, FlushStarts DEF Pops
  <2>4. mreq' = mreq
    BY <1>4, <2>1
  <2> QED  BY <1>5, <1>8, <2>1, <2>2, <2>3, <2>4
<1>9. CASE t_got_miss /\ ~StartFlush /\ ~StartFlushCl
  <2>1. Reloads /\ p1.got /\ ~t_wr_array /\ ~Pops
    BY <1>9, MissReloads, PopsFacts DEF t_got_miss, t_wr_array
  <2>2. p1.out = arr[p1.idx] /\ p1.idx = Set(p1.req)
    BY <1>1, <2>1 DEF LineInv, PortInv
  <2> QED  BY <1>2, <1>3, <1>4, <1>5, <1>9, <2>1, <2>2 DEF Pops
<1>10. CASE ~t_got_miss /\ ~StartFlush /\ ~StartFlushCl
  <2>1. ~Reloads
    BY <1>10 DEF Reloads
  <2>2. CASE Pops
    <3>1. t_mem_head = mq[1]
      BY <1>1, <2>2, PopsFacts, Heads
    <3> QED  BY <1>2, <1>3, <1>4, <1>10, <2>1, <2>2, <3>1 DEF Pops
  <2>3. CASE ~Pops
    BY <1>2, <1>3, <1>4, <1>10, <2>1, <2>3 DEF Pops
  <2> QED  BY <2>2, <2>3
<1> QED  BY <1>7, <1>8, <1>9, <1>10

\* The lines of the arrays after a clock in ACTIVE.
LEMMA ActiveLines ==
    ASSUME FlowInv, MemInv, LineInv, DoActive
    PROVE  /\ \A s \in Sets : /\ arr'[s].dirty => arr'[s].valid
                              /\ arr'[s].valid /\ ~arr'[s].dirty => arr'[s].data = mem'[<<s, arr'[s].tag>>]
           /\ Pops => arr'[Set(mq[1])] = arr[Set(mq[1])]
<1>1. TypeInv /\ CoreType /\ PortInv /\ mem' = mem
  BY DEF FlowInv, TypeInv, DoActive
<1>2. CASE ~t_wr_array
  <2>1. arr' = arr
    BY <1>1, <1>2, ActiveWrites
  <2> QED  BY <1>1, <2>1 DEF LineInv
<1>3. CASE t_wr_array
  <2>1. /\ p1.got /\ p1.idx \in Sets
        /\ arr'[p1.idx].valid = arr[p1.idx].valid /\ arr'[p1.idx].dirty
        /\ \A i \in Sets : i # p1.idx => arr'[i] = arr[i]
    BY <1>1, <1>3, ActiveWrites
  <2>2. p1.out = arr[p1.idx] /\ p1.wr /\ p1.out.valid
    BY <1>1, <1>3, <2>1 DEF LineInv, PortInv, t_wr_array, Hit1
  <2>3. arr'[p1.idx].valid
    BY <2>1, <2>2
  <2>4. Pops => arr'[Set(mq[1])] = arr[Set(mq[1])]
    <3>1. SUFFICES ASSUME Pops PROVE arr'[Set(mq[1])] = arr[Set(mq[1])]
      OBVIOUS
    <3>2. Served /\ mq # <<>>
      BY <3>1 DEF Pops, t_got_rd_retry, FiresStore, Served
    <3>3. t_mem_head = mq[1] /\ Set(mq[1]) \in Sets
      BY <1>1, <3>2, Heads, ProgFacts DEF LiveReqs
    <3>4. p1.idx # Set(mq[1])
      BY <2>1, <2>2, <3>2, <3>3 DEF Served, t_mh_block
    <3> QED  BY <2>1, <3>3, <3>4
  <2> QED  BY <1>1, <2>1, <2>3, <2>4 DEF LineInv
<1> QED  BY <1>2, <1>3

\* A walk reads a line.
LEMMA WalkReads ==
    ASSUME FlowInv, NEW i \in Sets
    PROVE  ~Walk(i).got /\ Walk(i).idx = i /\ Walk(i).out = arr[i]
<1>1. NoReq \in Reqs /\ arr[i] \in Lines
  BY Consts DEF FlowInv, TypeInv, ArrayType
<1> QED  BY <1>1, IdlePortType DEF Walk

\* In ACTIVE: port 1 reads the line it will find, and a miss or a flush starts.
LEMMA ActiveKeeps ==
    ASSUME FlowInv, LineInv, MemInv, DoActive, UNCHANGED prog, state' \in FlushStates => pc' = pc
    PROVE  LineInv' /\ MemInv' /\ WalkInv'
<1>1. TypeInv /\ CoreType /\ ArrayType /\ PortType /\ PortInv /\ mem' = mem /\ state = "ACTIVE" /\ ~flush_complete'
  BY DEF FlowInv, TypeInv, DoActive, Active
<1>2. mreq.st = "no"
  BY <1>1 DEF MemInv, Owing
<1>3. TRUE \in BOOLEAN /\ FALSE \in BOOLEAN /\ 0 \in Sets /\ NoReq \in Reqs /\ NoLine \in Lines
  BY <1>1, Consts
<1>4. ~NoPort.got
  BY <1>3, IdlePortType DEF NoPort
<1>5. \A s \in Sets : /\ arr'[s].dirty => arr'[s].valid
                      /\ arr'[s].valid /\ ~arr'[s].dirty => arr'[s].data = mem'[<<s, arr'[s].tag>>]
  BY ActiveLines
<1>6. Set(p1.req)' = Set(p1'.req) /\ Tag(p1.req)' = Tag(p1'.req) /\ (prog[pc])' = prog[pc']
  BY DEF Set, Tag
<1>7. CASE StartFlush /\ state' = "FLUSH_CACHE" /\ p1' = Walk(0) /\ arr' = arr /\ mreq' = mreq
  <2>1. ~p1'.got /\ p1'.idx = 0 /\ p1'.out = arr[0]
    BY <1>3, <1>7, WalkReads
  <2>2. LineInv'
    BY <1>5, <1>7, <2>1 DEF LineInv
  <2>3. MemInv'
    BY <1>2, <1>7, <2>1 DEF MemInv, Owing
  <2>4. \A s \in Sets : ~(s < 0)
    BY DEF Sets
  <2>5. WalkInv'
    BY <1>1, <1>7, <2>1, <2>4 DEF WalkInv
  <2> QED  BY <2>2, <2>3, <2>5
<1>8. CASE StartFlushCl /\ state' = "FLUSH_CL" /\ p1' = Walk(prog[pc].set) /\ arr' = arr /\ mreq' = mreq
  <2>1. prog[pc].set \in Sets /\ pc' = pc
    BY <1>1, <1>8, FlushStarts, ProgFacts DEF FlushStates
  <2>2. ~p1'.got /\ p1'.idx = prog[pc].set /\ p1'.out = arr[prog[pc].set]
    BY <1>8, <2>1, WalkReads
  <2>3. LineInv'
    BY <1>5, <1>8, <2>2 DEF LineInv
  <2>4. MemInv'
    BY <1>2, <1>8, <2>2 DEF MemInv, Owing
  <2>5. WalkInv'
    BY <1>1, <1>8, <2>1, <2>2 DEF WalkInv
  <2> QED  BY <2>3, <2>4, <2>5
<1>9. CASE /\ t_got_miss /\ ~Pops /\ state' = "INJECT_RELOAD" /\ p1' = IdlePort(p1.req, 0, NoLine) /\ arr' = arr
           /\ reload_issue' /\ p1.got /\ p1.out = arr[p1.idx] /\ p1.idx = Set(p1.req)
           /\ (lock' <=> DirtyMiss) /\ (inhibit' <=> DirtyMiss)
           /\ DirtyMiss => mreq' = WriteBack
           /\ ~DirtyMiss => mreq' = MemReq("ask", "LW", p1.idx, Tag(p1.req), Fill(0))
  <2>1. p1.req \in Reqs /\ p1.idx \in Sets
    BY <1>1 DEF PortType, Ports
  <2>2. ~p1'.got /\ p1'.req = p1.req
    BY <1>3, <1>9, <2>1, IdlePortType
  <2>3. LineInv'
    BY <1>5, <1>9, <2>2 DEF LineInv
  <2>4. mreq'.st = "ask" /\ mreq'.set = p1.idx
    BY <1>9 DEF WriteBack, MemReq
  <2>5. /\ DirtyMiss => mreq'.op = "SW" /\ mreq'.tag = p1.out.tag /\ mreq'.data = p1.out.data
        /\ ~DirtyMiss => mreq'.op = "LW" /\ mreq'.tag = Tag(p1.req)
    BY <1>9 DEF WriteBack, MemReq
  <2>6. DirtyMiss => arr[p1.idx].valid
    BY <1>9 DEF DirtyMiss
  <2>7. ~DirtyMiss => ~arr[p1.idx].dirty
    BY <1>9, <2>1 DEF DirtyMiss, LineInv
  <2>8. MemInv'
    BY <1>6, <1>9, <2>2, <2>4, <2>5, <2>6, <2>7 DEF MemInv, Owing
  <2>9. WalkInv'
    BY <1>1, <1>9 DEF WalkInv
  <2> QED  BY <2>3, <2>8, <2>9
<1>10. CASE state' = "ACTIVE" /\ Pops /\ p1' = Port(mq[1], FALSE) /\ mreq' = mreq
  <2>1. mq[1] \in LiveReqs
    BY <1>1, <1>10, PopsFacts, Heads
  <2>2. /\ p1'.got /\ p1'.idx = Set(mq[1]) /\ p1'.out = arr[Set(mq[1])] /\ (p1'.reload <=> FALSE)
        /\ (p1'.retry <=> ~FALSE)
    BY <1>1, <1>3, <1>10, <2>1, PortTypes
  <2>3. arr'[Set(mq[1])] = arr[Set(mq[1])]
    BY <1>10, ActiveLines
  <2>4. LineInv'
    BY <1>5, <1>10, <2>2, <2>3 DEF LineInv
  <2>5. MemInv'
    BY <1>2, <1>10, <2>2 DEF MemInv, Owing
  <2>6. WalkInv'
    BY <1>1, <1>10 DEF WalkInv
  <2> QED  BY <2>4, <2>5, <2>6
<1>11. CASE state' = "ACTIVE" /\ ~Pops /\ ~t_got_miss /\ p1' = NoPort /\ mreq' = mreq
  <2>1. ~p1'.got
    BY <1>4, <1>11
  <2>2. LineInv'
    BY <1>5, <1>11, <2>1 DEF LineInv
  <2>3. MemInv'
    BY <1>2, <1>11, <2>1 DEF MemInv, Owing
  <2>4. WalkInv'
    BY <1>1, <1>11 DEF WalkInv
  <2> QED  BY <2>2, <2>3, <2>4
<1> QED  BY <1>7, <1>8, <1>9, <1>10, <1>11, ActiveStep

\* The answer of the memory invalidates the line it wrote back, or refills it.
LEMMA ReplyLines ==
    ASSUME FlowInv, LineInv, MemInv, MemReply, state \in Owing
    PROVE  /\ \A s \in Sets : /\ arr'[s].dirty => arr'[s].valid
                              /\ arr'[s].valid /\ ~arr'[s].dirty => arr'[s].data = mem'[<<s, arr'[s].tag>>]
           /\ mreq.set \in Sets /\ mreq.tag \in Tags /\ mreq'.st = "no"
           /\ \A s \in Sets : s # mreq.set => arr'[s] = arr[s]
           /\ mreq.op \in {"LW", "SW"}
           /\ mreq.op = "SW" => ~arr'[mreq.set].valid
           /\ mreq.op = "LW" => arr'[mreq.set].valid /\ arr'[mreq.set].tag = mreq.tag
<1>1. CoreType /\ ArrayType
  BY DEF FlowInv, TypeInv
<1>2. /\ mreq.set \in Sets /\ mreq.tag \in Tags
      /\ \A i \in Sets : i # mreq.set => arr'[i] = arr[i]
      /\ arr'[mreq.set].valid <=> ~inhibit
      /\ ~arr'[mreq.set].dirty /\ arr'[mreq.set].tag = mreq.tag
      /\ mreq.op = "LW" => arr'[mreq.set].data = mem[<<mreq.set, mreq.tag>>] /\ mem' = mem
      /\ mreq.op = "SW" => mem' = [mem EXCEPT ![<<mreq.set, mreq.tag>>] = mreq.data]
  BY <1>1, MemReplyType
<1>3. mreq.op \in {"LW", "SW"}
  BY <1>1 DEF ArrayType, MemReqs
<1>4. /\ mreq.op = "SW" => inhibit
      /\ mreq.op = "LW" => ~inhibit
  BY DEF MemInv
<1>5. mreq'.st = "no"
  BY DEF MemReply, NoMem, MemReq
<1>6. ASSUME NEW s \in Sets, s # mreq.set, arr'[s].valid, ~arr'[s].dirty
      PROVE  arr'[s].data = mem'[<<s, arr'[s].tag>>]
  <2>1. arr'[s] = arr[s] /\ arr[s].tag \in Tags
    BY <1>1, <1>2, <1>6 DEF ArrayType, Lines
  <2>2. mem'[<<s, arr[s].tag>>] = mem[<<s, arr[s].tag>>]
    BY <1>1, <1>2, <1>3, <1>6, <2>1 DEF ArrayType
  <2> QED  BY <1>6, <2>1, <2>2 DEF LineInv
<1>7. ASSUME NEW s \in Sets
      PROVE  /\ arr'[s].dirty => arr'[s].valid
             /\ arr'[s].valid /\ ~arr'[s].dirty => arr'[s].data = mem'[<<s, arr'[s].tag>>]
  <2>1. CASE s = mreq.set
    BY <1>2, <1>3, <1>4, <2>1
  <2>2. CASE s # mreq.set
    BY <1>2, <1>6, <2>2 DEF LineInv
  <2> QED  BY <2>1, <2>2
<1> QED  BY <1>2, <1>3, <1>4, <1>5, <1>7

\* The write-back or the refill is answered.
LEMMA InjectKeeps ==
    ASSUME FlowInv, LineInv, MemInv, DoInjectReload, UNCHANGED prog
    PROVE  LineInv' /\ MemInv' /\ WalkInv'
<1>1. /\ ArrayType /\ PortInv /\ state = "INJECT_RELOAD" /\ state \in Owing /\ ~flush_complete' /\ p1' = p1 /\ lock' = lock
      /\ reload_issue
  BY DEF FlowInv, TypeInv, DoInjectReload, MemInv, Owing
<1>2. ~p1.got
  BY <1>1 DEF PortInv
<1>3. Set(p1.req)' = Set(p1.req) /\ Tag(p1.req)' = Tag(p1.req) /\ Set(p1.req) = mreq.set
  BY <1>1 DEF Set, Tag, MemInv
<1>4. CASE MemReply /\ state' = IF reload_issue THEN "HANDLE_RELOAD" ELSE "ACTIVE"
  <2>1. state' = "HANDLE_RELOAD"
    BY <1>1, <1>4
  <2>2. LineInv'
    BY <1>1, <1>2, <1>4, <2>1, ReplyLines DEF LineInv
  <2>3. IF lock THEN ~arr'[Set(p1.req)].valid
        ELSE arr'[Set(p1.req)].valid /\ arr'[Set(p1.req)].tag = Tag(p1.req)
    BY <1>1, <1>3, <1>4, ReplyLines DEF MemInv
  <2>4. mreq'.st = "no"
    BY <1>1, <1>4, ReplyLines
  <2>5. MemInv'
    BY <1>1, <1>2, <1>3, <2>1, <2>3, <2>4 DEF MemInv, Owing
  <2>6. WalkInv'
    BY <1>1, <2>1 DEF WalkInv
  <2> QED  BY <2>2, <2>5, <2>6
<1>5. CASE MemWaits /\ UNCHANGED <<state, reload_issue>>
  <2>1. /\ arr' = arr /\ mem' = mem /\ inhibit' = inhibit
        /\ mreq'.op = mreq.op /\ mreq'.set = mreq.set /\ mreq'.tag = mreq.tag /\ mreq'.data = mreq.data
        /\ mreq'.st = "no" <=> mreq.st = "no"
    BY <1>1, <1>5, MemWaitsType
  <2>2. LineInv'
    BY <1>1, <1>2, <1>5, <2>1 DEF LineInv
  <2>3. MemInv'
    BY <1>1, <1>2, <1>3, <1>5, <2>1 DEF MemInv, Owing
  <2>4. WalkInv'
    BY <1>1, <1>5 DEF WalkInv
  <2> QED  BY <2>2, <2>3, <2>4
<1> QED  BY <1>4, <1>5 DEF DoInjectReload

\* The request that missed is replayed against the line just refilled or emptied.
LEMMA HandleKeeps ==
    ASSUME FlowInv, LineInv, MemInv, DoHandleReload, UNCHANGED prog
    PROVE  LineInv' /\ MemInv' /\ WalkInv'
<1>1. /\ TypeInv /\ PortType /\ state = "HANDLE_RELOAD" /\ state' = "ACTIVE" /\ ~flush_complete' /\ p1' = Port(p1.req, TRUE)
      /\ UNCHANGED <<arr, mem, mreq, lock, reload_issue, inhibit>>
  BY DEF FlowInv, TypeInv, DoHandleReload
<1>2. p1.req \in LiveReqs /\ TRUE \in BOOLEAN
  BY <1>1 DEF PortType, Busy1
<1>3. /\ p1'.req = p1.req /\ p1'.idx = Set(p1.req) /\ p1'.out = arr[Set(p1.req)]
      /\ (p1'.reload <=> TRUE) /\ (p1'.retry <=> ~TRUE)
  BY <1>1, <1>2, PortTypes
<1>4. Set(p1.req)' = Set(p1.req) /\ Tag(p1.req)' = Tag(p1.req)
  BY <1>3 DEF Set, Tag
<1>5. LineInv'
  BY <1>1, <1>3 DEF LineInv
<1>6. MemInv'
  BY <1>1, <1>3, <1>4 DEF MemInv, Owing
<1>7. WalkInv'
  BY <1>1 DEF WalkInv
<1> QED  BY <1>5, <1>6, <1>7

\* Flushing one line: a clean line is dropped, a dirty one is sent to memory.
LEMMA FlushClKeeps ==
    ASSUME FlowInv, LineInv, MemInv, WalkInv, DoFlushCl, UNCHANGED prog, pc' = pc
    PROVE  LineInv' /\ MemInv' /\ WalkInv'
<1>1. /\ TypeInv /\ PortType /\ ArrayType /\ CoreType /\ FlushInv /\ state = "FLUSH_CL" /\ p1' = NoPort
      /\ UNCHANGED <<mem, lock, reload_issue>>
  BY DEF FlowInv, TypeInv, DoFlushCl
<1>2. p1.idx \in Sets /\ p1.out = arr[p1.idx] /\ p1.idx = prog[pc].set /\ prog[pc].op = "flushcl" /\ mreq.st = "no"
  BY <1>1 DEF PortType, Ports, LineInv, WalkInv, FlushInv, MemInv, Owing
<1>3. ~p1'.got
  <2>1. NoReq \in Reqs /\ 0 \in Sets /\ NoLine \in Lines
    BY <1>1, Consts
  <2> QED  BY <1>1, <2>1, IdlePortType DEF NoPort
<1>4. CASE p1.out.dirty
  <2>1. state' = "FLUSH_CL_WAIT" /\ mreq' = WriteBack /\ inhibit' /\ ~flush_complete' /\ arr' = arr
    BY <1>4 DEF DoFlushCl
  <2>2. /\ mreq'.st = "ask" /\ mreq'.op = "SW" /\ mreq'.set = p1.idx
        /\ mreq'.tag = p1.out.tag /\ mreq'.data = p1.out.data
    BY <2>1 DEF WriteBack, MemReq
  <2>3. arr[p1.idx].valid
    BY <1>2, <1>4 DEF LineInv
  <2>4. LineInv'
    BY <1>1, <1>3, <2>1 DEF LineInv
  <2>5. MemInv'
    BY <1>1, <1>2, <1>3, <2>1, <2>2, <2>3 DEF MemInv, Owing
  <2>6. WalkInv'
    BY <1>1, <1>2, <2>1, <2>2 DEF WalkInv
  <2> QED  BY <2>4, <2>5, <2>6
<1>5. CASE ~p1.out.dirty
  <2>1. state' = "ACTIVE" /\ MarkInvalid /\ mreq' = mreq
    BY <1>5 DEF DoFlushCl
  <2>2. /\ ~arr'[p1.idx].valid /\ arr'[p1.idx].dirty = arr[p1.idx].dirty
        /\ \A i \in Sets : i # p1.idx => arr'[i] = arr[i]
    BY <1>1, <2>1, Invalidates
  <2>3. LineInv'
    BY <1>1, <1>2, <1>3, <1>5, <2>1, <2>2 DEF LineInv
  <2>4. MemInv'
    BY <1>1, <1>2, <1>3, <2>1 DEF MemInv, Owing
  <2>5. WalkInv'
    BY <1>1, <1>2, <2>1, <2>2 DEF WalkInv
  <2> QED  BY <2>3, <2>4, <2>5
<1> QED  BY <1>4, <1>5

\* Flushing one line: the memory has it.
LEMMA FlushClWaitKeeps ==
    ASSUME FlowInv, LineInv, MemInv, WalkInv, DoFlushClWait, UNCHANGED prog, pc' = pc
    PROVE  LineInv' /\ MemInv' /\ WalkInv'
<1>1. /\ ArrayType /\ FlushInv /\ state = "FLUSH_CL_WAIT" /\ state \in Owing /\ p1' = p1
      /\ UNCHANGED <<lock, reload_issue>>
  BY DEF FlowInv, TypeInv, DoFlushClWait, Owing
<1>2. ~p1.got /\ mreq.set = prog[pc].set /\ prog[pc].op = "flushcl" /\ mreq.op = "SW"
  BY <1>1 DEF WalkInv, FlushInv, FlushStates, MemInv
<1>3. CASE MemReply /\ state' = "ACTIVE" /\ flush_complete' = TRUE
  <2>1. LineInv'
    BY <1>1, <1>2, <1>3, ReplyLines DEF LineInv
  <2>2. mreq'.st = "no" /\ ~arr'[mreq.set].valid
    BY <1>1, <1>2, <1>3, ReplyLines
  <2>3. MemInv'
    BY <1>1, <1>2, <1>3, <2>2 DEF MemInv, Owing
  <2>4. WalkInv'
    BY <1>1, <1>2, <1>3, <2>2 DEF WalkInv
  <2> QED  BY <2>1, <2>3, <2>4
<1>4. CASE MemWaits /\ UNCHANGED state /\ flush_complete' = FALSE
  <2>1. /\ arr' = arr /\ mem' = mem /\ inhibit' = inhibit
        /\ mreq'.op = mreq.op /\ mreq'.set = mreq.set /\ mreq'.tag = mreq.tag /\ mreq'.data = mreq.data
        /\ mreq'.st = "no" <=> mreq.st = "no"
    BY <1>1, <1>4, MemWaitsType
  <2>2. LineInv'
    BY <1>1, <1>2, <1>4, <2>1 DEF LineInv
  <2>3. MemInv'
    BY <1>1, <1>2, <1>4, <2>1 DEF MemInv, Owing
  <2>4. WalkInv'
    BY <1>1, <1>2, <1>4, <2>1 DEF WalkInv
  <2> QED  BY <2>2, <2>3, <2>4
<1> QED  BY <1>3, <1>4 DEF DoFlushClWait

\* Flushing the cache: one more line is dropped or sent to memory.
LEMMA FlushCacheKeeps ==
    ASSUME FlowInv, LineInv, MemInv, WalkInv, DoFlushCache, UNCHANGED prog, pc' = pc
    PROVE  LineInv' /\ MemInv' /\ WalkInv'
<1>1. /\ TypeInv /\ PortType /\ ArrayType /\ CoreType /\ FlushInv /\ state = "FLUSH_CACHE"
      /\ UNCHANGED <<mem, lock, reload_issue>>
  BY DEF FlowInv, TypeInv, DoFlushCache
<1>2. /\ p1.idx \in Sets /\ p1.out = arr[p1.idx] /\ prog[pc].op = "flush" /\ mreq.st = "no"
      /\ \A s \in Sets : s < p1.idx => ~arr[s].valid
  BY <1>1 DEF PortType, Ports, LineInv, WalkInv, FlushInv, MemInv, Owing
<1>3. CASE WalkEnds
  <2>1. state' = "ACTIVE" /\ p1' = NoPort /\ arr' = arr /\ mreq' = mreq
    BY <1>3 DEF DoFlushCache
  <2>2. ~p1'.got
    <3>1. NoReq \in Reqs /\ 0 \in Sets /\ NoLine \in Lines
      BY <1>1, Consts
    <3> QED  BY <2>1, <3>1, IdlePortType DEF NoPort
  <2>3. LineInv'
    BY <1>1, <2>1, <2>2 DEF LineInv
  <2>4. MemInv'
    BY <1>2, <2>1, <2>2 DEF MemInv, Owing
  <2>5. WalkInv'
    BY <1>1, <1>2, <1>3, <2>1 DEF WalkInv, WalkEnds
  <2> QED  BY <2>3, <2>4, <2>5
<1>4. ASSUME ~WalkEnds
      PROVE  /\ p1.idx \in Int /\ p1.idx + 1 \in Sets
             /\ ~Walk(p1.idx + 1).got /\ Walk(p1.idx + 1).idx = p1.idx + 1 /\ Walk(p1.idx + 1).out = arr[p1.idx + 1]
  <2>1. p1.idx \in Int /\ p1.idx + 1 \in Sets
    BY <1>2, <1>4, L1DAssumption DEF Sets, WalkEnds
  <2> QED  BY <2>1, WalkReads
<1>5. CASE ~WalkEnds /\ ~p1.out.dirty
  <2>1. MarkInvalid /\ p1' = Walk(p1.idx + 1) /\ ~flush_complete' /\ state' = state /\ mreq' = mreq
    BY <1>5 DEF DoFlushCache
  <2>2. /\ ~arr'[p1.idx].valid /\ arr'[p1.idx].dirty = arr[p1.idx].dirty
        /\ \A i \in Sets : i # p1.idx => arr'[i] = arr[i]
    BY <1>1, <2>1, Invalidates
  <2>3. p1.idx + 1 \in Sets /\ ~p1'.got /\ p1'.idx = p1.idx + 1 /\ p1'.out = arr'[p1.idx + 1]
    <3>1. p1.idx + 1 # p1.idx
      BY <1>4, <1>5
    <3> QED  BY <1>4, <1>5, <2>1, <2>2, <3>1
  <2>4. LineInv'
    <3>1. \A s \in Sets : /\ arr'[s].dirty => arr'[s].valid
                          /\ arr'[s].valid /\ ~arr'[s].dirty => arr'[s].data = mem'[<<s, arr'[s].tag>>]
      BY <1>1, <1>2, <1>5, <2>2 DEF LineInv
    <3> QED  BY <2>3, <3>1 DEF LineInv
  <2>5. MemInv'
    BY <1>1, <1>2, <2>1, <2>3 DEF MemInv, Owing
  <2>6. ASSUME NEW s \in Sets, s < p1.idx + 1 PROVE ~arr'[s].valid
    <3>1. s < p1.idx \/ s = p1.idx
      BY <1>4, <1>5, <2>6 DEF Sets
    <3> QED  BY <1>2, <2>2, <3>1
  <2>7. WalkInv'
    BY <1>1, <2>1, <2>3, <2>6 DEF WalkInv
  <2> QED  BY <2>4, <2>5, <2>7
<1>6. CASE ~WalkEnds /\ p1.out.dirty
  <2>1. state' = "FLUSH_CACHE_WAIT" /\ mreq' = WriteBack /\ inhibit' /\ ~flush_complete' /\ arr' = arr /\ p1' = Walk(p1.idx + 1)
    BY <1>6 DEF DoFlushCache
  <2>2. /\ mreq'.st = "ask" /\ mreq'.op = "SW" /\ mreq'.set = p1.idx
        /\ mreq'.tag = p1.out.tag /\ mreq'.data = p1.out.data
    BY <2>1 DEF WriteBack, MemReq
  <2>3. arr[p1.idx].valid
    BY <1>2, <1>6 DEF LineInv
  <2>4. ~p1'.got /\ p1'.idx - 1 = p1.idx
    BY <1>4, <1>6, <2>1
  <2>5. LineInv'
    BY <1>1, <2>1, <2>4 DEF LineInv
  <2>6. MemInv'
    BY <1>1, <1>2, <2>1, <2>2, <2>3, <2>4 DEF MemInv, Owing
  <2>7. WalkInv'
    BY <1>1, <1>2, <2>1, <2>2, <2>4 DEF WalkInv
  <2> QED  BY <2>5, <2>6, <2>7
<1> QED  BY <1>3, <1>5, <1>6

\* Flushing the cache: the memory has the line, the walk goes on.
LEMMA FlushCacheWaitKeeps ==
    ASSUME FlowInv, LineInv, MemInv, WalkInv, DoFlushCacheWait, UNCHANGED prog, pc' = pc
    PROVE  LineInv' /\ MemInv' /\ WalkInv'
<1>1. /\ PortType /\ ArrayType /\ FlushInv /\ state = "FLUSH_CACHE_WAIT" /\ state \in Owing /\ p1' = Walk(p1.idx)
      /\ UNCHANGED <<lock, reload_issue>> /\ ~flush_complete'
  BY DEF FlowInv, TypeInv, DoFlushCacheWait, Owing
<1>2. /\ mreq.set = p1.idx - 1 /\ mreq.op = "SW" /\ p1.idx \in Sets /\ p1.idx \in Int
      /\ \A s \in Sets : s < p1.idx - 1 => ~arr[s].valid
  BY <1>1 DEF WalkInv, MemInv, PortType, Ports, Sets
<1>3. ~p1'.got /\ p1'.idx = p1.idx /\ p1'.out = arr[p1.idx]
  BY <1>1, <1>2, WalkReads
<1>4. CASE MemReply /\ state' = "FLUSH_CACHE"
  <2>1. /\ mreq'.st = "no" /\ ~arr'[mreq.set].valid
        /\ \A s \in Sets : s # mreq.set => arr'[s] = arr[s]
    BY <1>1, <1>2, <1>4, ReplyLines
  <2>2. p1'.out = arr'[p1'.idx]
    BY <1>2, <1>3, <2>1
  <2>3. LineInv'
    BY <1>1, <1>4, <2>2, ReplyLines DEF LineInv
  <2>4. MemInv'
    BY <1>3, <1>4, <2>1 DEF MemInv, Owing
  <2>5. ASSUME NEW s \in Sets, s < p1.idx PROVE ~arr'[s].valid
    <3>1. s < p1.idx - 1 \/ s = p1.idx - 1
      BY <1>2, <2>5 DEF Sets
    <3>2. s < p1.idx - 1 => s # p1.idx - 1
      BY <1>2 DEF Sets
    <3> QED  BY <1>2, <2>1, <3>1, <3>2
  <2>6. WalkInv'
    BY <1>1, <1>3, <1>4, <2>5 DEF WalkInv
  <2> QED  BY <2>3, <2>4, <2>6
<1>5. CASE MemWaits /\ UNCHANGED state
  <2>1. /\ arr' = arr /\ mem' = mem /\ inhibit' = inhibit
        /\ mreq'.op = mreq.op /\ mreq'.set = mreq.set /\ mreq'.tag = mreq.tag /\ mreq'.data = mreq.data
        /\ mreq'.st = "no" <=> mreq.st = "no"
    BY <1>1, <1>5, MemWaitsType
  <2>2. LineInv'
    BY <1>1, <1>3, <1>5, <2>1 DEF LineInv
  <2>3. MemInv'
    BY <1>1, <1>2, <1>3, <1>5, <2>1 DEF MemInv, Owing
  <2>4. WalkInv'
    BY <1>1, <1>2, <1>3, <1>5, <2>1 DEF WalkInv
  <2> QED  BY <2>2, <2>3, <2>4
<1> QED  BY <1>4, <1>5 DEF DoFlushCacheWait

\* The lines, the memory request and the walk of a flush, over one clock.
LEMMA ArraysKept ==
    ASSUME FlowInv, LineInv, MemInv, WalkInv, NEW n, NEW is, NEW sq, NEW rs, Clock(n, is, sq, rs)
    PROVE  LineInv' /\ MemInv' /\ WalkInv'
<1>1. Cache /\ prog' = prog /\ FlushInv
  BY ClockFacts DEF FlowInv
<1>2. fl' # "no" => pc' = pc
  BY FlMoves
<1>3. state' \in FlushStates \/ flush_complete' => pc' = pc
  BY <1>2, FlushKept DEF FlushInv
<1>4. state \in FlushStates => pc' = pc
  <2>1. state \in FlushStates => fl = "wait" /\ ~flush_complete
    BY <1>1 DEF FlushInv, FlushStates
  <2> QED  BY <1>2, <2>1, FlMoves DEF FlStep
<1>5. CASE DoActive
  BY <1>1, <1>3, <1>5, ActiveKeeps
<1>6. CASE DoInjectReload
  BY <1>1, <1>6, InjectKeeps
<1>7. CASE DoHandleReload
  BY <1>1, <1>7, HandleKeeps
<1>8. CASE DoFlushCl
  <2>1. pc' = pc
    BY <1>4, <1>8 DEF DoFlushCl, FlushStates
  <2> QED  BY <1>1, <1>8, <2>1, FlushClKeeps
<1>9. CASE DoFlushClWait
  <2>1. pc' = pc
    BY <1>4, <1>9 DEF DoFlushClWait, FlushStates
  <2> QED  BY <1>1, <1>9, <2>1, FlushClWaitKeeps
<1>10. CASE DoFlushCache
  <2>1. pc' = pc
    BY <1>4, <1>10 DEF DoFlushCache, FlushStates
  <2> QED  BY <1>1, <1>10, <2>1, FlushCacheKeeps
<1>11. CASE DoFlushCacheWait
  <2>1. pc' = pc
    BY <1>4, <1>11 DEF DoFlushCacheWait, FlushStates
  <2> QED  BY <1>1, <1>11, <2>1, FlushCacheWaitKeeps
<1> QED  BY <1>1, <1>5, <1>6, <1>7, <1>8, <1>9, <1>10, <1>11 DEF Cache

-----------------------------------------------------------------------------
(* The memory as the cache shows it changes only when port 1 writes.       *)

\* Neither a refill nor a completed write-back changes what the cache shows.
LEMMA ReplyShows ==
    ASSUME FlowInv, LineInv, MemInv, MemReply, state \in Owing, NEW s \in Sets, NEW t \in Tags
    PROVE  ArrVal(s, t)' = ArrVal(s, t)
<1>1. CoreType /\ ArrayType
  BY DEF FlowInv, TypeInv
<1>2. /\ mreq.set \in Sets /\ mreq.tag \in Tags
      /\ \A i \in Sets : i # mreq.set => arr'[i] = arr[i]
      /\ mreq.op = "LW" => arr'[mreq.set].data = mem[<<mreq.set, mreq.tag>>] /\ mem' = mem
      /\ mreq.op = "SW" => mem' = [mem EXCEPT ![<<mreq.set, mreq.tag>>] = mreq.data]
  BY <1>1, MemReplyType
<1>3. /\ mreq.op \in {"LW", "SW"}
      /\ mreq.op = "SW" => ~arr'[mreq.set].valid
      /\ mreq.op = "LW" => arr'[mreq.set].valid /\ arr'[mreq.set].tag = mreq.tag
  BY ReplyLines
<1>4. CASE s # mreq.set
  <2>1. mem'[<<s, t>>] = mem[<<s, t>>]
    BY <1>1, <1>2, <1>3, <1>4 DEF ArrayType
  <2> QED  BY <1>2, <1>4, <2>1 DEF ArrVal
<1>5. CASE s = mreq.set /\ mreq.op = "SW"
  <2>1. arr[s].valid /\ arr[s].tag = mreq.tag /\ arr[s].data = mreq.data
    BY <1>5 DEF MemInv
  <2>2. mem'[<<s, t>>] = IF t = mreq.tag THEN mreq.data ELSE mem[<<s, t>>]
    BY <1>1, <1>2, <1>5 DEF ArrayType
  <2> QED  BY <1>3, <1>5, <2>1, <2>2 DEF ArrVal
<1>6. CASE s = mreq.set /\ mreq.op = "LW"
  <2>1. ~arr[s].dirty
    BY <1>6 DEF MemInv
  <2> QED  BY <1>2, <1>3, <1>6, <2>1 DEF ArrVal, LineInv
<1> QED  BY <1>3, <1>4, <1>5, <1>6

\* Nor does dropping a clean line.
LEMMA InvalidShows ==
    ASSUME FlowInv, LineInv, MarkInvalid, mem' = mem, state \in {"FLUSH_CL", "FLUSH_CACHE"}, ~p1.out.dirty,
           NEW s \in Sets, NEW t \in Tags
    PROVE  ArrVal(s, t)' = ArrVal(s, t)
<1>1. TypeInv /\ p1.out = arr[p1.idx]
  BY DEF FlowInv, LineInv
<1>2. /\ p1.idx \in Sets /\ ~arr'[p1.idx].valid
      /\ \A i \in Sets : i # p1.idx => arr'[i] = arr[i]
  BY <1>1, Invalidates
<1> QED  BY <1>1, <1>2 DEF ArrVal, LineInv

\* Port 1 writes the word of s, t, w.
Writes(s, t, w) == t_wr_array /\ Set(p1.req) = s /\ Tag(p1.req) = t /\ Word(p1.req) = w

\* Over one clock the only word that changes is the one port 1 writes.
LEMMA Shows ==
    ASSUME FlowInv, LineInv, MemInv, Cache, NEW s \in Sets, NEW t \in Tags, NEW w \in Words
    PROVE  ArrVal(s, t)'[w] = IF Writes(s, t, w) THEN p1.req.k ELSE ArrVal(s, t)[w]
<1>1. TypeInv /\ PortInv
  BY DEF FlowInv
<1>2. ~Active => ~t_wr_array
  BY DEF t_wr_array, Hit1
<1>3. SUFFICES ASSUME ~t_wr_array
               PROVE  ArrVal(s, t)' = ArrVal(s, t)
  <2>1. CASE t_wr_array
    <3>1. DoActive /\ mem' = mem
      BY <1>2, <2>1 DEF Cache, DoActive, DoInjectReload, DoHandleReload, DoFlushCl, DoFlushClWait,
                        DoFlushCache, DoFlushCacheWait, Active
    <3>2. /\ p1.got /\ p1.idx \in Sets
          /\ arr'[p1.idx].valid = arr[p1.idx].valid
          /\ arr'[p1.idx].tag = arr[p1.idx].tag /\ arr'[p1.idx].data = t_array_data
          /\ \A i \in Sets : i # p1.idx => arr'[i] = arr[i]
      BY <1>1, <2>1, <3>1, ActiveWrites
    <3>3. /\ t_array_data[Word(p1.req)] = p1.req.k
          /\ \A x \in Words : x # Word(p1.req) => t_array_data[x] = p1.out.data[x]
      BY <1>1, <3>2, ArrayDataType
    <3>4. p1.out = arr[p1.idx] /\ p1.idx = Set(p1.req) /\ arr[p1.idx].valid /\ arr[p1.idx].tag = Tag(p1.req)
      BY <1>1, <2>1, <3>2 DEF LineInv, PortInv, t_wr_array, Hit1
    <3>5. CASE s = Set(p1.req) /\ t = Tag(p1.req)
      <4>1. ArrVal(s, t)' = t_array_data /\ ArrVal(s, t) = p1.out.data
        BY <3>2, <3>4, <3>5 DEF ArrVal
      <4> QED  BY <2>1, <3>3, <3>5, <4>1 DEF Writes
    <3>6. CASE s # Set(p1.req)
      BY <3>1, <3>2, <3>4, <3>6 DEF ArrVal, Writes
    <3>7. CASE s = Set(p1.req) /\ t # Tag(p1.req)
      BY <3>1, <3>2, <3>4, <3>7 DEF ArrVal, Writes
    <3> QED  BY <3>5, <3>6, <3>7
  <2>2. CASE ~t_wr_array
    BY <1>3, <2>2 DEF Writes
  <2> QED  BY <2>1, <2>2
<1>4. arr' = arr /\ mem' = mem => ArrVal(s, t)' = ArrVal(s, t)
  BY DEF ArrVal
<1>5. CASE DoActive
  BY <1>1, <1>3, <1>4, <1>5, ActiveWrites DEF DoActive
<1>6. CASE DoInjectReload
  BY <1>4, <1>6, ReplyShows DEF DoInjectReload, MemWaits, Owing
<1>7. CASE DoHandleReload
  BY <1>4, <1>7 DEF DoHandleReload
<1>8. CASE DoFlushCl
  BY <1>4, <1>8, InvalidShows DEF DoFlushCl
<1>9. CASE DoFlushClWait
  BY <1>4, <1>9, ReplyShows DEF DoFlushClWait, MemWaits, Owing
<1>10. CASE DoFlushCache
  BY <1>4, <1>10, InvalidShows DEF DoFlushCache
<1>11. CASE DoFlushCacheWait
  BY <1>4, <1>11, ReplyShows DEF DoFlushCacheWait, MemWaits, Owing
<1> QED  BY <1>5, <1>6, <1>7, <1>8, <1>9, <1>10, <1>11 DEF Cache

-----------------------------------------------------------------------------
(* The stores on their way.                                                *)

\* Port 1 keeps its request until it hits.
LEMMA P1Kept ==
    ASSUME FlowInv, LineInv, MemInv, Cache, Busy1, ~Hit1
    PROVE  Busy1' /\ p1'.req = p1.req
<1>1. TypeInv /\ PortType /\ ArrayType /\ CoreType /\ PortInv
  BY DEF FlowInv, TypeInv
<1>2. p1.req \in LiveReqs /\ p1.req \in Reqs /\ NoLine \in Lines /\ 0 \in Sets
  BY <1>1, Consts DEF PortType, Ports
<1>3. CASE p1.got
  <2>1. t_got_miss /\ DoActive
    BY <1>1, <1>3 DEF t_got_miss, PortInv, Active, Cache, DoInjectReload, DoHandleReload, DoFlushCl, DoFlushClWait,
                      DoFlushCache, DoFlushCacheWait
  <2>2. ~StartFlush /\ ~StartFlushCl /\ ~Pops
    BY <2>1, FlushStarts, PopsFacts
  <2>3. state' = "INJECT_RELOAD" /\ p1' = IdlePort(p1.req, 0, NoLine)
    BY <2>1, <2>2, ActiveStep
  <2> QED  BY <1>2, <2>3, IdlePortType DEF Busy1
<1>4. CASE state = "INJECT_RELOAD"
  <2>1. DoInjectReload /\ reload_issue
    BY <1>4 DEF Cache, DoActive, Active, DoInjectReload, DoHandleReload, DoFlushCl, DoFlushClWait,
                DoFlushCache, DoFlushCacheWait, MemInv
  <2> QED  BY <1>4, <2>1 DEF DoInjectReload, Busy1
<1>5. CASE state = "HANDLE_RELOAD"
  <2>1. DoHandleReload
    BY <1>5 DEF Cache, DoActive, Active, DoInjectReload, DoHandleReload, DoFlushCl, DoFlushClWait,
                DoFlushCache, DoFlushCacheWait
  <2>2. TRUE \in BOOLEAN /\ p1' = Port(p1.req, TRUE)
    BY <2>1 DEF DoHandleReload
  <2> QED  BY <1>1, <1>2, <2>2, PortTypes DEF Busy1
<1> QED  BY <1>3, <1>4, <1>5 DEF Busy1

\* What port 1 has is older than everything behind it.
LEMMA PortOldest ==
    ASSUME FlowInv, Busy1
    PROVE  /\ p1.req \in LiveReqs /\ p1.req.k \in 1 .. Len(prog) /\ p1.req.k < pc
           /\ \A i \in 1 .. Len(mq) : p1.req.k < mq[i].k
           /\ p2.got => p1.req.k < p2.req.k
           /\ \A i \in 1 .. Len(q) : p1.req.k < q[i].k
<1>1. CoreType /\ PortType /\ OrderInv /\ MirrorInv
  BY DEF FlowInv, TypeInv
<1>2. p1.req \in LiveReqs /\ p1.req.k \in 1 .. Len(prog)
  BY <1>1 DEF PortType, LiveReqs
<1>3. /\ p1.req.k < pc
      /\ \A i \in 1 .. Len(mq) : p1.req.k < mq[i].k
      /\ p2.got => p1.req.k < p2.req.k
      /\ \A i \in NAcc + 1 .. Len(rob) : p1.req.k < rob[i].k
  BY <1>1 DEF OrderInv, Before
<1>4. ASSUME NEW i \in 1 .. Len(q)
      PROVE  p1.req.k < q[i].k
  <2>1. Len(q) \in Nat /\ Len(rob) \in Nat
    BY <1>1, Heads
  <2>2. NAcc + i \in NAcc + 1 .. Len(rob)
    BY <1>1, <2>1 DEF MirrorInv, NAcc
  <2>3. rob[NAcc + i].k = q[i].k
    BY <1>1 DEF MirrorInv, Owns
  <2> QED  BY <1>3, <2>2, <2>3
<1> QED  BY <1>2, <1>3, <1>4

\* Where exec's queue comes from.
QFrom(is) ==
    /\ Len(q') \in Nat /\ Len(q) \in Nat
    /\ \A i \in 1 .. Len(q') : (\E j \in 1 .. Len(q) : q'[i] = q[j]) \/ (Sends(is) /\ q'[i] = NewReq)
    /\ \A j \in 1 .. Len(q) : ~(j = 1 /\ core_mem_req_ack) => \E i \in 1 .. Len(q') : q'[i] = q[j]
    /\ Sends(is) => \E i \in 1 .. Len(q') : q'[i] = NewReq
\* exec's queue keeps what was not accepted and gains what is sent.
LEMMA QComesFrom ==
    ASSUME FlowInv, NEW n, NEW is, NEW sq, NEW rs, Clock(n, is, sq, rs)
    PROVE  QFrom(is)
<1>1. CoreType /\ QStep(Sends(is))
  BY ClockFacts DEF FlowInv, TypeInv
<1>2. Len(q) \in Nat /\ Len(q') \in Nat /\ (core_mem_req_ack => Len(q) >= 1)
  BY <1>1, Heads DEF QStep, core_mem_req_ack
<1>3. PICK a \in 0 .. 1 : a = (IF core_mem_req_ack THEN 1 ELSE 0)
  OBVIOUS
<1>4. a <= Len(q) /\ Slid(q, a, Sends(is), NewReq, q')
  BY <1>1, <1>2, <1>3 DEF QStep
<1>5. /\ Len(q') = (Len(q) - a) + (IF Sends(is) THEN 1 ELSE 0)
      /\ \A i \in 1 .. (Len(q) - a) : q'[i] = q[i + a]
      /\ Sends(is) => q'[(Len(q) - a) + 1] = NewReq
  BY <1>4 DEF Slid
<1>6. ASSUME NEW i \in 1 .. Len(q')
      PROVE  (\E j \in 1 .. Len(q) : q'[i] = q[j]) \/ (Sends(is) /\ q'[i] = NewReq)
  <2>1. CASE i \in 1 .. (Len(q) - a)
    <3>1. i + a \in 1 .. Len(q) /\ q'[i] = q[i + a]
      BY <1>2, <1>5, <2>1
    <3> QED  BY <3>1
  <2>2. CASE i = (Len(q) - a) + 1 /\ Sends(is)
    BY <1>5, <2>2
  <2> QED  BY <1>2, <1>5, <2>1, <2>2
<1>7. ASSUME NEW j \in 1 .. Len(q), ~(j = 1 /\ core_mem_req_ack)
      PROVE  \E i \in 1 .. Len(q') : q'[i] = q[j]
  <2>1. j - a \in 1 .. (Len(q) - a) /\ j - a \in 1 .. Len(q') /\ (j - a) + a = j
    BY <1>2, <1>3, <1>5, <1>7
  <2>2. q'[j - a] = q[j]
    BY <1>5, <2>1
  <2> QED  BY <2>1, <2>2
<1>8. ASSUME Sends(is)
      PROVE  \E i \in 1 .. Len(q') : q'[i] = NewReq
  <2>1. (Len(q) - a) + 1 \in 1 .. Len(q')
    BY <1>2, <1>4, <1>5, <1>8
  <2> QED  BY <1>5, <1>8, <2>1
<1>9. \A j \in 1 .. Len(q) : ~(j = 1 /\ core_mem_req_ack) => \E i \in 1 .. Len(q') : q'[i] = q[j]
  BY <1>7
<1>10. \A i \in 1 .. Len(q') : (\E j \in 1 .. Len(q) : q'[i] = q[j]) \/ (Sends(is) /\ q'[i] = NewReq)
  BY <1>6
<1> QED  BY <1>2, <1>8, <1>9, <1>10 DEF QFrom

\* Nothing becomes pending but what is sent, and what is written is no longer.
LEMMA PendFrom ==
    ASSUME FlowInv, NEW n, NEW is, NEW sq, NEW rs, Clock(n, is, sq, rs), NEW k, Pend(k)'
    PROVE  /\ Pend(k) \/ (Sends(is) /\ k = pc)
           /\ ~(t_wr_array /\ k = p1.req.k)
<1>1. CoreType /\ PortType /\ P1Step /\ Registers
  BY ClockFacts DEF FlowInv, TypeInv
<1>2. t_wr_array => Busy1 /\ Hit1 /\ p1.got
  BY DEF t_wr_array, Hit1, Busy1
<1>3. /\ Busy1 => p1.req.k \in Nat /\ p1.req.k < pc /\ pc \in Nat
      /\ Busy1 => \A i \in 1 .. Len(mq) : p1.req.k < mq[i].k /\ mq[i].k \in Nat
      /\ Busy1 /\ p2.got => p1.req.k < p2.req.k /\ p2.req.k \in Nat
      /\ Busy1 => \A i \in 1 .. Len(q) : p1.req.k < q[i].k /\ q[i].k \in Nat
  <2>1. \A r \in LiveReqs : r.k \in Nat
    BY <1>1, ProgFacts DEF LiveReqs
  <2>2. /\ \A i \in 1 .. Len(mq) : mq[i] \in LiveReqs
        /\ \A i \in 1 .. Len(q) : q[i] \in LiveReqs
        /\ p2.got => p2.req \in LiveReqs
        /\ pc \in Nat
    BY <1>1, ProgFacts DEF CoreType, PortType
  <2> QED  BY <2>1, <2>2, PortOldest
<1>4. CASE \E i \in 1 .. Len(mq') : mq'[i].k = k
  <2>1. PICK i \in 1 .. Len(mq') : mq'[i].k = k
    BY <1>4
  <2>2. PICK a \in 0 .. 1 : MqFrom(a)
    BY MqComesFrom
  <2>3. CASE i + a \in 1 .. Len(mq) /\ mq'[i] = mq[i + a]
    <3>1. PICK j \in 1 .. Len(mq) : mq[j].k = k
      BY <2>1, <2>3
    <3> QED  BY <1>2, <1>3, <3>1 DEF Pend
  <2>4. CASE p2.got /\ mq'[i] = p2.req
    BY <1>2, <1>3, <2>1, <2>4 DEF Pend
  <2> QED  BY <2>2, <2>3, <2>4 DEF MqFrom
<1>5. CASE Busy1' /\ p1'.req.k = k
  <2>1. CASE Pops /\ p1'.req = mq[1] /\ mq # <<>>
    <3>1. 1 \in 1 .. Len(mq) /\ mq[1].k = k
      BY <1>1, <1>5, <2>1, Heads
    <3> QED  BY <1>2, <1>3, <3>1 DEF Pend
  <2>2. CASE Busy1 /\ ~Hit1 /\ p1'.req = p1.req
    BY <1>2, <1>5, <2>2 DEF Pend
  <2> QED  BY <1>1, <1>5, <2>1, <2>2, P1Next
<1>6. CASE p2'.got /\ p2'.req.k = k
  <2>1. 1 \in 1 .. Len(q) /\ q[1].k = k
    BY <1>1, <1>6, P2Next, Heads
  <2> QED  BY <1>2, <1>3, <2>1 DEF Pend
<1>7. CASE \E i \in 1 .. Len(q') : q'[i].k = k
  <2>1. PICK i \in 1 .. Len(q') : q'[i].k = k
    BY <1>7
  <2>2. CASE \E j \in 1 .. Len(q) : q'[i] = q[j]
    <3>1. PICK j \in 1 .. Len(q) : q[j].k = k
      BY <2>1, <2>2
    <3> QED  BY <1>2, <1>3, <3>1 DEF Pend
  <2>3. CASE Sends(is) /\ q'[i] = NewReq
    <3>1. k = pc
      BY <2>1, <2>3 DEF NewReq
    <3> QED  BY <1>2, <1>3, <2>3, <3>1
  <2> QED  BY <2>2, <2>3, QComesFrom DEF QFrom
<1> QED  BY <1>4, <1>5, <1>6, <1>7 DEF Pend

\* A pending store has retired, or is in the buffer.
LEMMA PendOld ==
    ASSUME FlowInv, NEW k, Pend(k), prog[k].op = "store"
    PROVE  k \in 1 .. Len(prog) /\ (GoneK(k) \/ \E i \in 1 .. Len(rob) : rob[i].k = k)
<1>1. CoreType /\ PortType /\ StoreInv /\ OwnInv /\ MirrorInv
  BY DEF FlowInv, TypeInv
<1>2. Len(q) \in Nat /\ Len(rob) \in Nat /\ NAcc \in Nat /\ NAcc <= Len(rob)
  BY <1>1, Heads DEF MirrorInv, NAcc
<1>3. \A r \in LiveReqs : r.k \in 1 .. Len(prog)
  BY DEF LiveReqs
<1>4. ASSUME NEW r, r.k = k, Gone(r) PROVE GoneK(k)
  BY <1>4 DEF Gone, GoneK
<1>5. ASSUME NEW r, r.k = k, NEW j \in 1 .. NAcc, Owns(j, r)
      PROVE  \E i \in 1 .. Len(rob) : rob[i].k = k
  <2>1. j \in 1 .. Len(rob) /\ rob[j].k = k
    BY <1>2, <1>5 DEF Owns
  <2> QED  BY <2>1
<1>6. CASE \E i \in 1 .. Len(mq) : mq[i].k = k
  <2>1. PICK i \in 1 .. Len(mq) : mq[i].k = k
    BY <1>6
  <2>2. mq[i] \in LiveReqs /\ IsStore(mq[i]) /\ graduated[mq[i].slot] \in 0 .. 2
    <3>1. mq[i] \in LiveReqs
      BY <1>1 DEF CoreType
    <3>2. graduated[mq[i].slot] \in 0 .. 2
      BY <3>1 DEF FlowInv, TypeInv, ArrayType, LiveReqs
    <3> QED  BY <2>1, <3>1, <3>2 DEF IsStore
  <2>3. Gone(mq[i]) \/ InRob(mq[i])
    BY <1>1, <2>2 DEF StoreInv
  <2> QED  BY <1>3, <1>4, <1>5, <2>1, <2>2, <2>3 DEF InRob
<1>7. CASE Busy1 /\ p1.req.k = k
  <2>1. p1.req \in LiveReqs /\ IsStore(p1.req)
    BY <1>1, <1>7 DEF PortType, IsStore
  <2>2. Gone(p1.req)
    BY <1>1, <1>7, <2>1 DEF StoreInv
  <2> QED  BY <1>3, <1>4, <1>7, <2>1, <2>2
<1>8. CASE p2.got /\ p2.req.k = k
  <2>1. p2.req \in LiveReqs /\ Owned(p2.req)
    BY <1>1, <1>8 DEF PortType, OwnInv
  <2> QED  BY <1>3, <1>5, <1>8, <2>1 DEF Owned
<1>9. CASE \E i \in 1 .. Len(q) : q[i].k = k
  <2>1. PICK i \in 1 .. Len(q) : q[i].k = k
    BY <1>9
  <2>2. q[i] \in LiveReqs /\ rob[NAcc + i].k = k
    BY <1>1, <2>1 DEF CoreType, MirrorInv, Owns
  <2>3. NAcc + i \in 1 .. Len(rob)
    BY <1>2 DEF NAcc
  <2> QED  BY <1>3, <2>1, <2>2, <2>3
<1> QED  BY <1>6, <1>7, <1>8, <1>9 DEF Pend

\* A pending store stays pending until it is written, unless it is dropped
\* after a squash.
LEMMA StorePends ==
    ASSUME FlowInv, LineInv, MemInv, NEW n, NEW is, NEW sq, NEW rs, Clock(n, is, sq, rs),
           NEW k, Pend(k), prog[k].op = "store", ~(t_wr_array /\ k = p1.req.k), ~drain \/ GoneK(k)
    PROVE  Pend(k)'
<1>1. /\ CoreType /\ PortType /\ ArrayType /\ StoreInv /\ OwnInv /\ MirrorInv /\ PortInv /\ RingInv /\ PortTwoClear
      /\ MqStep /\ P1Step /\ Registers /\ Cache
  BY ClockFacts DEF FlowInv, TypeInv, Inv
<1>2. Len(q) \in Nat /\ Len(rob) \in Nat /\ NAcc \in Nat /\ NAcc <= Len(rob) /\ Len(mq) \in Nat /\ Len(mq') \in Nat
  BY <1>1, Heads DEF MirrorInv, NAcc, MqStep
<1>3. PICK a \in 0 .. 1 : a = (IF t_pop_mq THEN 1 ELSE 0)
  OBVIOUS
<1>4. /\ Len(mq') = (Len(mq) - a) + (IF t_push_miss THEN 1 ELSE 0)
      /\ \A i \in 1 .. (Len(mq) - a) : mq'[i] = mq[i + a]
      /\ t_push_miss => mq'[(Len(mq) - a) + 1] = p2.req
      /\ a <= Len(mq)
  <2>1. Slid(mq, a, t_push_miss, p2.req, mq')
    BY <1>1, <1>3 DEF MqStep
  <2>2. t_pop_mq => Len(mq) >= 1
    BY <1>1, Heads DEF t_pop_mq, t_got_rd_retry, FiresStore, t_force_clear_busy, Served
  <2> QED  BY <1>2, <1>3, <2>1, <2>2 DEF Slid
<1>5. ASSUME NEW r, r.k = k, NEW j \in 1 .. NAcc, Owns(j, r)
      PROVE  ~drain
  <2>1. j \in 1 .. Len(rob) /\ rob[j].k = k /\ rob[j].k \in Nat
    <3>1. j \in 1 .. Len(rob) /\ rob[j].k = k
      BY <1>2, <1>5 DEF Owns
    <3>2. rob[j] \in Entries
      BY <1>1, <3>1 DEF CoreType
    <3> QED  BY <3>1, <3>2 DEF Entries
  <2> QED  BY <2>1 DEF GoneK
<1>6. CASE \E i \in 1 .. Len(mq) : mq[i].k = k
  <2>1. PICK i \in 1 .. Len(mq) : mq[i].k = k
    BY <1>6
  <2>2. mq[i] \in LiveReqs /\ IsStore(mq[i]) /\ graduated[mq[i].slot] \in 0 .. 2
    <3>1. mq[i] \in LiveReqs
      BY <1>1 DEF CoreType
    <3>2. graduated[mq[i].slot] \in 0 .. 2
      BY <1>1, <3>1 DEF ArrayType, LiveReqs
    <3> QED  BY <2>1, <3>1, <3>2 DEF IsStore
  <2>3. CASE ~(i = 1 /\ t_pop_mq)
    <3>1. i - a \in 1 .. (Len(mq) - a) /\ i - a \in 1 .. Len(mq') /\ (i - a) + a = i
      <4>1. Len(mq') >= Len(mq) - a
        BY <1>2, <1>4
      <4>2. i - a >= 1 /\ i <= Len(mq) /\ i \in Nat
        BY <1>2, <1>3, <2>3
      <4> QED  BY <1>2, <4>1, <4>2
    <3>2. mq'[i - a].k = k
      BY <1>4, <2>1, <3>1
    <3> QED  BY <3>1, <3>2 DEF Pend
  <2>4. CASE i = 1 /\ t_pop_mq
    <3>1. t_mem_head = mq[1] /\ IsStore(t_mem_head) /\ t_mem_head.k = k
      BY <1>1, <2>1, <2>2, <2>4, Heads DEF t_pop_mq, t_got_rd_retry, FiresStore, t_force_clear_busy, Served
    <3>2. CASE FiresStore
      <4>1. p1' = Port(t_mem_head, FALSE)
        BY <1>1, <3>2 DEF P1Step, Pops
      <4>2. FALSE \in BOOLEAN /\ TypeInv /\ mq[1] \in LiveReqs
        BY <2>2, <2>4 DEF FlowInv
      <4>3. p1'.got /\ p1'.req = mq[1]
        BY <3>1, <4>1, <4>2, PortTypes
      <4> QED  BY <3>1, <4>3 DEF Pend, Busy1
    <3>3. CASE t_force_clear_busy
      <4>1. drain /\ graduated[t_mem_head.slot] # 2
        BY <3>3 DEF t_force_clear_busy
      <4>2. graduated[mq[i].slot] = 1 /\ retired = {}
        BY <1>1, <2>2, <2>4, <3>1, <4>1 DEF StoreInv, RingInv
      <4>3. InRob(mq[i])
        BY <1>1, <2>2, <4>2 DEF StoreInv
      <4> QED  BY <1>5, <2>1, <4>1, <4>3 DEF InRob
    <3> QED  BY <2>4, <3>1, <3>2, <3>3 DEF t_pop_mq, t_got_rd_retry
  <2> QED  BY <2>3, <2>4
<1>7. CASE Busy1 /\ p1.req.k = k
  <2>1. IsStore(p1.req)
    BY <1>7 DEF IsStore
  <2>2. ~Hit1
    BY <1>1, <1>7, <2>1 DEF t_wr_array, Hit1, PortInv
  <2>3. Busy1' /\ p1'.req = p1.req
    BY <1>1, <1>7, <2>2, P1Kept
  <2> QED  BY <1>7, <2>3 DEF Pend
<1>8. CASE p2.got /\ p2.req.k = k
  <2>1. Owned(p2.req) /\ IsStore(p2.req) /\ Active
    BY <1>1, <1>8 DEF OwnInv, IsStore, PortTwoClear, Active
  <2>2. ~drain
    BY <1>5, <1>8, <2>1 DEF Owned
  <2>3. t_push_miss
    BY <1>8, <2>1, <2>2 DEF t_push_miss, t_incr_busy
  <2>4. (Len(mq) - a) + 1 \in 1 .. Len(mq') /\ mq'[(Len(mq) - a) + 1].k = k
    BY <1>2, <1>4, <1>8, <2>3
  <2> QED  BY <2>4 DEF Pend
<1>9. CASE \E i \in 1 .. Len(q) : q[i].k = k
  <2>1. PICK i \in 1 .. Len(q) : q[i].k = k
    BY <1>9
  <2>2. CASE i = 1 /\ core_mem_req_ack
    <3>1. p2'.got /\ p2'.req = q[1]
      BY <1>1, <2>2, P2Next
    <3> QED  BY <2>1, <2>2, <3>1 DEF Pend
  <2>3. CASE ~(i = 1 /\ core_mem_req_ack)
    <3>1. \E j \in 1 .. Len(q') : q'[j] = q[i]
      BY <2>3, QComesFrom DEF QFrom
    <3>2. \E j \in 1 .. Len(q') : q'[j].k = k
      BY <2>1, <3>1
    <3> QED  BY <3>2 DEF Pend
  <2> QED  BY <2>2, <2>3
<1> QED  BY <1>6, <1>7, <1>8, <1>9 DEF Pend

\* No store in the buffer gets lost between exec and the arrays.
LEMMA PendKept ==
    ASSUME FlowInv, LineInv, MemInv, PendInv, NEW n, NEW is, NEW sq, NEW rs, Clock(n, is, sq, rs)
    PROVE  PendInv'
<1>1. /\ CoreType /\ PortType /\ StoreInv /\ RingInv /\ prog' = prog /\ CoreStep(n, is, sq, rs)
  BY ClockFacts DEF FlowInv, TypeInv
<1>2. drain' = ds_done /\ (rs => ds_done)
  BY <1>1 DEF CoreStep
<1>3. SUFFICES ASSUME ~drain', NEW j \in 1 .. Len(rob'), prog[rob'[j].k].op = "store"
               PROVE  Pend(rob[j].k)'
  BY <1>1 DEF PendInv, IsStore
<1>4. ~rs /\ ~ds_done
  BY <1>2, <1>3
<1>5. CASE j \in 1 .. (Len(rob) - n)
  <2>1. EntryOf(n, j)
    BY <1>4, <1>5, EntriesMove
  <2>2. PICK i \in 1 .. Len(rob) : i = j + n /\ rob'[j].k = rob[i].k /\ rob[i] \in Entries
    BY <2>1 DEF EntryOf
  <2>3. ~drain
    BY <1>1, <1>4, Heads DEF RingInv
  <2>4. Pend(rob[i].k)
    BY <1>3, <2>2, <2>3 DEF PendInv, IsStore
  <2>5. ~(t_wr_array /\ rob[i].k = p1.req.k)
    <3>1. SUFFICES ASSUME t_wr_array PROVE rob[i].k # p1.req.k
      OBVIOUS
    <3>2. Gone(p1.req) /\ p1.req.k \in Nat /\ rob[i].k \in Nat
      <4>1. Busy1 /\ IsStore(p1.req)
        BY <3>1 DEF t_wr_array, Busy1, Hit1
      <4>2. p1.req \in LiveReqs
        BY <1>1, <4>1 DEF PortType
      <4> QED  BY <1>1, <2>2, <4>1, <4>2 DEF StoreInv, LiveReqs, Entries
    <3> QED  BY <3>2 DEF Gone
  <2>6. PICK k : k = rob[i].k
    OBVIOUS
  <2>7. Pend(k)'
    BY <1>3, <2>2, <2>3, <2>4, <2>5, <2>6, StorePends
  <2>8. rob'[j].k = k
    BY <2>2, <2>6
  <2> QED  BY <2>7, <2>8 DEF Pend
<1>6. CASE j = (Len(rob) - n) + 1 /\ Sends(is)
  <2>1. rob'[j].k = pc
    BY <1>4, <1>6, EntriesMove
  <2>2. \E i \in 1 .. Len(q') : q'[i] = NewReq
    BY <1>6, QComesFrom DEF QFrom
  <2>3. NewReq.k = pc
    BY DEF NewReq
  <2>4. \E i \in 1 .. Len(q') : q'[i].k = rob'[j].k
    BY <2>1, <2>2, <2>3
  <2> QED  BY <2>4 DEF Pend
<1> QED  BY <1>4, <1>5, <1>6, EntriesMove

-----------------------------------------------------------------------------
(* What has retired.                                                       *)

\* The operation in port 1 is the oldest that is pending.
LEMMA PendYounger ==
    ASSUME FlowInv, Busy1, NEW k, Pend(k), k # p1.req.k
    PROVE  p1.req.k < k
<1>1. CASE \E i \in 1 .. Len(mq) : mq[i].k = k
  BY <1>1, PortOldest
<1>2. CASE p2.got /\ p2.req.k = k
  BY <1>2, PortOldest
<1>3. CASE \E i \in 1 .. Len(q) : q[i].k = k
  BY <1>3, PortOldest
<1> QED  BY <1>1, <1>2, <1>3 DEF Pend

\* What has left the buffer does not come back.
LEMMA GoneStays ==
    ASSUME FlowInv, NEW n, NEW is, NEW sq, NEW rs, Clock(n, is, sq, rs), NEW k \in Nat, GoneK(k)
    PROVE  GoneK(k)'
<1>1. PICK r : r = [k |-> k]
  OBVIOUS
<1>2. r.k = k
  BY <1>1
<1>3. Gone(r)
  BY <1>2 DEF Gone, GoneK
<1>4. Gone(r)'
  BY <1>2, <1>3, GoneKept
<1> QED  BY <1>2, <1>4 DEF Gone, GoneK

\* The last of the stores to a word that retire is what it holds.
LEMMA CommitMoves ==
    ASSUME FlowInv, NEW n, NEW is, NEW sq, NEW rs, Clock(n, is, sq, rs),
           NEW s \in Sets, NEW t \in Tags, NEW w \in Words
    PROVE  \/ /\ commit'[<<s, t>>][w] = commit[<<s, t>>][w]
              /\ \A i \in 1 .. n : ~StoreAt(rob[i].k, s, t, w)
           \/ \E m \in 1 .. n : /\ StoreAt(rob[m].k, s, t, w) /\ commit'[<<s, t>>][w] = rob[m].k
                                /\ \A i \in 1 .. n : StoreAt(rob[i].k, s, t, w) => i <= m
<1>1. n \in 0 .. 2 /\ CoreType /\ CoreStep(n, is, sq, rs) /\ RobStep(n, Sends(is), rs)
  BY ClockFacts DEF FlowInv, TypeInv
<1>2. n <= Len(rob) /\ Len(rob) \in Nat /\ commit \in [Sets \X Tags -> Datas]
  BY <1>1, Heads DEF RobStep, CoreType
<1>3. /\ n = 0 => commit' = commit
      /\ n = 1 => commit' = Commit(commit, rob[1])
      /\ n = 2 => commit' = Commit(Commit(commit, rob[1]), rob[2])
  <2>1. commit' = CASE n = 0 -> commit [] n = 1 -> Commit(commit, rob[1])
                    [] n = 2 -> Commit(Commit(commit, rob[1]), rob[2])
    BY <1>1 DEF CoreStep
  <2> QED  BY <2>1
<1>4. ASSUME NEW i \in 1 .. Len(rob), NEW c \in [Sets \X Tags -> Datas]
      PROVE  /\ Commit(c, rob[i]) \in [Sets \X Tags -> Datas]
             /\ Commit(c, rob[i])[<<s, t>>][w] = IF StoreAt(rob[i].k, s, t, w) THEN rob[i].k ELSE c[<<s, t>>][w]
  <2>a. rob[i] \in Entries
    BY <1>1 DEF CoreType
  <2>1. rob[i].k \in 1 .. Len(prog)
    BY <2>a DEF Entries
  <2>2. StoreAt(rob[i].k, s, t, w) <=> IsStore(rob[i]) /\ Set(rob[i]) = s /\ Tag(rob[i]) = t /\ Word(rob[i]) = w
    BY <2>1 DEF StoreAt, IsStore, Set, Tag, Word
  <2>3. /\ Commit(c, rob[i]) \in [Sets \X Tags -> Datas]
        /\ Commit(c, rob[i])[<<s, t>>][w] =
              IF IsStore(rob[i]) /\ Set(rob[i]) = s /\ Tag(rob[i]) = t /\ Word(rob[i]) = w THEN rob[i].k
              ELSE c[<<s, t>>][w]
    BY <1>1, <1>4, CommitType
  <2> QED  BY <2>2, <2>3
<1>5. CASE n = 0
  BY <1>3, <1>5
<1>6. CASE n = 1
  <2>1. 1 \in 1 .. Len(rob)
    BY <1>2, <1>6
  <2>2. commit'[<<s, t>>][w] = IF StoreAt(rob[1].k, s, t, w) THEN rob[1].k ELSE commit[<<s, t>>][w]
    <3>1. Commit(commit, rob[1])[<<s, t>>][w] = IF StoreAt(rob[1].k, s, t, w) THEN rob[1].k ELSE commit[<<s, t>>][w]
      BY <1>2, <1>4, <2>1
    <3> QED  BY <1>3, <1>6, <3>1
  <2>3. 1 .. n = {1}
    BY <1>6
  <2> QED  BY <2>2, <2>3
<1>7. CASE n = 2
  <2>1. 1 \in 1 .. Len(rob) /\ 2 \in 1 .. Len(rob)
    BY <1>2, <1>7
  <2>2. PICK c \in [Sets \X Tags -> Datas] : c = Commit(commit, rob[1])
    BY <1>2, <1>4, <2>1
  <2>3. commit'[<<s, t>>][w] = IF StoreAt(rob[2].k, s, t, w) THEN rob[2].k ELSE c[<<s, t>>][w]
    <3>1. Commit(c, rob[2])[<<s, t>>][w] = IF StoreAt(rob[2].k, s, t, w) THEN rob[2].k ELSE c[<<s, t>>][w]
      BY <1>4, <2>1
    <3>2. commit' = Commit(c, rob[2])
      BY <1>3, <1>7, <2>2
    <3> QED  BY <3>1, <3>2
  <2>4. c[<<s, t>>][w] = IF StoreAt(rob[1].k, s, t, w) THEN rob[1].k ELSE commit[<<s, t>>][w]
    BY <1>2, <1>4, <2>1, <2>2
  <2>5. 1 .. n = {1, 2}
    BY <1>7
  <2> QED  BY <2>3, <2>4, <2>5
<1> QED  BY <1>1, <1>5, <1>6, <1>7

\* What retires is pending and is not what port 1 writes.
LEMMA RetiringPends ==
    ASSUME FlowInv, LineInv, MemInv, PendInv, NEW n, NEW is, NEW sq, NEW rs, Clock(n, is, sq, rs),
           NEW m \in 1 .. n, prog[rob[m].k].op = "store", NEW k, k = rob[m].k
    PROVE  ~drain /\ Pend(k)' /\ m \in 1 .. Len(rob)
<1>1. /\ n \in 0 .. 2 /\ CoreType /\ PortType /\ StoreInv /\ RingInv /\ CoreStep(n, is, sq, rs) /\ RobStep(n, Sends(is), rs)
  BY ClockFacts DEF FlowInv, TypeInv
<1>2. m \in 1 .. Len(rob) /\ n > 0 /\ Len(rob) # 0
  BY <1>1, Heads DEF RobStep
<1>3. ~ds_done
  BY <1>1, <1>2 DEF CoreStep, Retirable
<1>4. ~drain
  BY <1>1, <1>2, <1>3, Heads DEF RingInv
<1>5. Pend(k)
  BY <1>2, <1>4 DEF PendInv, IsStore
<1>6. ~(t_wr_array /\ k = p1.req.k)
  <2>1. SUFFICES ASSUME t_wr_array PROVE k # p1.req.k
    OBVIOUS
  <2>2. Busy1 /\ IsStore(p1.req)
    BY <2>1 DEF t_wr_array, Busy1, Hit1
  <2>3. Gone(p1.req) /\ p1.req.k \in Nat /\ rob[m].k \in Nat
    <3>1. p1.req \in LiveReqs /\ rob[m] \in Entries
      BY <1>1, <1>2, <2>2 DEF PortType, CoreType
    <3> QED  BY <1>1, <2>2, <3>1 DEF StoreInv, LiveReqs, Entries
  <2> QED  BY <1>2, <2>3 DEF Gone
<1> QED  BY <1>2, <1>4, <1>5, <1>6, StorePends

\* Both are numbers of operations.
LEMMA ShownTypes ==
    ASSUME FlowInv, NEW s \in Sets, NEW t \in Tags, NEW w \in Words
    PROVE  ArrVal(s, t)[w] \in Int /\ commit[<<s, t>>][w] \in Int
<1>1. ArrayType /\ CoreType /\ Len(prog) \in Nat
  BY ProgFacts DEF FlowInv, TypeInv
<1>2. arr[s].data \in Datas /\ mem[<<s, t>>] \in Datas /\ commit[<<s, t>>] \in Datas
  BY <1>1 DEF ArrayType, CoreType, Lines
<1>3. ArrVal(s, t) \in Datas
  BY <1>2 DEF ArrVal
<1>4. \A v \in Values : v \in Int
  BY <1>1 DEF Values, Junk
<1> QED  BY <1>2, <1>3, <1>4 DEF Datas

\* A write of port 1 is by a pending store that has retired.
LEMMA WritePends ==
    ASSUME FlowInv, NEW s, NEW t, NEW w, Writes(s, t, w)
    PROVE  /\ Busy1 /\ p1.req.k \in 1 .. Len(prog) /\ Pend(p1.req.k) /\ StoreAt(p1.req.k, s, t, w)
           /\ GoneK(p1.req.k)
<1>1. PortType /\ StoreInv
  BY DEF FlowInv, TypeInv
<1>2. Busy1 /\ IsStore(p1.req) /\ Set(p1.req) = s /\ Tag(p1.req) = t /\ Word(p1.req) = w
  BY DEF Writes, t_wr_array, Hit1, Busy1
<1>3. p1.req.k \in 1 .. Len(prog)
  BY <1>1, <1>2 DEF PortType, LiveReqs
<1>4. Gone(p1.req)
  BY <1>1, <1>2 DEF StoreInv
<1> QED  BY <1>2, <1>3, <1>4 DEF Pend, StoreAt, GoneK, Gone, IsStore, Set, Tag, Word

\* Retiring a store and writing it to the arrays happen clocks apart, in either
\* order with other stores to the word; what has retired stays accounted for.
LEMMA CommitKept ==
    ASSUME FlowInv, LineInv, MemInv, PendInv, CommitInv, NEW n, NEW is, NEW sq, NEW rs, Clock(n, is, sq, rs)
    PROVE  CommitInv'
<1>1. SUFFICES ASSUME NEW s \in Sets, NEW t \in Tags, NEW w \in Words PROVE CommitOK(s, t, w)'
  BY DEF CommitInv
<1>2. /\ n \in 0 .. 2 /\ CoreType /\ OrderInv /\ StoreInv /\ PortType /\ Cache /\ prog' = prog
      /\ CoreStep(n, is, sq, rs) /\ RobStep(n, Sends(is), rs)
  BY ClockFacts DEF FlowInv, TypeInv
<1>3. /\ Len(rob) \in Nat /\ n <= Len(rob) /\ pc \in Nat /\ pc' \in Nat /\ Len(prog) \in Nat
      /\ \A i \in 1 .. Len(rob) : rob[i] \in Entries /\ rob[i].k \in Nat
  <2>1. \A i \in 1 .. Len(rob) : rob[i] \in Entries
    BY <1>2 DEF CoreType
  <2>2. \A i \in 1 .. Len(rob) : rob[i].k \in Nat
    BY <1>2, <2>1, ProgFacts DEF Entries
  <2> QED  BY <1>2, <2>1, <2>2, Heads, PcMoves, ProgFacts DEF RobStep
<1>4. PICK a \in Int, c \in Int : a = ArrVal(s, t)[w] /\ c = commit[<<s, t>>][w]
  BY ShownTypes
<1>5. /\ a <= c /\ c < pc
      /\ \A i \in 1 .. Len(rob) : c < rob[i].k
      /\ \A k \in 1 .. Len(prog) : Pend(k) /\ StoreAt(k, s, t, w) => a < k /\ (GoneK(k) => k <= c)
      /\ c = a \/ (Pend(c) /\ StoreAt(c, s, t, w) /\ GoneK(c))
  <2>1. CommitOK(s, t, w)
    BY DEF CommitInv
  <2> QED  BY <1>4, <2>1 DEF CommitOK
<1>6. PICK m \in 0 .. 2, d \in Int :
          /\ d = commit'[<<s, t>>][w]
          /\ m = 0 => d = c /\ \A i \in 1 .. n : ~StoreAt(rob[i].k, s, t, w)
          /\ m # 0 => /\ m \in 1 .. n /\ StoreAt(rob[m].k, s, t, w) /\ d = rob[m].k
                      /\ \A i \in 1 .. n : StoreAt(rob[i].k, s, t, w) => i <= m
  <2>1. CASE /\ commit'[<<s, t>>][w] = commit[<<s, t>>][w]
             /\ \A i \in 1 .. n : ~StoreAt(rob[i].k, s, t, w)
    <3>1. 0 \in 0 .. 2
      OBVIOUS
    <3> QED  BY <1>4, <2>1, <3>1
  <2>2. CASE \E m \in 1 .. n : /\ StoreAt(rob[m].k, s, t, w) /\ commit'[<<s, t>>][w] = rob[m].k
                               /\ \A i \in 1 .. n : StoreAt(rob[i].k, s, t, w) => i <= m
    <3>1. PICK m \in 1 .. n : /\ StoreAt(rob[m].k, s, t, w) /\ commit'[<<s, t>>][w] = rob[m].k
                              /\ \A i \in 1 .. n : StoreAt(rob[i].k, s, t, w) => i <= m
      BY <2>2
    <3>2. m \in 0 .. 2 /\ m # 0 /\ rob[m].k \in Int
      BY <1>2, <1>3
    <3> QED  BY <3>1, <3>2
  <2> QED  BY <2>1, <2>2, CommitMoves
<1>7. PICK b \in Int : b = ArrVal(s, t)'[w] /\ b = (IF Writes(s, t, w) THEN p1.req.k ELSE a)
  <2>1. ArrVal(s, t)'[w] = IF Writes(s, t, w) THEN p1.req.k ELSE a
    BY <1>2, <1>4, Shows
  <2>2. (IF Writes(s, t, w) THEN p1.req.k ELSE a) \in Int
    BY <1>3, WritePends
  <2> QED  BY <2>1, <2>2
<1>8. m # 0 => /\ ~drain /\ Pend(d)' /\ m \in 1 .. Len(rob)
  <2>1. SUFFICES ASSUME m # 0 PROVE ~drain /\ Pend(d)' /\ m \in 1 .. Len(rob)
    OBVIOUS
  <2>2. m \in 1 .. n /\ prog[rob[m].k].op = "store" /\ d = rob[m].k
    BY <1>6, <2>1 DEF StoreAt
  <2> QED  BY <2>2, RetiringPends
<1>9. Writes(s, t, w) => a < b /\ b <= c
  BY <1>5, <1>7, WritePends
<1>10. b <= c /\ c <= d
  <2>1. b <= c
    BY <1>5, <1>7, <1>9
  <2>2. c <= d
    BY <1>3, <1>5, <1>6, <1>8
  <2> QED  BY <2>1, <2>2
<1>11. b <= d /\ d < pc /\ \A i \in 1 .. Len(rob) : i > n => d < rob[i].k
  <2>1. b <= d
    BY <1>10
  <2>2. d < pc
    BY <1>2, <1>5, <1>6, <1>8 DEF OrderInv
  <2>3. ASSUME NEW i \in 1 .. Len(rob), i > n PROVE d < rob[i].k
    <3>1. CASE m = 0
      BY <1>5, <1>6, <3>1
    <3>2. CASE m # 0
      <4>1. m < i
        BY <1>2, <1>6, <2>3, <3>2
      <4> QED  BY <1>2, <1>6, <1>8, <3>2, <4>1 DEF OrderInv
    <3> QED  BY <3>1, <3>2
  <2> QED  BY <2>1, <2>2, <2>3
<1>12. /\ d < pc' /\ \A i \in 1 .. Len(rob') : d < rob'[i].k
  <2>1. CASE rs
    <3>1. n = 0 /\ rob' = <<>>
      BY <1>2, <2>1 DEF RobStep
    <3>2. rob # <<>> => 1 \in 1 .. Len(rob)
      BY <1>2, <1>3, Heads
    <3>3. d < pc'
      BY <1>3, <1>11, <3>1, <3>2, PcMoves
    <3> QED  BY <3>1, <3>3
  <2>2. CASE ~rs
    <3>1. d < pc'
      BY <1>3, <1>11, <2>2, PcMoves
    <3>2. ASSUME NEW i \in 1 .. Len(rob') PROVE d < rob'[i].k
      <4>1. CASE i \in 1 .. (Len(rob) - n)
        <5>1. i + n \in 1 .. Len(rob) /\ rob'[i].k = rob[i + n].k /\ i + n > n
          BY <1>2, <2>2, <4>1, EntriesMove DEF EntryOf
        <5> QED  BY <1>11, <5>1
      <4>2. CASE i = (Len(rob) - n) + 1 /\ Sends(is)
        BY <1>11, <2>2, <4>2, EntriesMove
      <4> QED  BY <2>2, <4>1, <4>2, EntriesMove
    <3> QED  BY <3>1, <3>2
  <2> QED  BY <2>1, <2>2
<1>13. ASSUME NEW k \in 1 .. Len(prog), Pend(k)', StoreAt(k, s, t, w)
       PROVE  b < k /\ (GoneK(k)' => k <= d)
  <2>1. (Pend(k) \/ (Sends(is) /\ k = pc)) /\ ~(t_wr_array /\ k = p1.req.k)
    BY <1>13, PendFrom
  <2>2. CASE Sends(is) /\ k = pc
    <3>1. ~rs
      BY <1>2, <2>2 DEF RobStep
    <3>2. \E i \in 1 .. Len(rob') : rob'[i].k = k
      BY <2>2, <3>1, EntriesMove
    <3>3. ~GoneK(k)'
      BY <1>3, <2>2, <3>2 DEF GoneK
    <3> QED  BY <1>3, <1>11, <2>2, <3>3
  <2>3. CASE Pend(k)
    <3>1. a < k /\ (GoneK(k) => k <= c)
      BY <1>5, <1>13, <2>3
    <3>2. b < k
      <4>1. CASE Writes(s, t, w)
        <5>1. Busy1 /\ t_wr_array
          BY <4>1, WritePends DEF Writes
        <5>2. p1.req.k < k
          BY <2>1, <2>3, <5>1, PendYounger
        <5> QED  BY <1>7, <4>1, <5>2
      <4>2. CASE ~Writes(s, t, w)
        BY <1>7, <3>1, <4>2
      <4> QED  BY <4>1, <4>2
    <3>3. ASSUME GoneK(k)' PROVE k <= d
      <4>1. CASE GoneK(k)
        BY <1>3, <1>10, <3>1, <4>1
      <4>2. CASE ~GoneK(k) /\ \E i \in 1 .. Len(rob) : rob[i].k = k
        <5>1. PICK i \in 1 .. Len(rob) : rob[i].k = k
          BY <4>2
        <5>2. ~rs
          <6>1. SUFFICES ASSUME rs PROVE FALSE
            OBVIOUS
          <6>2. mq = <<>> /\ q = <<>> /\ ~p2.got /\ (Busy1 => IsStore(p1.req))
            BY <6>1, Restart
          <6>3. Len(mq) = 0 /\ Len(q) = 0
            BY <1>2, <6>2, Heads
          <6>4. Busy1 /\ p1.req.k = k
            BY <2>3, <6>2, <6>3 DEF Pend
          <6>5. Gone(p1.req)
            BY <1>2, <6>2, <6>4 DEF StoreInv
          <6> QED  BY <4>2, <6>4, <6>5 DEF Gone, GoneK
        <5>3. i \in 1 .. n
          <6>1. SUFFICES ASSUME i > n PROVE FALSE
            BY <1>2, <1>3
          <6>2. i - n \in 1 .. (Len(rob) - n) /\ (i - n) + n = i
            BY <1>2, <1>3, <6>1
          <6>3. i - n \in 1 .. Len(rob') /\ rob'[i - n].k = k
            BY <5>1, <5>2, <6>2, EntriesMove DEF EntryOf
          <6>4. k < rob'[i - n].k
            BY <3>3, <6>3 DEF GoneK
          <6> QED  BY <1>3, <6>3, <6>4
        <5>4. m # 0 /\ i <= m
          BY <1>6, <1>13, <5>1, <5>3
        <5> QED  BY <1>2, <1>3, <1>6, <1>8, <5>1, <5>4 DEF OrderInv
      <4> QED  BY <1>13, <2>3, <4>1, <4>2, PendOld DEF StoreAt
    <3> QED  BY <3>2, <3>3
  <2> QED  BY <2>1, <2>2, <2>3
<1>14. d = b \/ (Pend(d)' /\ StoreAt(d, s, t, w))
  <2>1. CASE m # 0
    BY <1>6, <1>8, <2>1
  <2>2. CASE m = 0 /\ c = a
    BY <1>6, <1>7, <1>9, <2>2
  <2>3. CASE m = 0 /\ Pend(c) /\ StoreAt(c, s, t, w) /\ GoneK(c)
    <3>1. prog[c].op = "store" /\ d = c
      BY <1>6, <2>3 DEF StoreAt
    <3>2. CASE t_wr_array /\ c = p1.req.k
      <4>1. Writes(s, t, w)
        BY <2>3, <3>2 DEF Writes, StoreAt, Set, Tag, Word
      <4> QED  BY <1>7, <3>1, <3>2, <4>1
    <3>3. CASE ~(t_wr_array /\ c = p1.req.k)
      BY <2>3, <3>1, <3>3, StorePends
    <3> QED  BY <3>2, <3>3
  <2> QED  BY <1>5, <2>1, <2>2, <2>3
<1>15. GoneK(d)'
  BY <1>12 DEF GoneK
<1>16. \A k : StoreAt(k, s, t, w)' <=> StoreAt(k, s, t, w)
  BY <1>2 DEF StoreAt
<1>17. d = commit'[<<s, t>>][w] /\ b = ArrVal(s, t)'[w]
  BY <1>6, <1>7
<1> QED  BY <1>2, <1>11, <1>12, <1>13, <1>14, <1>15, <1>16, <1>17 DEF CommitOK

-----------------------------------------------------------------------------
(* What the loads have to return.                                          *)

\* A request is an earlier one or the one just sent.
LEMMA RequestsFrom ==
    ASSUME FlowInv, NEW n, NEW is, NEW sq, NEW rs, Clock(n, is, sq, rs), NEW r \in Requests'
    PROVE  r \in Requests \/ (Sends(is) /\ r = NewReq)
<1>1. CoreType /\ P1Step /\ Registers
  BY ClockFacts DEF FlowInv, TypeInv
<1>2. CASE \E i \in 1 .. Len(mq') : r = mq'[i]
  <2>1. PICK i \in 1 .. Len(mq') : r = mq'[i]
    BY <1>2
  <2>2. PICK a \in 0 .. 1 : MqFrom(a)
    BY MqComesFrom
  <2>3. (i + a \in 1 .. Len(mq) /\ r = mq[i + a]) \/ (p2.got /\ r = p2.req)
    BY <2>1, <2>2 DEF MqFrom
  <2> QED  BY <2>3 DEF Requests
<1>3. CASE \E i \in 1 .. Len(q') : r = q'[i]
  <2>1. (\E j \in 1 .. Len(q) : r = q[j]) \/ (Sends(is) /\ r = NewReq)
    BY <1>3, QComesFrom DEF QFrom
  <2> QED  BY <2>1 DEF Requests
<1>4. CASE Busy1' /\ r = p1'.req
  <2>1. (mq # <<>> /\ r = mq[1]) \/ (Busy1 /\ r = p1.req)
    BY <1>1, <1>4, P1Next
  <2>2. mq # <<>> => 1 \in 1 .. Len(mq)
    BY <1>1, Heads
  <2> QED  BY <2>1, <2>2 DEF Requests
<1>5. CASE p2'.got /\ r = p2'.req
  <2>1. 1 \in 1 .. Len(q) /\ r = q[1]
    BY <1>1, <1>5, P2Next, Heads
  <2> QED  BY <2>1 DEF Requests
<1> QED  BY <1>2, <1>3, <1>4, <1>5 DEF Requests

\* Requests are pending, and loads are in the buffer.
LEMMA RequestFacts ==
    ASSUME FlowInv, NEW r \in Requests
    PROVE  /\ r \in LiveReqs /\ r.k \in 1 .. Len(prog) /\ r.exp \in Int /\ Pend(r.k) /\ r.k < pc
           /\ IsLoad(r) => rob # <<>>
<1>1. CoreType /\ PortType /\ OrderInv /\ MirrorInv /\ OwnInv
  BY DEF FlowInv, TypeInv
<1>2. Len(q) \in Nat /\ Len(rob) \in Nat /\ NAcc \in Nat /\ NAcc <= Len(rob) /\ (rob = <<>> => Len(rob) = 0)
  BY <1>1, Heads DEF MirrorInv, NAcc
<1>3. ASSUME NEW x \in LiveReqs PROVE x.k \in 1 .. Len(prog) /\ x.exp \in Int
  <2>1. x.k \in 1 .. Len(prog) /\ x.exp \in Values
    BY DEF LiveReqs
  <2> QED  BY <1>1, <2>1, ProgFacts DEF Values, Junk
<1>4. Owned(r) => rob # <<>>
  BY <1>2 DEF Owned
<1>5. IsLoad(r) => ~IsStore(r)
  BY DEF IsLoad, IsStore
<1>6. CASE \E i \in 1 .. Len(mq) : r = mq[i]
  <2>1. PICK i \in 1 .. Len(mq) : r = mq[i]
    BY <1>6
  <2>2. r \in LiveReqs /\ Pend(r.k) /\ r.k < pc
    BY <1>1, <2>1 DEF CoreType, Pend, OrderInv, Before
  <2>3. IsLoad(r) => Owned(r)
    BY <1>1, <1>5, <2>1 DEF OwnInv
  <2> QED  BY <1>3, <1>4, <2>2, <2>3
<1>7. CASE \E i \in 1 .. Len(q) : r = q[i]
  <2>1. PICK i \in 1 .. Len(q) : r = q[i]
    BY <1>7
  <2>2. r \in LiveReqs /\ Pend(r.k)
    BY <1>1, <2>1 DEF CoreType, Pend
  <2>3. NAcc + i \in 1 .. Len(rob) /\ rob[NAcc + i].k = r.k
    BY <1>1, <1>2, <2>1 DEF MirrorInv, Owns, NAcc
  <2>4. r.k < pc /\ rob # <<>>
    BY <1>1, <1>2, <2>3 DEF OrderInv
  <2> QED  BY <1>3, <2>2, <2>4
<1>8. CASE Busy1 /\ r = p1.req
  <2>1. r \in LiveReqs /\ Pend(r.k) /\ r.k < pc
    BY <1>1, <1>8 DEF PortType, Pend, OrderInv, Before
  <2>2. IsLoad(r) => Owned(r)
    BY <1>1, <1>5, <1>8 DEF OwnInv
  <2> QED  BY <1>3, <1>4, <2>1, <2>2
<1>9. CASE p2.got /\ r = p2.req
  <2>1. r \in LiveReqs /\ Pend(r.k) /\ r.k < pc
    BY <1>1, <1>9 DEF PortType, Pend, OrderInv, Before
  <2>2. Owned(r)
    BY <1>1, <1>9 DEF OwnInv
  <2> QED  BY <1>3, <1>4, <2>1, <2>2
<1> QED  BY <1>6, <1>7, <1>8, <1>9 DEF Requests

\* What a load has to return does not change while it waits.
LEMMA LoadKept ==
    ASSUME FlowInv, LineInv, MemInv, CommitInv, NEW n, NEW is, NEW sq, NEW rs, Clock(n, is, sq, rs), ~drain,
           NEW k \in 1 .. Len(prog), k <= pc, NEW e \in Int, LoadOK(k, e), t_wr_array => p1.req.k < k
    PROVE  LoadOK(k, e)'
<1>1. CoreType /\ Cache /\ prog' = prog /\ Len(prog) \in Nat /\ pc \in Nat
  BY ClockFacts, ProgFacts, PcMoves DEF FlowInv, TypeInv
<1>2. PICK s \in Sets, t \in Tags, w \in Words : s = prog[k].set /\ t = prog[k].tag /\ w = prog[k].word
  BY <1>1, ProgFacts
<1>3. PICK a \in Int : a = ArrVal(s, t)[w]
  BY ShownTypes
<1>4. /\ a <= e
      /\ \A x \in 1 .. Len(prog) : Pend(x) /\ StoreAt(x, s, t, w) /\ x < k => x <= e
      /\ e = a \/ (Pend(e) /\ StoreAt(e, s, t, w) /\ e < k)
  BY <1>2, <1>3 DEF LoadOK
<1>5. \A x \in 1 .. Len(prog) : Pend(x) /\ StoreAt(x, s, t, w) => a < x
  <2>1. CommitOK(s, t, w)
    BY DEF CommitInv
  <2> QED  BY <1>3, <2>1 DEF CommitOK
<1>6. PICK b \in Int : b = ArrVal(s, t)'[w] /\ b = (IF Writes(s, t, w) THEN p1.req.k ELSE a)
  <2>1. ArrVal(s, t)'[w] = IF Writes(s, t, w) THEN p1.req.k ELSE a
    BY <1>1, <1>3, Shows
  <2>2. (IF Writes(s, t, w) THEN p1.req.k ELSE a) \in Int
    BY <1>1, WritePends
  <2> QED  BY <2>1, <2>2
<1>7. Writes(s, t, w) => a < b /\ b <= e
  <2>1. SUFFICES ASSUME Writes(s, t, w) PROVE a < p1.req.k /\ p1.req.k <= e
    BY <1>6
  <2>2. p1.req.k \in 1 .. Len(prog) /\ Pend(p1.req.k) /\ StoreAt(p1.req.k, s, t, w) /\ p1.req.k < k
    BY <2>1, WritePends DEF Writes
  <2> QED  BY <1>4, <1>5, <2>2
<1>8. b <= e
  BY <1>4, <1>6, <1>7
<1>9. ASSUME NEW x \in 1 .. Len(prog), Pend(x)', StoreAt(x, s, t, w), x < k
      PROVE  x <= e
  <2>1. Pend(x) \/ x = pc
    BY <1>9, PendFrom
  <2>2. x # pc
    BY <1>1, <1>9
  <2> QED  BY <1>4, <1>9, <2>1, <2>2
<1>10. e = b \/ (Pend(e)' /\ StoreAt(e, s, t, w) /\ e < k)
  <2>1. CASE e = a
    BY <1>6, <1>7, <2>1
  <2>2. CASE Pend(e) /\ StoreAt(e, s, t, w) /\ e < k
    <3>1. CASE t_wr_array /\ e = p1.req.k
      <4>1. Writes(s, t, w)
        BY <2>2, <3>1 DEF Writes, StoreAt, Set, Tag, Word
      <4> QED  BY <1>6, <3>1, <4>1
    <3>2. CASE ~(t_wr_array /\ e = p1.req.k)
      BY <2>2, <3>2, StorePends DEF StoreAt
    <3> QED  BY <2>2, <3>1, <3>2
  <2> QED  BY <1>4, <2>1, <2>2
<1>11. \A x : StoreAt(x, s, t, w)' <=> StoreAt(x, s, t, w)
  BY <1>1 DEF StoreAt
<1>12. (prog[k])' = prog[k] /\ (Len(prog))' = Len(prog)
  BY <1>1
<1> QED  BY <1>2, <1>6, <1>8, <1>9, <1>10, <1>11, <1>12 DEF LoadOK

\* A load that is sent has to return the youngest older store.
LEMMA NewLoad ==
    ASSUME FlowInv, PendInv, CommitInv, ~drain, pc \in 1 .. Len(prog)
    PROVE  LoadOK(pc, Current) /\ Current \in Int
<1>1. CoreType /\ OrderInv /\ Len(prog) \in Nat /\ Len(rob) \in Nat
  BY ProgFacts, Heads DEF FlowInv, TypeInv
<1>2. PICK s \in Sets, t \in Tags, w \in Words : s = prog[pc].set /\ t = prog[pc].tag /\ w = prog[pc].word
  BY <1>1, ProgFacts
<1>3. PICK a \in Int, c \in Int : a = ArrVal(s, t)[w] /\ c = commit[<<s, t>>][w]
  BY ShownTypes
<1>4. /\ a <= c /\ c < pc
      /\ \A i \in 1 .. Len(rob) : c < rob[i].k
      /\ \A k \in 1 .. Len(prog) : Pend(k) /\ StoreAt(k, s, t, w) => a < k /\ (GoneK(k) => k <= c)
      /\ c = a \/ (Pend(c) /\ StoreAt(c, s, t, w) /\ GoneK(c))
  <2>1. CommitOK(s, t, w)
    BY DEF CommitInv
  <2> QED  BY <1>3, <2>1 DEF CommitOK
<1>5. \A i \in 1 .. Len(rob) : rob[i].k \in 1 .. Len(prog) /\ rob[i].k < pc
  <2>1. \A i \in 1 .. Len(rob) : rob[i] \in Entries
    BY <1>1 DEF CoreType
  <2> QED  BY <1>1, <2>1 DEF Entries, OrderInv
<1>6. \A i : i \in SameWord <=> i \in 1 .. Len(rob) /\ StoreAt(rob[i].k, s, t, w)
  <2>1. DOMAIN rob = 1 .. Len(rob)
    BY <1>1 DEF CoreType
  <2> QED  BY <1>2, <1>5, <2>1 DEF SameWord, StoreAt, IsStore, Set, Tag, Word
<1>7. ASSUME NEW x \in 1 .. Len(prog), Pend(x), StoreAt(x, s, t, w)
      PROVE  x <= c \/ \E i \in SameWord : rob[i].k = x
  <2>1. GoneK(x) \/ \E i \in 1 .. Len(rob) : rob[i].k = x
    BY <1>7, PendOld DEF StoreAt
  <2> QED  BY <1>4, <1>6, <1>7, <2>1
<1>8. PICK e \in Int : /\ e = Current /\ a <= e
                       /\ \A x \in 1 .. Len(prog) : Pend(x) /\ StoreAt(x, s, t, w) => x <= e
                       /\ e = a \/ (Pend(e) /\ StoreAt(e, s, t, w) /\ e < pc)
  <2>1. CASE SameWord = {}
    <3>1. Current = c
      BY <1>1, <1>2, <1>3, <2>1, CurrentIs
    <3> QED  BY <1>4, <1>7, <2>1, <3>1
  <2>2. CASE SameWord # {}
    <3>1. PICK i \in SameWord : Current = rob[i].k /\ \A j \in SameWord : j <= i
      BY <1>1, <2>2, CurrentIs
    <3>2. i \in 1 .. Len(rob) /\ StoreAt(rob[i].k, s, t, w)
      BY <1>6, <3>1
    <3>3. PICK e \in Int : e = rob[i].k /\ e < pc /\ c < e
      BY <1>1, <1>4, <1>5, <3>2
    <3>4. Pend(e)
      BY <3>2, <3>3 DEF PendInv, IsStore, StoreAt
    <3>5. ASSUME NEW j \in SameWord PROVE rob[j].k <= e
      <4>1. j \in 1 .. Len(rob) /\ j <= i
        BY <1>6, <3>1
      <4>2. rob[j].k \in Int /\ (j < i => rob[j].k < rob[i].k)
        BY <1>1, <1>5, <3>2, <4>1 DEF OrderInv
      <4> QED  BY <1>1, <3>2, <3>3, <4>1, <4>2
    <3>6. ASSUME NEW x \in 1 .. Len(prog), Pend(x), StoreAt(x, s, t, w) PROVE x <= e
      BY <1>1, <1>7, <3>3, <3>5, <3>6
    <3>7. a <= e
      BY <1>4, <3>3
    <3> QED  BY <3>1, <3>2, <3>3, <3>4, <3>6, <3>7
  <2> QED  BY <2>1, <2>2
<1>9. LoadOK(pc, e)
  BY <1>2, <1>3, <1>8 DEF LoadOK
<1> QED  BY <1>8, <1>9

\* What port 2 reads when it accepts a load.
LEMMA Port2Reads ==
    ASSUME FlowInv, LineInv, CommitInv, core_mem_req_ack, IsLoad(q[1]), LoadOK(q[1].k, q[1].exp),
           Port2(q[1]).out.valid, Port2(q[1]).out.tag = Tag(q[1]), ~Port2(q[1]).busy
    PROVE  Port2(q[1]).out.data[Word(q[1])] = q[1].exp
<1>1. /\ TypeInv /\ CoreType /\ PortType /\ PortInv /\ MirrorInv /\ OrderInv /\ StoreInv
  BY DEF FlowInv, TypeInv
<1>2. q # <<>> /\ Active
  BY DEF core_mem_req_ack
<1>3. core_mem_req = q[1] /\ q[1] \in LiveReqs /\ Len(q) \in Nat /\ 1 \in 1 .. Len(q) /\ Len(prog) \in Nat
  BY <1>1, <1>2, Heads, ProgFacts
<1>4. PICK r : r = q[1]
  OBVIOUS
<1>5. PICK s \in Sets, t \in Tags, w \in Words : s = Set(r) /\ t = Tag(r) /\ w = Word(r)
  <2>1. r.k \in 1 .. Len(prog)
    BY <1>3, <1>4 DEF LiveReqs
  <2> QED  BY <1>1, <2>1, ProgFacts
<1>6. t_cm_block => p1.req \in LiveReqs /\ p1.got
  BY <1>1 DEF t_cm_block, PortType, Busy1
<1>7. /\ (Port2(r).busy <=> \E i \in DOMAIN mq : Set(mq[i]) = Set(r))
      /\ Port2(r).out.valid = arr[Set(r)].valid /\ Port2(r).out.tag = arr[Set(r)].tag
      /\ Port2(r).out.data = IF t_cm_block THEN t_array_data ELSE arr[Set(r)].data
  BY <1>1, <1>3, <1>4, <1>6, Port2Types
<1>8. PICK a \in Int : a = ArrVal(s, t)[w] /\ a = arr[s].data[w]
  <2>1. ArrVal(s, t) = arr[s].data
    BY <1>4, <1>5, <1>7 DEF ArrVal
  <2> QED  BY <2>1, ShownTypes
<1>9. /\ r.k \in 1 .. Len(prog) /\ r.exp \in Int
      /\ \A x \in 1 .. Len(prog) : Pend(x) /\ StoreAt(x, s, t, w) /\ x < r.k => x <= r.exp
      /\ r.exp = a \/ (Pend(r.exp) /\ StoreAt(r.exp, s, t, w) /\ r.exp < r.k)
  <2>1. r \in Requests
    BY <1>3, <1>4 DEF Requests
  <2>2. LoadOK(r.k, r.exp)
    BY <1>4
  <2> QED  BY <1>5, <1>8, <2>1, <2>2, RequestFacts DEF LoadOK, Set, Tag, Word
<1>10. \A x \in 1 .. Len(prog) : Pend(x) /\ StoreAt(x, s, t, w) => a < x
  <2>1. CommitOK(s, t, w)
    BY DEF CommitInv
  <2> QED  BY <1>8, <2>1 DEF CommitOK
<1>11. t_cm_block => /\ p1.got /\ p1.wr /\ p1.idx = s /\ Tag(p1.req) = t /\ IsStore(p1.req) /\ Set(p1.req) = s
                     /\ p1.out = arr[s] /\ p1.req.k \in 1 .. Len(prog) /\ p1.req.k < r.k
  <2>1. SUFFICES ASSUME t_cm_block
                 PROVE  /\ p1.got /\ p1.wr /\ p1.idx = s /\ Tag(p1.req) = t /\ IsStore(p1.req) /\ Set(p1.req) = s
                        /\ p1.out = arr[s] /\ p1.req.k \in 1 .. Len(prog) /\ p1.req.k < r.k
    OBVIOUS
  <2>2. p1.got /\ p1.wr /\ p1.idx = s /\ Tag(p1.req) = t
    BY <1>3, <1>4, <1>5, <2>1 DEF t_cm_block
  <2>3. IsStore(p1.req) /\ Set(p1.req) = s /\ p1.out = arr[s]
    BY <1>1, <2>2 DEF PortInv, LineInv
  <2>4. p1.req.k \in 1 .. Len(prog) /\ p1.req.k < r.k
    BY <1>3, <1>4, <2>2, PortOldest DEF Busy1
  <2> QED  BY <2>2, <2>3, <2>4
<1>12. CASE r.exp # a
  <2>1. Pend(r.exp) /\ StoreAt(r.exp, s, t, w) /\ r.exp < r.k
    BY <1>9, <1>12
  <2>2. ~(\E i \in 1 .. Len(mq) : mq[i].k = r.exp)
    <3>1. SUFFICES ASSUME NEW i \in 1 .. Len(mq), mq[i].k = r.exp PROVE FALSE
      OBVIOUS
    <3>2. i \in DOMAIN mq /\ Set(mq[i]) = Set(r)
      BY <1>1, <1>5, <2>1, <3>1 DEF CoreType, Set, StoreAt
    <3> QED  BY <1>4, <1>7, <3>2
  <2>3. ~(p2.got /\ p2.req.k = r.exp)
    <3>1. SUFFICES ASSUME p2.got, p2.req.k = r.exp PROVE FALSE
      OBVIOUS
    <3>2. p2.wr /\ p2.idx = Set(r)
      BY <1>1, <1>5, <2>1, <3>1 DEF PortInv, Set, IsStore, StoreAt
    <3>3. ~IsStore(r)
      BY <1>4 DEF IsLoad, IsStore
    <3> QED  BY <1>3, <1>4, <3>2, <3>3 DEF core_mem_req_ack
  <2>4. ~(\E i \in 1 .. Len(q) : q[i].k = r.exp)
    <3>1. SUFFICES ASSUME NEW i \in 1 .. Len(q), q[i].k = r.exp PROVE FALSE
      OBVIOUS
    <3>2. rob[NAcc + i].k = q[i].k /\ rob[NAcc + 1].k = r.k
      BY <1>1, <1>3, <1>4 DEF MirrorInv, Owns
    <3>3. NAcc + i \in 1 .. Len(rob) /\ NAcc + 1 \in 1 .. Len(rob) /\ (i # 1 => NAcc + 1 < NAcc + i)
      <4>1. Len(rob) \in Nat
        BY <1>1, Heads
      <4> QED  BY <1>1, <1>3, <4>1 DEF MirrorInv, NAcc
    <3>4. i # 1 => r.k < r.exp
      BY <1>1, <3>1, <3>2, <3>3 DEF OrderInv
    <3>5. i = 1 => r.k = r.exp
      BY <1>4, <3>1
    <3> QED  BY <1>3, <1>9, <2>1, <3>4, <3>5
  <2>5. Busy1 /\ p1.req.k = r.exp
    BY <2>1, <2>2, <2>3, <2>4 DEF Pend
  <2>6. p1.got /\ IsStore(p1.req) /\ Set(p1.req) = s /\ Tag(p1.req) = t /\ Word(p1.req) = w
    BY <1>2, <2>1, <2>5 DEF Busy1, Active, IsStore, Set, Tag, Word, StoreAt
  <2>7. t_cm_block
    BY <1>1, <1>3, <1>4, <1>5, <2>6 DEF t_cm_block, PortInv
  <2>8. t_array_data[w] = p1.req.k
    BY <1>1, <2>6, ArrayDataType
  <2> QED  BY <1>4, <1>5, <1>7, <2>5, <2>7, <2>8
<1>13. CASE r.exp = a /\ ~t_cm_block
  BY <1>4, <1>5, <1>7, <1>8, <1>13
<1>14. CASE r.exp = a /\ t_cm_block
  <2>1. /\ p1.got /\ IsStore(p1.req) /\ Tag(p1.req) = t /\ Set(p1.req) = s
        /\ p1.out = arr[s] /\ p1.req.k \in 1 .. Len(prog) /\ p1.req.k < r.k
    BY <1>11, <1>14
  <2>2. w # Word(p1.req)
    <3>1. SUFFICES ASSUME w = Word(p1.req) PROVE FALSE
      OBVIOUS
    <3>2. Pend(p1.req.k) /\ StoreAt(p1.req.k, s, t, w)
      BY <2>1, <3>1 DEF Pend, Busy1, StoreAt, IsStore, Set, Tag, Word
    <3>3. p1.req.k <= a /\ a < p1.req.k
      BY <1>9, <1>10, <1>14, <2>1, <3>2
    <3> QED  BY <1>3, <2>1, <3>3
  <2>3. t_array_data[w] = p1.out.data[w]
    BY <1>1, <2>1, <2>2, ArrayDataType
  <2> QED  BY <1>4, <1>5, <1>7, <1>8, <1>14, <2>1, <2>3
<1> QED  BY <1>12, <1>13, <1>14

\* What a load has to return, over one clock: a store written before it was
\* pending, and port 2 never reads past one.
LEMMA LoadsKept ==
    ASSUME FlowInv, LineInv, MemInv, PendInv, CommitInv, LoadInv, NEW n, NEW is, NEW sq, NEW rs, Clock(n, is, sq, rs)
    PROVE  LoadInv'
<1>1. /\ is \in BOOLEAN /\ CoreType /\ PortType /\ RingInv /\ MirrorInv /\ Registers /\ prog' = prog
      /\ CoreStep(n, is, sq, rs)
  BY ClockFacts DEF FlowInv, TypeInv
<1>2. SUFFICES ASSUME ~drain'
               PROVE  /\ \A r \in Requests' : prog[r.k].op = "load" => LoadOK(r.k, r.exp)'
                      /\ p2'.got /\ IsLoad(p2'.req) /\ p2'.out.valid /\ p2'.out.tag = Tag(p2'.req) /\ ~p2'.busy
                            => p2'.out.data[Word(p2'.req)] = p2'.req.exp
  <2>1. \A r : IsLoad(r)' <=> prog[r.k].op = "load"
    BY <1>1 DEF IsLoad
  <2>2. /\ IsLoad(p2.req)' <=> IsLoad(p2'.req)
        /\ Hit2' <=> p2'.out.valid /\ p2'.out.tag = Tag(p2'.req)
        /\ Word(p2.req)' = Word(p2'.req)
    BY <1>1 DEF IsLoad, Hit2, Tag, Word
  <2> QED  BY <2>1, <2>2 DEF LoadInv
<1>3. drain' = ds_done
  BY <1>1 DEF CoreStep
<1>4. rob # <<>> => ~drain
  BY <1>1, <1>2, <1>3 DEF RingInv
<1>5. ASSUME NEW r \in Requests, prog[r.k].op = "load"
      PROVE  ~drain /\ LoadOK(r.k, r.exp)
  BY <1>4, <1>5, RequestFacts DEF LoadInv, IsLoad
<1>6. ASSUME NEW r \in Requests', prog[r.k].op = "load"
      PROVE  LoadOK(r.k, r.exp)'
  <2>1. PICK k, e : k = r.k /\ e = r.exp
    OBVIOUS
  <2>2. CASE r \in Requests
    <3>1. k \in 1 .. Len(prog) /\ e \in Int /\ k <= pc
      <4>1. pc \in Nat /\ Len(prog) \in Nat
        BY PcMoves, ProgFacts, <1>1
      <4> QED  BY <2>1, <2>2, <4>1, RequestFacts
    <3>2. ~drain /\ LoadOK(k, e)
      BY <1>5, <1>6, <2>1, <2>2
    <3>3. ASSUME t_wr_array PROVE p1.req.k < k
      <4>1. Busy1 /\ IsStore(p1.req)
        BY <3>3 DEF t_wr_array, Hit1, Busy1
      <4>2. k # p1.req.k
        BY <1>6, <2>1, <4>1 DEF IsStore
      <4>3. Pend(k)
        BY <2>1, <2>2, RequestFacts
      <4> QED  BY <4>1, <4>2, <4>3, PendYounger
    <3>4. LoadOK(k, e)'
      BY <3>1, <3>2, <3>3, LoadKept
    <3> QED  BY <2>1, <3>4
  <2>3. CASE Sends(is) /\ r = NewReq
    <3>1. CanSend /\ ~drain
      BY <1>1, <2>3 DEF CoreStep, CanSend, Sends
    <3>2. pc \in 1 .. Len(prog)
      BY <1>1, <2>3, <3>1, SendTypes
    <3>3. k = pc /\ e = Current
      BY <2>1, <2>3 DEF NewReq
    <3>4. LoadOK(k, e) /\ e \in Int
      BY <3>1, <3>2, <3>3, NewLoad
    <3>5. ASSUME t_wr_array PROVE p1.req.k < k
      <4>1. Busy1
        BY <3>5 DEF t_wr_array, Hit1, Busy1
      <4> QED  BY <3>3, <4>1, PortOldest
    <3>6. k \in 1 .. Len(prog) /\ k <= pc
      BY <3>2, <3>3
    <3>7. LoadOK(k, e)'
      BY <3>1, <3>4, <3>5, <3>6, LoadKept
    <3> QED  BY <2>1, <3>7
  <2> QED  BY <2>2, <2>3, RequestsFrom
<1>7. ASSUME p2'.got, IsLoad(p2'.req), p2'.out.valid, p2'.out.tag = Tag(p2'.req), ~p2'.busy
      PROVE  p2'.out.data[Word(p2'.req)] = p2'.req.exp
  <2>1. core_mem_req_ack /\ p2' = Port2(q[1]) /\ p2'.req = q[1] /\ q # <<>>
    BY <1>1, <1>7, P2Next
  <2>2. q[1] \in Requests
    BY <1>1, <2>1, Heads DEF Requests
  <2>3. LoadOK(q[1].k, q[1].exp)
    BY <1>5, <1>7, <2>1, <2>2 DEF IsLoad
  <2>4. /\ IsLoad(q[1]) /\ Port2(q[1]).out.valid /\ Port2(q[1]).out.tag = Tag(q[1]) /\ ~Port2(q[1]).busy
    BY <1>7, <2>1
  <2>5. Port2(q[1]).out.data[Word(q[1])] = q[1].exp
    BY <2>1, <2>3, <2>4, Port2Reads
  <2> QED  BY <2>1, <2>5
<1> QED  BY <1>6, <1>7

-----------------------------------------------------------------------------
\* One clock keeps the whole invariant.
LEMMA DataStep ==
    ASSUME DataInv, FlowInv', Next
    PROVE  DataInv'
<1>1. FlowInv /\ PendInv /\ CommitInv /\ LoadInv /\ LineInv /\ MemInv /\ WalkInv
  BY DEF DataInv
<1>2. PICK n \in 0 .. 2, is, sq, rs \in BOOLEAN : CoreStep(n, is, sq, rs)
  BY DEF Next
<1>3. Clock(n, is, sq, rs)
  BY <1>2 DEF Clock, Next
<1>4. LineInv' /\ MemInv' /\ WalkInv'
  BY <1>1, <1>3, ArraysKept
<1>5. PendInv' /\ CommitInv' /\ LoadInv'
  BY <1>1, <1>3, PendKept, CommitKept, LoadsKept
<1> QED  BY <1>4, <1>5 DEF DataInv

\* A step that changes nothing keeps it.
LEMMA DataStutter ==
    ASSUME DataInv, FlowInv', UNCHANGED vars
    PROVE  DataInv'
<1>1. /\ PendInv /\ CommitInv /\ LoadInv /\ LineInv /\ MemInv /\ WalkInv
      /\ UNCHANGED <<state, arr, p1, p2, mq, lock, reload_issue, inhibit, mreq, flush_complete, mem>>
      /\ UNCHANGED <<prog, pc, q, rob, drain, commit>>
  BY DEF DataInv, vars, cacheVars, coreVars
<1>2. LineInv' /\ MemInv' /\ WalkInv'
  BY <1>1 DEF LineInv, MemInv, WalkInv, Owing, Set, Tag
<1>3. /\ \A k : (Pend(k)' <=> Pend(k)) /\ (GoneK(k)' <=> GoneK(k))
      /\ \A s, t : ArrVal(s, t)' = ArrVal(s, t)
      /\ \A k, s, t, w : StoreAt(k, s, t, w)' <=> StoreAt(k, s, t, w)
  BY <1>1 DEF Pend, GoneK, ArrVal, StoreAt, Busy1
<1>4. PendInv'
  BY <1>1, <1>3 DEF PendInv, IsStore
<1>5. CommitInv'
  <2>1. SUFFICES ASSUME NEW s \in Sets, NEW t \in Tags, NEW w \in Words PROVE CommitOK(s, t, w)'
    BY DEF CommitInv
  <2>2. CommitOK(s, t, w)
    BY <1>1 DEF CommitInv
  <2> QED  BY <1>1, <1>3, <2>2 DEF CommitOK
<1>6. LoadInv'
  <2>1. \A k, e : LoadOK(k, e)' <=> LoadOK(k, e)
    BY <1>1, <1>3 DEF LoadOK
  <2>2. Requests' = Requests
    BY <1>1 DEF Requests, Busy1
  <2> QED  BY <1>1, <2>1, <2>2 DEF LoadInv, IsLoad, Hit2, Tag, Word
<1> QED  BY <1>2, <1>4, <1>5, <1>6 DEF DataInv

\* The invariant holds at reset.
LEMMA DataInit == Init => DataInv
<1> SUFFICES ASSUME Init PROVE DataInv
  OBVIOUS
<1>1. FlowInv /\ CoreType
  BY FlowInit DEF FlowInv, TypeInv
<1>2. /\ state = "ACTIVE" /\ arr = [s \in Sets |-> NoLine] /\ ~p1.got /\ ~p2.got /\ mq = <<>> /\ q = <<>> /\ rob = <<>>
      /\ mreq.st = "no" /\ ~flush_complete /\ pc = 1 /\ commit = mem
      /\ mem = [a \in Sets \X Tags |-> Fill(0)]
  BY DEF Init, NoPort, IdlePort, NoMem, MemReq
<1>3. Len(mq) = 0 /\ Len(q) = 0 /\ Len(rob) = 0
  BY <1>2
<1>4. ~NoLine.valid /\ ~NoLine.dirty
  BY DEF NoLine, Line
<1>5. \A s \in Sets : ~arr[s].valid /\ ~arr[s].dirty
  BY <1>2, <1>4
<1>6. LineInv /\ MemInv /\ WalkInv
  BY <1>2, <1>5 DEF LineInv, MemInv, WalkInv, Owing
<1>7. \A k : ~Pend(k)
  BY <1>2, <1>3 DEF Pend, Busy1
<1>8. PendInv
  BY <1>3 DEF PendInv
<1>9. Requests = {}
  BY <1>2, <1>3 DEF Requests, Busy1
<1>10. LoadInv
  BY <1>2, <1>9 DEF LoadInv
<1>11. CommitInv
  <2>1. SUFFICES ASSUME NEW s \in Sets, NEW t \in Tags, NEW w \in Words PROVE CommitOK(s, t, w)
    BY DEF CommitInv
  <2>2. ArrVal(s, t)[w] = 0 /\ commit[<<s, t>>][w] = 0
    BY <1>2, <1>5 DEF ArrVal, Fill
  <2> QED  BY <1>2, <1>3, <1>7, <2>2 DEF CommitOK
<1> QED  BY <1>1, <1>6, <1>8, <1>10, <1>11 DEF DataInv

\* The invariant of the data: what the arrays, the memory and the pending stores
\* hold together is what has retired and what every waiting load has to return.
THEOREM DataInvariant == Spec => []DataInv
<1>1. DataInv /\ FlowInv' /\ [Next]_vars => DataInv'
  BY DataStep, DataStutter
<1> QED  BY <1>1, DataInit, FlowInvariant, PTL DEF Spec

\* For every cache, every program and every pattern of squashes, a load is
\* answered with the last older store to its word: by port 2 on a hit, or by port
\* 1 once it has been replayed from the miss queue.
THEOREM LoadsAreCurrent == Spec => []LoadsCurrent
<1>1. ASSUME DataInv PROVE LoadsCurrent
  <2>1. SUFFICES ASSUME core_mem_rsp_valid, IsLoad(rsp_req), ~drain PROVE rsp_data = rsp_req.exp
    BY DEF LoadsCurrent
  <2>2. /\ FlowInv /\ TypeInv /\ PortInv /\ PortType /\ LineInv /\ LoadInv /\ PortTwoClear
    BY <1>1 DEF DataInv, FlowInv, TypeInv, Inv
  <2>3. CASE Answers1
    <3>1. p1.got /\ Hit1 /\ ~IsStore(p1.req) /\ Busy1
      BY <2>3 DEF Answers1, Hit1, Busy1
    <3>2. ~p2.got /\ rsp_req = p1.req /\ rsp_data = p1.out.data[Word(p1.req)]
      BY <2>2, <2>3, <3>1 DEF PortTwoClear, rsp_req, rsp_data
    <3>3. PICK k, e : k = p1.req.k /\ e = p1.req.exp
      OBVIOUS
    <3>4. p1.req \in Requests
      BY <3>1 DEF Requests
    <3>5. LoadOK(k, e) /\ k \in 1 .. Len(prog) /\ e \in Int
      BY <2>1, <2>2, <3>2, <3>3, <3>4, RequestFacts DEF LoadInv
    <3>6. PICK a : a = ArrVal(Set(p1.req), Tag(p1.req))[Word(p1.req)]
      OBVIOUS
    <3>7. a = p1.out.data[Word(p1.req)]
      BY <2>2, <3>1, <3>6 DEF LineInv, PortInv, ArrVal, Hit1
    <3>8. e = a \/ (Pend(e) /\ e < k)
      BY <3>3, <3>5, <3>6 DEF LoadOK, Set, Tag, Word
    <3>9. ~(Pend(e) /\ e < k)
      <4>1. SUFFICES ASSUME Pend(e), e < k PROVE FALSE
        OBVIOUS
      <4>2. e # p1.req.k
        BY <3>3, <3>5, <4>1
      <4>3. k < e
        BY <2>2, <3>1, <3>3, <4>1, <4>2, PendYounger
      <4> QED  BY <3>5, <4>1, <4>3
    <3> QED  BY <3>2, <3>3, <3>7, <3>8, <3>9
  <2>4. CASE ~Answers1
    <3>1. Active /\ p2.got /\ (IsStore(p2.req) \/ ~t_push_miss)
      BY <2>1, <2>4 DEF core_mem_rsp_valid
    <3>2. rsp_req = p2.req /\ rsp_data = p2.out.data[Word(p2.req)]
      BY <2>4, <3>1 DEF rsp_req, rsp_data
    <3>3. ~IsStore(p2.req) /\ IsLoad(p2.req)
      BY <2>1, <3>2 DEF IsLoad, IsStore
    <3>4. Hit2 /\ ~p2.busy
      BY <2>1, <3>1, <3>3 DEF t_push_miss
    <3> QED  BY <2>1, <2>2, <3>1, <3>2, <3>3, <3>4 DEF LoadInv
  <2> QED  BY <2>3, <2>4
<1> QED  BY <1>1, DataInvariant, PTL

\* For every cache and every program, when a flush reports completion the memory
\* holds every retired store to the flushed set, or, for a flush of the cache, to
\* every set but the last, where the walk in l1d.sv ends without looking.
THEOREM FlushesAreComplete == Spec => []FlushedIsCurrent
<1>1. ASSUME DataInv PROVE FlushedIsCurrent
  <2>1. SUFFICES ASSUME flush_complete, NEW s \in Sets, NEW t \in Tags,
                        IF prog[pc].op = "flushcl" THEN s = prog[pc].set ELSE s # L1D_NUM_SETS - 1
                 PROVE  mem[<<s, t>>] = commit[<<s, t>>]
    BY DEF FlushedIsCurrent
  <2>2. /\ FlowInv /\ CoreType /\ ArrayType /\ FlushInv /\ OwnInv /\ MirrorInv /\ CommitInv /\ WalkInv
    BY <1>1 DEF DataInv, FlowInv, TypeInv
  <2>3. state = "ACTIVE" /\ ~p1.got /\ mq = <<>> /\ rob = <<>>
    BY <2>1, <2>2 DEF FlushInv
  <2>4. Len(mq) = 0 /\ Len(rob) = 0 /\ Len(q) = 0
    BY <2>2, <2>3, Heads DEF MirrorInv
  <2>5. ~p2.got
    <3>1. ~(\E i \in 1 .. NAcc : TRUE)
      BY <2>4 DEF NAcc
    <3> QED  BY <2>2, <3>1 DEF OwnInv, Owned
  <2>6. \A k : ~Pend(k)
    BY <2>3, <2>4, <2>5 DEF Pend, Busy1
  <2>7. ~arr[s].valid
    BY <2>1, <2>2, L1DAssumption DEF WalkInv, Sets
  <2>8. ASSUME NEW w \in Words PROVE mem[<<s, t>>][w] = commit[<<s, t>>][w]
    <3>1. CommitOK(s, t, w)
      BY <2>2 DEF CommitInv
    <3> QED  BY <2>6, <2>7, <3>1 DEF CommitOK, ArrVal
  <2>9. mem[<<s, t>>] \in [Words -> Values] /\ commit[<<s, t>>] \in [Words -> Values]
    BY <2>2 DEF ArrayType, CoreType, Datas
  <2> QED  BY <2>8, <2>9
<1> QED  BY <1>1, DataInvariant, PTL
=============================================================================
