----------------------------- MODULE L1DProofs -----------------------------
(***************************************************************************)
(* The flow of requests through the data cache, for every shape of the     *)
(* cache, every size of its queues and of the reorder buffer, and every    *)
(* program: a request in port 2 is never in the way, registers keep their  *)
(* types, every answer goes to the one operation that waits for it, and    *)
(* none of the assertions of l1d.sv fires.  The first is proved alone, the *)
(* others from FlowInv.                                                    *)
(***************************************************************************)
EXTENDS L1D, TLAPS, FiniteSetTheorems, WellFoundedInduction

\* The miss queue is a sequence of something.
IsQueue(s) == \E S : s \in Seq(S)

Inv ==
    /\ IsQueue(mq)
    /\ Len(mq) <= N_MRQ
    /\ PortTwoClear

-----------------------------------------------------------------------------
\* One clock moves the miss queue by a pop and a push at most, and only a
\* request that port 2 had is pushed.
LEMMA QueueMoves ==
    ASSUME IsQueue(mq), Registers
    PROVE  /\ IsQueue(mq')
           /\ Len(mq') <= Len(mq) + (IF p2.got THEN 1 ELSE 0)
<1>1. PICK S : mq \in Seq(S)
  BY DEF IsQueue
<1> DEFINE rest == IF t_pop_mq THEN Tail(mq) ELSE mq
           more == IF t_push_miss THEN <<p2.req>> ELSE <<>>
<1>2. t_pop_mq => mq # <<>>
  BY DEF t_pop_mq, t_got_rd_retry, FiresStore, t_force_clear_busy, Served
<1>3. rest \in Seq(S) /\ Len(rest) <= Len(mq)
  BY <1>1, <1>2
<1>4. /\ more \in Seq({p2.req})
      /\ Len(more) = IF t_push_miss THEN 1 ELSE 0
  <2>1. <<p2.req>> \in Seq({p2.req}) /\ Len(<<p2.req>>) = 1
    OBVIOUS
  <2>2. <<>> \in Seq({p2.req}) /\ Len(<<>>) = 0
    OBVIOUS
  <2>3. CASE t_push_miss
    BY <2>1, <2>3
  <2>4. CASE ~t_push_miss
    BY <2>2, <2>4
  <2> QED
    BY <2>3, <2>4
<1>5. t_push_miss => p2.got
  BY DEF t_push_miss, t_incr_busy
<1>6. mq' = rest \o more
  BY DEF Registers
<1>7. rest \in Seq(S \cup {p2.req}) /\ more \in Seq(S \cup {p2.req})
  BY <1>3, <1>4
<1> HIDE DEF rest, more
<1>8. rest \o more \in Seq(S \cup {p2.req}) /\ Len(rest \o more) = Len(rest) + Len(more)
  BY <1>7
<1>9. IsQueue(mq')
  BY <1>6, <1>8 DEF IsQueue
<1>10. Len(mq') <= Len(mq) + (IF t_push_miss THEN 1 ELSE 0)
  BY <1>1, <1>3, <1>4, <1>6, <1>7, <1>8
<1> QED
  BY <1>1, <1>5, <1>9, <1>10

\* A request is accepted only in a clock that stays in ACTIVE and replays no
\* load, and only if the queue has room for it and for the one in front of it.
LEMMA Accepted ==
    ASSUME Cache, UNCHANGED prog, core_mem_req_ack
    PROVE  /\ state' = "ACTIVE"
           /\ Len(mq) < N_MRQ - 1
           /\ ~(p1'.got /\ ~IsStore(p1.req)')
<1>1. /\ state = "ACTIVE" /\ ~t_got_miss /\ ~t_got_rd_retry
      /\ Len(mq) < N_MRQ - 1
  BY DEF core_mem_req_ack, Active
<1>2. ~StartFlush /\ ~StartFlushCl /\ ~Reloads
  BY <1>1 DEF StartFlush, StartFlushCl, Reloads
<1>3. DoActive
  BY <1>1 DEF Cache, DoInjectReload, DoHandleReload, DoFlushCl, DoFlushClWait, DoFlushCache, DoFlushCacheWait
<1>4. state' = "ACTIVE"
  BY <1>2, <1>3 DEF DoActive
<1>5. CASE FiresStore
  <2>1. p1' = Port(t_mem_head, FALSE)
    BY <1>2, <1>3, <1>5 DEF DoActive
  <2>2. p1'.req = t_mem_head
    BY <2>1 DEF Port
  <2>3. IsStore(t_mem_head)
    BY <1>5 DEF FiresStore
  <2>4. IsStore(p1.req)'
    BY <2>2, <2>3 DEF IsStore
  <2> QED
    BY <1>1, <1>4, <2>4
<1>6. CASE ~FiresStore
  <2>1. p1' = NoPort
    BY <1>1, <1>2, <1>3, <1>6 DEF DoActive
  <2> QED
    BY <1>1, <1>4, <2>1 DEF NoPort, IdlePort
<1> QED
  BY <1>5, <1>6

-----------------------------------------------------------------------------
LEMMA InvInit == Init => Inv
<1> SUFFICES ASSUME Init PROVE Inv
  OBVIOUS
<1>1. mq \in Seq({}) /\ Len(mq) = 0
  BY DEF Init
<1>2. ~p2.got
  BY DEF Init, NoPort, IdlePort
<1> QED
  BY <1>1, <1>2, L1DAssumption DEF Inv, IsQueue, PortTwoClear

LEMMA InvNext == Inv /\ [Next]_vars => Inv'
<1> SUFFICES ASSUME Inv, [Next]_vars PROVE Inv'
  OBVIOUS
<1>1. CASE Next
  <2>1. Cache /\ Registers /\ UNCHANGED prog
    <3>1. Cache
      BY <1>1 DEF Next
    <3>2. PICK n \in 0 .. 2, is, sq, rs \in BOOLEAN : CoreStep(n, is, sq, rs)
      BY <1>1 DEF Next
    <3>3. UNCHANGED prog
      BY <3>2, Zenon DEF CoreStep
    <3>4. Registers
      BY <3>1, Zenon DEF Cache
    <3> QED
      BY <3>1, <3>3, <3>4
  <2>2. IsQueue(mq') /\ Len(mq') <= Len(mq) + (IF p2.got THEN 1 ELSE 0)
    BY <2>1, QueueMoves DEF Inv
  <2>3. Len(mq) \in Nat /\ Len(mq') \in Nat /\ N_MRQ \in Nat
    BY <2>2, L1DAssumption DEF Inv, IsQueue
  <2>4. Len(mq') <= N_MRQ
    BY <2>2, <2>3 DEF Inv, PortTwoClear
  <2>5. CASE core_mem_req_ack
    <3>1. /\ state' = "ACTIVE" /\ Len(mq) < N_MRQ - 1
          /\ ~(p1'.got /\ ~IsStore(p1.req)')
      BY <2>1, <2>5, Accepted
    <3>2. Len(mq') < N_MRQ
      BY <2>2, <2>3, <3>1
    <3> QED
      BY <2>2, <2>4, <3>1, <3>2 DEF Inv, PortTwoClear
  <2>6. CASE ~core_mem_req_ack
    <3>1. ~p2'.got
      BY <2>1, <2>6 DEF Registers, NoPort, IdlePort
    <3> QED
      BY <2>2, <2>4, <3>1 DEF Inv, PortTwoClear
  <2> QED
    BY <2>5, <2>6
<1>2. CASE UNCHANGED vars
  BY <1>2 DEF Inv, PortTwoClear, IsQueue, IsStore, vars, cacheVars, coreVars
<1> QED
  BY <1>1, <1>2

\* A request that port 2 holds can always be dealt with in its only clock there:
\* the miss queue never overflows and the two ports never answer at once.
THEOREM PortTwoAlwaysClear == Spec => []PortTwoClear
<1>1. Inv => PortTwoClear
  BY DEF Inv
<1> QED
  BY <1>1, InvInit, InvNext, PTL DEF Spec

-----------------------------------------------------------------------------
(* Types.                                                                  *)

\* Requests on their way name an operation of the program.
LiveReqs == [slot : Slots, k : 1 .. Len(prog), exp : Values, ep : 0 .. MaxSquash]
Entries == [slot : Slots, k : 1 .. Len(prog), ep : 0 .. MaxSquash, done : BOOLEAN]
MemReqs == [st : {"no", "ask", "wait"}, op : {"LW", "SW"}, set : Sets, tag : Tags, data : Datas]
States == {"ACTIVE", "INJECT_RELOAD", "HANDLE_RELOAD", "FLUSH_CL", "FLUSH_CL_WAIT", "FLUSH_CACHE",
           "FLUSH_CACHE_WAIT"}

\* Port 1 has a request, or holds one during a refill.
Busy1 == p1.got \/ state \in {"INJECT_RELOAD", "HANDLE_RELOAD"}

PortType ==
    /\ p1 \in Ports /\ p2 \in Ports /\ rr_wr \in Sets \cup {-1}
    /\ p2.got => p2.req \in LiveReqs
    /\ Busy1 => p1.req \in LiveReqs
ArrayType ==
    /\ state \in States
    /\ arr \in [Sets -> Lines] /\ mem \in [Sets \X Tags -> Datas]
    /\ mreq \in MemReqs
    /\ lock \in BOOLEAN /\ reload_issue \in BOOLEAN /\ inhibit \in BOOLEAN
    /\ flush_req \in BOOLEAN /\ flush_cl_req \in BOOLEAN /\ flush_complete \in BOOLEAN
    /\ memq_empty \in BOOLEAN
    /\ graduated \in [Slots -> 0 .. 2]
CoreType ==
    /\ prog \in Programs /\ pc \in 1 .. Len(prog) + 1
    /\ mq \in Seq(LiveReqs) /\ Len(mq) <= N_MRQ
    /\ q \in Seq(LiveReqs) /\ Len(q) <= N_MQ
    /\ rob \in Seq(Entries) /\ Len(rob) <= N_ROB
    /\ tail \in Slots /\ retired \subseteq Slots
    /\ ds_done \in BOOLEAN /\ drain \in BOOLEAN
    /\ squashes \in 0 .. MaxSquash
    /\ commit \in [Sets \X Tags -> Datas]
    /\ fl \in {"no", "flush", "flushcl", "wait"}
TypeInv == PortType /\ ArrayType /\ CoreType

\* An operation of the program.
LEMMA ProgFacts ==
    ASSUME CoreType
    PROVE  /\ Len(prog) \in Nat
           /\ \A r : r.k \in 1 .. Len(prog) => Set(r) \in Sets /\ Tag(r) \in Tags /\ Word(r) \in Words
           /\ \A k \in 1 .. Len(prog) : /\ prog[k].set \in Sets /\ prog[k].tag \in Tags /\ prog[k].word \in Words
                                        /\ prog[k].op \in {"load", "store", "move", "flush", "flushcl"}
<1>1. prog \in Seq(Operations)
  BY L1DAssumption DEF CoreType
<1>2. \A k \in 1 .. Len(prog) : prog[k] \in Operations
  BY <1>1
<1>3. Len(prog) \in Nat
  BY <1>1
<1> QED  BY <1>2, <1>3 DEF Operations, Set, Tag, Word

\* The sets the types are made of depend on the program only.
LEMMA TypesKept ==
    ASSUME UNCHANGED prog
    PROVE  /\ Values' = Values /\ Datas' = Datas /\ Reqs' = Reqs /\ Lines' = Lines /\ Ports' = Ports
           /\ LiveReqs' = LiveReqs /\ Entries' = Entries /\ MemReqs' = MemReqs
           /\ \A r : (IsStore(r)' <=> IsStore(r)) /\ (IsLoad(r)' <=> IsLoad(r))
           /\ \A r : Set(r)' = Set(r) /\ Tag(r)' = Tag(r) /\ Word(r)' = Word(r)
BY DEF Values, Datas, Reqs, Lines, Ports, LiveReqs, Entries, MemReqs, IsStore, IsLoad, Set, Tag, Word

LEMMA Consts ==
    ASSUME CoreType
    PROVE  /\ 0 \in Sets /\ 0 \in Slots /\ AnyTag \in Tags /\ NoReq \in Reqs
           /\ Fill(0) \in Datas /\ Fill(Junk) \in Datas
           /\ NoLine \in Lines /\ NoMem \in MemReqs /\ NoPort \in Ports
           /\ LiveReqs \subseteq Reqs
<1>1. Len(prog) \in Nat
  BY ProgFacts
<1>2. 0 \in Sets /\ 0 \in Slots /\ AnyTag \in Tags /\ 0 \in 0 .. MaxSquash
  BY L1DAssumption DEF Sets, Slots, AnyTag
<1>3. 0 \in Values /\ Junk \in Values
  BY <1>1 DEF Values, Junk
<1>4. Fill(0) \in Datas /\ Fill(Junk) \in Datas
  BY <1>3 DEF Fill, Datas
<1>5. NoReq \in Reqs
  BY <1>1, <1>2, <1>3 DEF NoReq, Reqs
<1>6. NoLine \in Lines
  BY <1>2, <1>4 DEF NoLine, Line, Lines
<1>7. NoMem \in MemReqs
  BY <1>2, <1>4 DEF NoMem, MemReq, MemReqs
<1>8. NoPort \in Ports
  BY <1>2, <1>5, <1>6 DEF NoPort, IdlePort, Ports
<1>9. LiveReqs \subseteq Reqs
  BY <1>1 DEF LiveReqs, Reqs
<1> QED  BY <1>2, <1>4, <1>5, <1>6, <1>7, <1>8, <1>9

LEMMA IdlePortType ==
    ASSUME NEW r \in Reqs, NEW i \in Sets, NEW l \in Lines
    PROVE  /\ IdlePort(r, i, l) \in Ports
           /\ ~IdlePort(r, i, l).got /\ ~IdlePort(r, i, l).wr
           /\ IdlePort(r, i, l).req = r /\ IdlePort(r, i, l).idx = i /\ IdlePort(r, i, l).out = l
BY DEF IdlePort, Ports

LEMMA PortTypes ==
    ASSUME TypeInv, NEW r \in LiveReqs, NEW reload \in BOOLEAN
    PROVE  /\ Port(r, reload) \in Ports
           /\ Port(r, reload).got /\ Port(r, reload).req = r /\ Port(r, reload).idx = Set(r)
           /\ Port(r, reload).wr <=> IsStore(r)
           /\ Port(r, reload).reload <=> reload
           /\ Port(r, reload).retry <=> ~reload
           /\ Port(r, reload).out = arr[Set(r)]
<1>1. r \in Reqs /\ Set(r) \in Sets /\ arr[Set(r)] \in Lines
  BY Consts, ProgFacts DEF TypeInv, LiveReqs, ArrayType
<1>2. IsStore(r) \in BOOLEAN
  BY DEF IsStore
<1> DEFINE b == \E i \in DOMAIN mq : ~(i = 1 /\ t_pop_mq) /\ Set(mq[i]) = Set(r)
<1>3. b \in BOOLEAN
  OBVIOUS
<1>4. Port(r, reload) = [got |-> TRUE, req |-> r, idx |-> Set(r), wr |-> IsStore(r), retry |-> ~reload,
                         reload |-> reload, busy |-> b, out |-> arr[Set(r)]]
  BY DEF Port
<1> HIDE DEF b
<1>5. (~reload) \in BOOLEAN
  OBVIOUS
<1>6. Port(r, reload) \in Ports
  BY <1>1, <1>2, <1>3, <1>4, <1>5 DEF Ports
<1>7. /\ Port(r, reload).got /\ Port(r, reload).req = r /\ Port(r, reload).idx = Set(r)
      /\ Port(r, reload).out = arr[Set(r)]
  BY <1>4
<1>8. Port(r, reload).wr = IsStore(r) /\ Port(r, reload).reload = reload /\ Port(r, reload).retry = (~reload)
  BY <1>4
<1>9. /\ Port(r, reload).wr <=> IsStore(r)
      /\ Port(r, reload).reload <=> reload
      /\ Port(r, reload).retry <=> ~reload
  BY <1>8, Zenon
<1> QED  BY <1>6, <1>7, <1>9

LEMMA Port2Types ==
    ASSUME TypeInv, NEW r \in LiveReqs, t_cm_block => p1.req \in LiveReqs
    PROVE  /\ Port2(r) \in Ports
           /\ Port2(r).got /\ Port2(r).req = r /\ Port2(r).idx = Set(r)
           /\ Port2(r).wr <=> IsStore(r)
           /\ Port2(r).busy <=> \E i \in DOMAIN mq : Set(mq[i]) = Set(r)
           /\ Port2(r).out.valid = arr[Set(r)].valid /\ Port2(r).out.tag = arr[Set(r)].tag
           /\ Port2(r).out.data = IF t_cm_block THEN t_array_data ELSE arr[Set(r)].data
<1>1. r \in Reqs /\ Set(r) \in Sets /\ arr[Set(r)] \in Lines
  BY Consts, ProgFacts DEF TypeInv, LiveReqs, ArrayType
<1>2. IsStore(r) \in BOOLEAN
  BY DEF IsStore
<1>3. t_cm_block => t_array_data \in Datas
  <2>1. Len(prog) \in Nat
    BY ProgFacts DEF TypeInv
  <2>2. p1.out.data \in Datas
    BY DEF TypeInv, PortType, Ports, Lines
  <2>3. t_cm_block => p1.req.k \in Values
    BY <2>1 DEF LiveReqs, Values
  <2> QED  BY <2>2, <2>3 DEF t_array_data, Datas
<1> DEFINE b == \E i \in DOMAIN mq : Set(mq[i]) = Set(r)
           d == IF t_cm_block THEN t_array_data ELSE arr[Set(r)].data
           l == Line(arr[Set(r)].valid, arr[Set(r)].dirty, arr[Set(r)].tag, d)
<1>4. b \in BOOLEAN
  OBVIOUS
<1>5. d \in Datas
  BY <1>1, <1>3 DEF Lines
<1>6. Port2(r) = [got |-> TRUE, req |-> r, idx |-> Set(r), wr |-> IsStore(r), retry |-> FALSE,
                  reload |-> FALSE, busy |-> b, out |-> l]
  BY DEF Port2
<1> HIDE DEF b, d
<1>7. l \in Lines /\ l.valid = arr[Set(r)].valid /\ l.tag = arr[Set(r)].tag /\ l.data = d
  BY <1>1, <1>5 DEF Lines, Line
<1> HIDE DEF l
<1>8. /\ Port2(r) \in Ports
      /\ Port2(r).got /\ Port2(r).req = r /\ Port2(r).idx = Set(r)
      /\ Port2(r).wr <=> IsStore(r)
      /\ Port2(r).busy <=> b
      /\ Port2(r).out = l
  BY <1>1, <1>2, <1>4, <1>6, <1>7 DEF Ports
<1> QED  BY <1>7, <1>8 DEF b, d

-----------------------------------------------------------------------------
(* The ports.                                                              *)

LEMMA Heads ==
    ASSUME CoreType
    PROVE  /\ mq # <<>> => t_mem_head = mq[1] /\ mq[1] \in LiveReqs /\ Len(mq) >= 1
           /\ q # <<>> => core_mem_req = q[1] /\ q[1] \in LiveReqs /\ Len(q) >= 1
           /\ mq = <<>> <=> Len(mq) = 0
           /\ q = <<>> <=> Len(q) = 0
           /\ rob = <<>> <=> Len(rob) = 0
           /\ Len(mq) \in Nat /\ Len(q) \in Nat /\ Len(rob) \in Nat
BY DEF CoreType, t_mem_head, core_mem_req

\* A request leaves the miss queue for port 1.
Pops == t_got_rd_retry \/ FiresStore

\* The walk of a flush reads a line of the program's, or the next one.
WalkOK == flush_cl_req => pc <= Len(prog)

\* What a clock does to port 1.
P1Step ==
    \/ Pops /\ Active /\ state' = "ACTIVE" /\ p1' = Port(t_mem_head, FALSE)
    \/ ~Pops /\ state = "HANDLE_RELOAD" /\ state' = "ACTIVE" /\ p1' = Port(p1.req, TRUE)
    \/ ~Pops /\ Reloads /\ state' = "INJECT_RELOAD" /\ p1' = IdlePort(p1.req, 0, NoLine)
    \/ /\ ~Pops /\ p1' = p1
       /\ \/ state = "INJECT_RELOAD" /\ state' \in {"INJECT_RELOAD", "HANDLE_RELOAD", "ACTIVE"}
          \/ state = "FLUSH_CL_WAIT" /\ state' \in {"FLUSH_CL_WAIT", "ACTIVE"}
    \/ /\ ~Pops /\ state \notin {"INJECT_RELOAD", "HANDLE_RELOAD"}
       /\ state' \in States \ {"INJECT_RELOAD", "HANDLE_RELOAD"}
       /\ p1' = NoPort \/ \E i \in Sets : p1' = Walk(i)

LEMMA PopsFacts ==
    ASSUME Pops
    PROVE  /\ Active /\ mq # <<>> /\ ~t_got_miss /\ ~Reloads /\ ~StartFlush /\ ~StartFlushCl
           /\ t_pop_mq /\ ~t_force_clear_busy
<1>1. Served
  BY DEF Pops, t_got_rd_retry, FiresStore
<1>2. Active /\ mq # <<>> /\ ~t_got_miss
  BY <1>1 DEF Served
<1>3. ~Reloads /\ ~StartFlush /\ ~StartFlushCl
  BY <1>2 DEF Reloads, StartFlush, StartFlushCl, StoresDone
<1>4. t_pop_mq /\ ~t_force_clear_busy
  BY DEF Pops, t_got_rd_retry, FiresStore, t_pop_mq, t_force_clear_busy
<1> QED  BY <1>2, <1>3, <1>4

LEMMA P1Cases ==
    ASSUME TypeInv, WalkOK, Cache
    PROVE  P1Step
<1>1. 0 \in Sets /\ p1.idx \in Sets /\ (p1.idx # L1D_NUM_SETS - 1 => p1.idx + 1 \in Sets)
  BY Consts, L1DAssumption DEF TypeInv, PortType, Ports, Sets
<1>2. state # "ACTIVE" => ~Pops
  BY PopsFacts DEF Active
<1>3. CASE DoActive
  <2>1. CASE Pops
    <3>1. ~StartFlush /\ ~StartFlushCl /\ ~Reloads /\ Active
      BY <2>1, PopsFacts
    <3>2. state' = "ACTIVE" /\ p1' = Port(t_mem_head, FALSE)
      BY <1>3, <2>1, <3>1 DEF DoActive, Pops
    <3> QED  BY <2>1, <3>1, <3>2 DEF P1Step
  <2>2. CASE ~Pops
    <3>0. state = "ACTIVE" /\ (StartFlushCl => prog[pc].set \in Sets)
      <4>1. StartFlushCl => pc \in 1 .. Len(prog)
        BY ProgFacts DEF StartFlushCl, WalkOK, TypeInv, CoreType
      <4> QED  BY <1>3, <4>1, ProgFacts DEF DoActive, Active, TypeInv
    <3>1. CASE StartFlush
      <4>0. ~StartFlushCl /\ ~t_got_rd_retry /\ ~FiresStore
        BY <2>2, <3>1 DEF StartFlush, StartFlushCl, Pops
      <4>1. state' = "FLUSH_CACHE" /\ p1' = Walk(0)
        BY <1>3, <3>1, <4>0 DEF DoActive
      <4> QED  BY <1>1, <2>2, <3>0, <4>1 DEF P1Step, States
    <3>2. CASE ~StartFlush /\ StartFlushCl
      <4>1. state' = "FLUSH_CL" /\ p1' = Walk(prog[pc].set)
        BY <1>3, <2>2, <3>2 DEF DoActive, Pops
      <4> QED  BY <2>2, <3>0, <3>2, <4>1 DEF P1Step, States
    <3>3. CASE ~StartFlush /\ ~StartFlushCl /\ Reloads
      BY <1>3, <2>2, <3>0, <3>3 DEF DoActive, P1Step, Pops
    <3>4. CASE ~StartFlush /\ ~StartFlushCl /\ ~Reloads
      BY <1>3, <2>2, <3>0, <3>4 DEF DoActive, P1Step, States, Pops
    <3> QED  BY <3>1, <3>2, <3>3, <3>4
  <2> QED  BY <2>1, <2>2
<1>4. CASE DoInjectReload
  BY <1>2, <1>4 DEF DoInjectReload, P1Step
<1>5. CASE DoHandleReload
  BY <1>2, <1>5 DEF DoHandleReload, P1Step
<1>6. CASE DoFlushCl
  BY <1>2, <1>6 DEF DoFlushCl, P1Step, States
<1>7. CASE DoFlushClWait
  BY <1>2, <1>7 DEF DoFlushClWait, P1Step
<1>8. CASE DoFlushCache
  <2>1. state = "FLUSH_CACHE" /\ ~Pops
    BY <1>2, <1>8 DEF DoFlushCache
  <2>2. \/ state' = "ACTIVE" /\ p1' = NoPort
        \/ state' = "FLUSH_CACHE" /\ p1.idx + 1 \in Sets /\ p1' = Walk(p1.idx + 1)
        \/ state' = "FLUSH_CACHE_WAIT" /\ p1.idx + 1 \in Sets /\ p1' = Walk(p1.idx + 1)
    BY <1>1, <1>8 DEF DoFlushCache, WalkEnds
  <2> QED  BY <2>1, <2>2 DEF P1Step, States
<1>9. CASE DoFlushCacheWait
  BY <1>1, <1>2, <1>9 DEF DoFlushCacheWait, P1Step, States
<1> QED  BY <1>3, <1>4, <1>5, <1>6, <1>7, <1>8, <1>9 DEF Cache

LEMMA PortsKeepType ==
    ASSUME TypeInv, WalkOK, Cache, UNCHANGED prog
    PROVE  PortType'
<1> USE DEF TypeInv
<1>1. P1Step
  BY P1Cases
<1>2. /\ Values' = Values /\ Datas' = Datas /\ Reqs' = Reqs /\ Lines' = Lines /\ Ports' = Ports
      /\ LiveReqs' = LiveReqs
  BY TypesKept
<1>3. /\ 0 \in Sets /\ NoReq \in Reqs /\ NoLine \in Lines /\ NoPort \in Ports /\ LiveReqs \subseteq Reqs
      /\ p1 \in Ports /\ p2 \in Ports /\ p1.req \in Reqs
  BY Consts DEF PortType, Ports
<1>4. FALSE \in BOOLEAN /\ TRUE \in BOOLEAN
  OBVIOUS
<1>5. p1' \in Ports /\ (Busy1' => p1'.req \in LiveReqs)
  <2>1. CASE Pops /\ Active /\ state' = "ACTIVE" /\ p1' = Port(t_mem_head, FALSE)
    <3>1. t_mem_head \in LiveReqs
      BY <2>1, PopsFacts, Heads
    <3>2. p1' \in Ports /\ p1'.req = t_mem_head
      BY <1>4, <2>1, <3>1, PortTypes
    <3> QED  BY <3>1, <3>2
  <2>2. CASE ~Pops /\ state = "HANDLE_RELOAD" /\ state' = "ACTIVE" /\ p1' = Port(p1.req, TRUE)
    <3>1. p1.req \in LiveReqs
      BY <2>2 DEF PortType, Busy1
    <3>2. p1' \in Ports /\ p1'.req = p1.req
      BY <1>4, <2>2, <3>1, PortTypes
    <3> QED  BY <3>1, <3>2
  <2>3. CASE ~Pops /\ Reloads /\ state' = "INJECT_RELOAD" /\ p1' = IdlePort(p1.req, 0, NoLine)
    <3>1. p1.req \in LiveReqs
      BY <2>3 DEF Reloads, t_got_miss, PortType, Busy1
    <3>2. p1' \in Ports /\ p1'.req = p1.req
      BY <1>3, <2>3, IdlePortType
    <3> QED  BY <3>1, <3>2
  <2>4. CASE /\ ~Pops /\ p1' = p1
             /\ \/ state = "INJECT_RELOAD" /\ state' \in {"INJECT_RELOAD", "HANDLE_RELOAD", "ACTIVE"}
                \/ state = "FLUSH_CL_WAIT" /\ state' \in {"FLUSH_CL_WAIT", "ACTIVE"}
    BY <1>3, <2>4 DEF PortType, Busy1
  <2>5. CASE /\ ~Pops /\ state \notin {"INJECT_RELOAD", "HANDLE_RELOAD"}
             /\ state' \in States \ {"INJECT_RELOAD", "HANDLE_RELOAD"}
             /\ p1' = NoPort \/ \E i \in Sets : p1' = Walk(i)
    <3>1. p1' \in Ports /\ ~p1'.got
      <4>1. CASE p1' = NoPort
        BY <1>3, <4>1, IdlePortType DEF NoPort
      <4>2. ASSUME NEW i \in Sets, p1' = Walk(i) PROVE p1' \in Ports /\ ~p1'.got
        <5>1. arr[i] \in Lines
          BY DEF ArrayType
        <5> QED  BY <1>3, <4>2, <5>1, IdlePortType DEF Walk
      <4> QED  BY <2>5, <4>1, <4>2
    <3> QED  BY <2>5, <3>1 DEF Busy1
  <2> QED  BY <1>1, <2>1, <2>2, <2>3, <2>4, <2>5 DEF P1Step
<1>6. p2' \in Ports /\ (p2'.got => p2'.req \in LiveReqs)
  <2>1. p2' = IF core_mem_req_ack THEN Port2(core_mem_req) ELSE NoPort
    BY DEF Cache, Registers
  <2>2. CASE core_mem_req_ack
    <3>1. core_mem_req \in LiveReqs
      BY <2>2, Heads DEF core_mem_req_ack
    <3>2. t_cm_block => p1.req \in LiveReqs
      BY DEF t_cm_block, PortType, Busy1
    <3>3. Port2(core_mem_req) \in Ports /\ Port2(core_mem_req).req = core_mem_req
      BY <3>1, <3>2, Port2Types
    <3> QED  BY <2>1, <2>2, <3>1, <3>3
  <2>3. CASE ~core_mem_req_ack
    BY <1>3, <2>1, <2>3, IdlePortType DEF NoPort
  <2> QED  BY <2>2, <2>3
<1>7. rr_wr' \in Sets \cup {-1}
  BY DEF Cache, Registers, PortType, Ports
<1> QED  BY <1>2, <1>5, <1>6, <1>7 DEF PortType

-----------------------------------------------------------------------------
(* The arrays and the registers of the cache.                              *)

LEMMA LineType ==
    ASSUME NEW v \in BOOLEAN, NEW d \in BOOLEAN, NEW t \in Tags, NEW x \in Datas
    PROVE  /\ Line(v, d, t, x) \in Lines
           /\ Line(v, d, t, x).valid = v /\ Line(v, d, t, x).dirty = d
           /\ Line(v, d, t, x).tag = t /\ Line(v, d, t, x).data = x
BY DEF Line, Lines

LEMMA MemReqType ==
    ASSUME NEW st \in {"no", "ask", "wait"}, NEW op \in {"LW", "SW"}, NEW s \in Sets, NEW t \in Tags,
           NEW x \in Datas
    PROVE  MemReq(st, op, s, t, x) \in MemReqs
BY DEF MemReq, MemReqs

LEMMA WriteType ==
    ASSUME ArrayType, NEW s \in Sets, NEW v \in BOOLEAN, NEW d \in BOOLEAN, NEW x \in Datas, Write(s, v, d, x)
    PROVE  /\ arr' \in [Sets -> Lines]
           /\ arr'[s] = Line(v, d, arr[s].tag, x)
           /\ \A i \in Sets : i # s => arr'[i] = arr[i]
<1>1. arr[s].tag \in Tags
  BY DEF ArrayType, Lines
<1>2. Line(v, d, arr[s].tag, x) \in Lines
  BY <1>1, LineType
<1> QED  BY <1>2 DEF Write, ArrayType

LEMMA MemReplyType ==
    ASSUME CoreType, ArrayType, MemReply
    PROVE  /\ arr' \in [Sets -> Lines] /\ mem' \in [Sets \X Tags -> Datas] /\ mreq' \in MemReqs /\ inhibit' \in BOOLEAN
           /\ mreq.set \in Sets /\ mreq.tag \in Tags
           /\ \A i \in Sets : i # mreq.set => arr'[i] = arr[i]
           /\ arr'[mreq.set].valid <=> ~inhibit
           /\ ~arr'[mreq.set].dirty /\ arr'[mreq.set].tag = mreq.tag
           /\ mreq.op = "LW" => arr'[mreq.set].data = mem[<<mreq.set, mreq.tag>>] /\ mem' = mem
           /\ mreq.op = "SW" => mem' = [mem EXCEPT ![<<mreq.set, mreq.tag>>] = mreq.data]
           /\ ~inhibit'
<1>1. /\ mreq.set \in Sets /\ mreq.tag \in Tags /\ mreq.op \in {"LW", "SW"} /\ mreq.data \in Datas
      /\ mem[<<mreq.set, mreq.tag>>] \in Datas
  BY DEF ArrayType, MemReqs
<1> DEFINE d == IF mreq.op = "LW" THEN mem[mreq.set, mreq.tag] ELSE Fill(Junk)
<1>2. d \in Datas /\ (mreq.op = "LW" => d = mem[<<mreq.set, mreq.tag>>])
  BY <1>1, Consts
<1>3. arr' = [arr EXCEPT ![mreq.set] = Line(~inhibit, FALSE, mreq.tag, d)]
  BY DEF MemReply
<1> HIDE DEF d
<1>4. (~inhibit) \in BOOLEAN /\ FALSE \in BOOLEAN
  BY DEF ArrayType
<1>a. PICK v \in BOOLEAN : v = (~inhibit)
  BY <1>4
<1>5. /\ Line(~inhibit, FALSE, mreq.tag, d) \in Lines
      /\ Line(~inhibit, FALSE, mreq.tag, d).valid = (~inhibit) /\ Line(~inhibit, FALSE, mreq.tag, d).dirty = FALSE
      /\ Line(~inhibit, FALSE, mreq.tag, d).tag = mreq.tag /\ Line(~inhibit, FALSE, mreq.tag, d).data = d
  <2>1. /\ Line(v, FALSE, mreq.tag, d) \in Lines
        /\ Line(v, FALSE, mreq.tag, d).valid = v /\ Line(v, FALSE, mreq.tag, d).dirty = FALSE
        /\ Line(v, FALSE, mreq.tag, d).tag = mreq.tag /\ Line(v, FALSE, mreq.tag, d).data = d
    BY <1>1, <1>2 DEF Line, Lines
  <2> QED  BY <1>a, <2>1, Zenon
<1>6. /\ arr' \in [Sets -> Lines] /\ arr'[mreq.set] = Line(~inhibit, FALSE, mreq.tag, d)
      /\ \A i \in Sets : i # mreq.set => arr'[i] = arr[i]
  BY <1>1, <1>3, <1>5 DEF ArrayType
<1>7. arr'[mreq.set].valid <=> ~inhibit
  BY <1>5, <1>6, Zenon
<1>8. ~arr'[mreq.set].dirty /\ arr'[mreq.set].tag = mreq.tag /\ arr'[mreq.set].data = d
  BY <1>5, <1>6
<1>9. mem' \in [Sets \X Tags -> Datas]
  BY <1>1 DEF MemReply, ArrayType
<1>10. mreq' \in MemReqs /\ inhibit' \in BOOLEAN /\ ~inhibit'
  BY Consts DEF MemReply
<1>11. /\ mreq.op = "LW" => mem' = mem
       /\ mreq.op = "SW" => mem' = [mem EXCEPT ![<<mreq.set, mreq.tag>>] = mreq.data]
  BY DEF MemReply
<1> QED  BY <1>1, <1>2, <1>6, <1>7, <1>8, <1>9, <1>10, <1>11

LEMMA MemWaitsType ==
    ASSUME ArrayType, MemWaits
    PROVE  /\ arr' = arr /\ mem' = mem /\ inhibit' = inhibit
           /\ mreq' \in MemReqs
           /\ mreq'.op = mreq.op /\ mreq'.set = mreq.set /\ mreq'.tag = mreq.tag /\ mreq'.data = mreq.data
           /\ mreq'.st = "no" <=> mreq.st = "no"
<1>1. /\ mreq \in MemReqs /\ mreq.op \in {"LW", "SW"} /\ mreq.set \in Sets /\ mreq.tag \in Tags /\ mreq.data \in Datas
      /\ "wait" \in {"no", "ask", "wait"}
  BY DEF ArrayType, MemReqs
<1>2. CASE mreq.st = "ask"
  <2>1. mreq' = MemReq("wait", mreq.op, mreq.set, mreq.tag, mreq.data)
    BY <1>2 DEF MemWaits
  <2>2. mreq' \in MemReqs
    BY <1>1, <2>1, MemReqType
  <2> QED  BY <1>2, <2>1, <2>2 DEF MemReq, MemWaits
<1>3. CASE mreq.st # "ask"
  BY <1>1, <1>3 DEF MemWaits
<1> QED  BY <1>2, <1>3

LEMMA WriteBackType ==
    ASSUME ArrayType, PortType
    PROVE  /\ WriteBack \in MemReqs /\ WriteBack.st = "ask" /\ WriteBack.op = "SW" /\ WriteBack.set = p1.idx
           /\ WriteBack.tag = p1.out.tag /\ WriteBack.data = p1.out.data
<1>1. p1.idx \in Sets /\ p1.out.tag \in Tags /\ p1.out.data \in Datas
  BY DEF PortType, Ports, Lines
<1>2. "ask" \in {"no", "ask", "wait"} /\ "SW" \in {"LW", "SW"}
  OBVIOUS
<1>3. WriteBack \in MemReqs
  BY <1>1, <1>2, MemReqType DEF WriteBack
<1> QED  BY <1>3 DEF WriteBack, MemReq

LEMMA ArrayDataType ==
    ASSUME TypeInv, p1.got
    PROVE  /\ t_array_data \in Datas /\ Word(p1.req) \in Words /\ p1.req.k \in 1 .. Len(prog)
           /\ t_array_data[Word(p1.req)] = p1.req.k
           /\ \A w \in Words : w # Word(p1.req) => t_array_data[w] = p1.out.data[w]
<1>1. p1.req \in LiveReqs /\ p1.out.data \in Datas /\ Len(prog) \in Nat
  BY ProgFacts DEF TypeInv, PortType, Busy1, Ports, Lines
<1>2. p1.req.k \in 1 .. Len(prog) /\ Word(p1.req) \in Words
  BY <1>1, ProgFacts DEF TypeInv, LiveReqs
<1>3. p1.req.k \in Values
  BY <1>1, <1>2 DEF Values
<1> QED  BY <1>1, <1>2, <1>3 DEF t_array_data, Datas

\* What the three kinds of write leave in the arrays.
LEMMA ActiveWrites ==
    ASSUME TypeInv, DoActive
    PROVE  /\ arr' \in [Sets -> Lines]
           /\ ~t_wr_array => arr' = arr
           /\ t_wr_array =>
                 /\ p1.got /\ p1.idx \in Sets
                 /\ arr'[p1.idx].valid = arr[p1.idx].valid /\ arr'[p1.idx].dirty
                 /\ arr'[p1.idx].tag = arr[p1.idx].tag /\ arr'[p1.idx].data = t_array_data
                 /\ \A i \in Sets : i # p1.idx => arr'[i] = arr[i]
<1>1. CASE t_wr_array
  <2>1. Write(p1.idx, arr[p1.idx].valid, TRUE, t_array_data)
    BY <1>1 DEF DoActive
  <2>2. p1.got /\ p1.idx \in Sets
    BY <1>1 DEF t_wr_array, Hit1, TypeInv, PortType, Ports
  <2>3. arr \in [Sets -> Lines] /\ arr[p1.idx].valid \in BOOLEAN /\ arr[p1.idx].tag \in Tags
    BY <2>2 DEF TypeInv, ArrayType, Lines
  <2>4. t_array_data \in Datas
    BY <2>2, ArrayDataType
  <2> DEFINE l == Line(arr[p1.idx].valid, TRUE, arr[p1.idx].tag, t_array_data)
  <2>5. /\ l \in Lines /\ l.valid = arr[p1.idx].valid /\ l.dirty /\ l.tag = arr[p1.idx].tag
        /\ l.data = t_array_data
    BY <2>3, <2>4 DEF Line, Lines
  <2>6. arr' = [arr EXCEPT ![p1.idx] = l]
    BY <2>1 DEF Write
  <2> HIDE DEF l
  <2> QED  BY <1>1, <2>2, <2>3, <2>5, <2>6
<1>2. CASE ~t_wr_array
  BY <1>2 DEF DoActive, TypeInv, ArrayType
<1> QED  BY <1>1, <1>2

LEMMA Invalidates ==
    ASSUME TypeInv, MarkInvalid
    PROVE  /\ arr' \in [Sets -> Lines] /\ p1.idx \in Sets
           /\ ~arr'[p1.idx].valid /\ arr'[p1.idx].dirty = arr[p1.idx].dirty
           /\ \A i \in Sets : i # p1.idx => arr'[i] = arr[i]
<1>1. p1.idx \in Sets /\ arr \in [Sets -> Lines]
  BY DEF TypeInv, PortType, ArrayType, Ports
<1>2. arr[p1.idx].dirty \in BOOLEAN /\ arr[p1.idx].tag \in Tags /\ arr[p1.idx].data \in Datas
  BY <1>1 DEF Lines
<1> DEFINE l == Line(FALSE, arr[p1.idx].dirty, arr[p1.idx].tag, arr[p1.idx].data)
<1>3. l \in Lines /\ ~l.valid /\ l.dirty = arr[p1.idx].dirty
  BY <1>2 DEF Line, Lines
<1>4. arr' = [arr EXCEPT ![p1.idx] = l]
  BY DEF MarkInvalid, Write
<1> HIDE DEF l
<1> QED  BY <1>1, <1>3, <1>4

LEMMA GraduatedType ==
    ASSUME ArrayType
    PROVE  NextGraduated \in [Slots -> 0 .. 2]
BY DEF NextGraduated, ArrayType

LEMMA ArraysKeepType ==
    ASSUME TypeInv, WalkOK, Cache, UNCHANGED prog
    PROVE  ArrayType'
<1>1. /\ Datas' = Datas /\ Lines' = Lines /\ MemReqs' = MemReqs
  BY TypesKept
<1>2. ArrayType /\ PortType /\ CoreType
  BY DEF TypeInv
<1>3. graduated' \in [Slots -> 0 .. 2]
  BY <1>2, GraduatedType DEF Cache, Registers
<1>4. flush_req' \in BOOLEAN /\ flush_cl_req' \in BOOLEAN /\ memq_empty' \in BOOLEAN
  BY Zenon DEF Cache, Registers, NextMemqEmpty
<1>5. /\ state' \in States /\ arr' \in [Sets -> Lines] /\ mem' \in [Sets \X Tags -> Datas] /\ mreq' \in MemReqs
      /\ lock' \in BOOLEAN /\ reload_issue' \in BOOLEAN /\ inhibit' \in BOOLEAN /\ flush_complete' \in BOOLEAN
  <2>1. CASE DoActive
    <3>1. state' \in States /\ mem' \in [Sets \X Tags -> Datas]
      BY <1>2, <2>1 DEF DoActive, States, ArrayType
    <3>2. arr' \in [Sets -> Lines]
      BY <2>1, ActiveWrites
    <3>3. mreq' \in MemReqs
      <4>1. WriteBack \in MemReqs /\ mreq \in MemReqs
        BY <1>2, WriteBackType DEF ArrayType
      <4>2. t_got_miss => MemReq("ask", "LW", p1.idx, Tag(p1.req), Fill(0)) \in MemReqs
        <5>1. t_got_miss => p1.idx \in Sets /\ Tag(p1.req) \in Tags
          BY <1>2, ProgFacts DEF t_got_miss, PortType, Ports, Busy1, LiveReqs
        <5> QED  BY <1>2, <5>1, Consts, MemReqType
      <4> QED  BY <2>1, <4>1, <4>2 DEF DoActive, Reloads
    <3>4. lock' \in BOOLEAN /\ inhibit' \in BOOLEAN
      <4>1. DirtyMiss \in BOOLEAN
        BY Zenon DEF DirtyMiss
      <4> QED  BY <1>2, <2>1, <4>1, Zenon DEF DoActive, ArrayType
    <3>5. reload_issue' \in BOOLEAN /\ flush_complete' \in BOOLEAN
      BY <2>1, Zenon DEF DoActive
    <3> QED  BY <3>1, <3>2, <3>3, <3>4, <3>5
  <2>2. CASE DoInjectReload
    BY <1>2, <2>2, MemReplyType, MemWaitsType DEF DoInjectReload, States, ArrayType
  <2>3. CASE DoHandleReload
    BY <1>2, <2>3 DEF DoHandleReload, States, ArrayType
  <2>4. CASE DoFlushCl
    BY <1>2, <2>4, Invalidates, WriteBackType DEF DoFlushCl, States, ArrayType
  <2>5. CASE DoFlushClWait
    BY <1>2, <2>5, MemReplyType, MemWaitsType DEF DoFlushClWait, States, ArrayType
  <2>6. CASE DoFlushCache
    BY <1>2, <2>6, Invalidates, WriteBackType DEF DoFlushCache, States, ArrayType
  <2>7. CASE DoFlushCacheWait
    BY <1>2, <2>7, MemReplyType, MemWaitsType DEF DoFlushCacheWait, States, ArrayType
  <2> QED  BY <2>1, <2>2, <2>3, <2>4, <2>5, <2>6, <2>7 DEF Cache
<1> QED  BY <1>1, <1>3, <1>4, <1>5 DEF ArrayType

-----------------------------------------------------------------------------
(* The queues and the reorder buffer.                                      *)

\* Slots are handed out in a ring.
Wrap(n) == IF n >= N_ROB THEN n - N_ROB ELSE n

LEMMA ModWrap ==
    ASSUME NEW t \in Slots
    PROVE  /\ (t + 0) % N_ROB = t
           /\ (t + 1) % N_ROB = Wrap(t + 1)
           /\ Wrap(t + 1) \in Slots
<1>1. N_ROB \in Nat /\ N_ROB > 0 /\ t \in 0 .. (N_ROB - 1)
  BY L1DAssumption DEF Slots
<1>2. (t + 0) % N_ROB = t
  BY <1>1
<1>3. CASE t + 1 < N_ROB
  BY <1>1, <1>2, <1>3 DEF Wrap, Slots
<1>4. CASE t + 1 = N_ROB
  <2>1. N_ROB % N_ROB = 0
    BY <1>1
  <2> QED  BY <1>1, <1>2, <1>4, <2>1 DEF Wrap, Slots
<1> QED  BY <1>1, <1>2, <1>3, <1>4

LEMMA Concat ==
    ASSUME NEW S, NEW t \in Seq(S), NEW b \in Seq(S)
    PROVE  /\ t \o b \in Seq(S) /\ Len(t \o b) = Len(t) + Len(b)
           /\ \A i \in 1 .. (Len(t) + Len(b)) : (t \o b)[i] = IF i <= Len(t) THEN t[i] ELSE b[i - Len(t)]
<1>1. t \o b \in Seq(S) /\ Len(t \o b) = Len(t) + Len(b)
  OBVIOUS
<1>2. ASSUME NEW i \in 1 .. (Len(t) + Len(b))
      PROVE  (t \o b)[i] = IF i <= Len(t) THEN t[i] ELSE b[i - Len(t)]
  OBVIOUS
<1> QED  BY <1>1, <1>2

\* Seen from the first a elements on, by its length and its elements.
Slid(s, a, new, b, t) ==
    /\ Len(t) = (Len(s) - a) + (IF new THEN 1 ELSE 0)
    /\ \A i \in 1 .. (Len(s) - a) : t[i] = s[i + a]
    /\ new => t[(Len(s) - a) + 1] = b

LEMMA TailSlides ==
    ASSUME NEW S, NEW s \in Seq(S), NEW x \in S, NEW pop \in BOOLEAN, NEW push \in BOOLEAN, pop => s # <<>>
    PROVE  /\ (IF pop THEN Tail(s) ELSE s) \o (IF push THEN <<x>> ELSE <<>>) \in Seq(S)
           /\ Slid(s, IF pop THEN 1 ELSE 0, push, x, (IF pop THEN Tail(s) ELSE s) \o (IF push THEN <<x>> ELSE <<>>))
<1> DEFINE a == IF pop THEN 1 ELSE 0
           b == IF push THEN <<x>> ELSE <<>>
           t == IF pop THEN Tail(s) ELSE s
<1>1. b \in Seq(S) /\ Len(b) = (IF push THEN 1 ELSE 0) /\ (push => b[1] = x)
  OBVIOUS
<1>2. a \in 0 .. Len(s)
  OBVIOUS
<1>3. t \in Seq(S) /\ Len(t) = Len(s) - a /\ \A i \in 1 .. (Len(s) - a) : t[i] = s[i + a]
  OBVIOUS
<1> HIDE DEF a, b, t
<1>4. /\ t \o b \in Seq(S) /\ Len(t \o b) = Len(t) + Len(b)
      /\ \A i \in 1 .. (Len(t) + Len(b)) : (t \o b)[i] = IF i <= Len(t) THEN t[i] ELSE b[i - Len(t)]
  BY <1>1, <1>3, Concat
<1>5. Len(t) \in Nat /\ Len(b) \in Nat /\ Len(t) = Len(s) - a
  BY <1>1, <1>3
<1>6. \A i \in 1 .. (Len(s) - a) : (t \o b)[i] = s[i + a]
  BY <1>3, <1>4, <1>5
<1>7. push => (t \o b)[(Len(s) - a) + 1] = x
  <2>1. push => Len(t) + 1 \in 1 .. (Len(t) + Len(b)) /\ ~(Len(t) + 1 <= Len(t)) /\ (Len(t) + 1) - Len(t) = 1
    BY <1>1, <1>5
  <2> QED  BY <1>1, <1>3, <1>4, <2>1
<1>8. Slid(s, a, push, x, t \o b)
  BY <1>1, <1>4, <1>5, <1>6, <1>7 DEF Slid
<1> QED  BY <1>4, <1>8 DEF a, b, t

LEMMA LeastNatural ==
    ASSUME NEW T, T \subseteq Nat, T # {}
    PROVE  \E n \in T : \A m \in T : n <= m
<1>1. PICK n \in T : \A m \in T : ~(<<m, n>> \in OpToRel(<, Nat))
  BY NatLessThanWellFounded, WFMin
<1>2. \A m \in T : ~(m < n)
  BY <1>1 DEF OpToRel
<1> QED  BY <1>2

\* A nonempty set of positions has a last one.
LEMMA LastPosition ==
    ASSUME NEW N \in Nat, NEW T, T \subseteq 1 .. N, T # {}
    PROVE  \E n \in T : \A m \in T : m <= n
<1> DEFINE U == {N - i : i \in T}
<1>1. U \subseteq Nat /\ U # {}
  <2>1. \A i \in T : N - i \in Nat
    OBVIOUS
  <2>2. PICK j : j \in T
    OBVIOUS
  <2>3. N - j \in U
    BY <2>2
  <2> QED  BY <2>1, <2>3
<1>2. PICK u \in U : \A v \in U : u <= v
  <2> HIDE DEF U
  <2> QED  BY <1>1, LeastNatural
<1>3. PICK n \in T : u = N - n
  BY <1>2
<1>4. ASSUME NEW m \in T PROVE m <= n
  <2>1. N - m \in U
    OBVIOUS
  <2>2. N - n <= N - m
    BY <1>2, <1>3, <2>1
  <2> QED  BY <2>2
<1> QED  BY <1>4

\* The stores of the buffer to the word of the next operation.
SameWord == {i \in DOMAIN rob : IsStore(rob[i]) /\ Set(rob[i]) = prog[pc].set
                                /\ Tag(rob[i]) = prog[pc].tag /\ Word(rob[i]) = prog[pc].word}

LEMMA CurrentIs ==
    ASSUME CoreType
    PROVE  /\ SameWord = {} => Current = commit[<<prog[pc].set, prog[pc].tag>>][prog[pc].word]
           /\ SameWord # {} => \E i \in SameWord : Current = rob[i].k /\ \A j \in SameWord : j <= i
<1>1. Current = IF SameWord = {} THEN commit[<<prog[pc].set, prog[pc].tag>>][prog[pc].word]
                ELSE rob[CHOOSE i \in SameWord : \A j \in SameWord : j <= i].k
  BY DEF Current, SameWord
<1>2. SameWord \subseteq 1 .. Len(rob) /\ Len(rob) \in Nat
  BY DEF SameWord, CoreType
<1>3. SameWord # {} => \E i \in SameWord : \A j \in SameWord : j <= i
  BY <1>2, LastPosition
<1> QED  BY <1>1, <1>3

LEMMA SendTypes ==
    ASSUME CoreType, NEW is \in BOOLEAN, Sends(is), CanSend
    PROVE  NewReq \in LiveReqs /\ NewEntry \in Entries /\ pc \in 1 .. Len(prog)
<1>1. pc \in 1 .. Len(prog) /\ Len(prog) \in Nat
  BY ProgFacts DEF CanSend, CoreType
<1>2. prog[pc].set \in Sets /\ prog[pc].tag \in Tags /\ prog[pc].word \in Words
  BY <1>1, ProgFacts
<1>3. Current \in Values
  <2>1. CASE SameWord = {}
    BY <1>2, <2>1, CurrentIs DEF CoreType, Datas
  <2>2. CASE SameWord # {}
    <3>1. PICK i \in SameWord : Current = rob[i].k
      BY <2>2, CurrentIs
    <3>2. rob[i] \in Entries
      BY DEF SameWord, CoreType
    <3> QED  BY <1>1, <3>1, <3>2 DEF Entries, Values
  <2> QED  BY <2>1, <2>2
<1>4. tail \in Slots /\ squashes \in 0 .. MaxSquash
  BY DEF CoreType
<1> QED  BY <1>1, <1>3, <1>4 DEF NewReq, NewEntry, LiveReqs, Entries

LEMMA MarkFacts ==
    ASSUME NEW e \in Entries
    PROVE  /\ Mark(e) \in Entries
           /\ Mark(e).slot = e.slot /\ Mark(e).k = e.k /\ Mark(e).ep = e.ep
           /\ Mark(e).done <=> e.done \/ (core_mem_rsp_valid /\ e.slot = rsp_req.slot)
<1> DEFINE d == e.done \/ (core_mem_rsp_valid /\ e.slot = rsp_req.slot)
<1>1. d \in BOOLEAN
  OBVIOUS
<1>2. Mark(e) = [slot |-> e.slot, k |-> e.k, ep |-> e.ep, done |-> d]
  BY DEF Mark
<1> HIDE DEF d
<1>3. Mark(e) \in Entries /\ Mark(e).slot = e.slot /\ Mark(e).k = e.k /\ Mark(e).ep = e.ep /\ Mark(e).done = d
  BY <1>1, <1>2 DEF Entries
<1> QED  BY <1>3 DEF d

\* The reorder buffer after a clock.
RobStep(n, send, rs) ==
    /\ n \in 0 .. 2 /\ n <= Len(rob) /\ rob' \in Seq(Entries)
    /\ rs => rob' = <<>> /\ n = 0 /\ ~send /\ tail' = 0
    /\ ~rs => /\ Len(rob') = (Len(rob) - n) + (IF send THEN 1 ELSE 0)
              /\ \A i \in 1 .. (Len(rob) - n) : rob'[i] = Mark(rob[i + n])
              /\ send => rob'[(Len(rob) - n) + 1] = NewEntry
              /\ tail' = IF send THEN Wrap(tail + 1) ELSE tail

LEMMA RobMoves ==
    ASSUME CoreType, NEW n \in 0 .. 2, NEW is \in BOOLEAN, NEW sq \in BOOLEAN, NEW rs \in BOOLEAN,
           CoreStep(n, is, sq, rs)
    PROVE  RobStep(n, Sends(is), rs)
<1>1. /\ n <= Len(rob) /\ (n > 0 => ~ds_done) /\ (is => CanSend) /\ (rs => ds_done /\ drain /\ memq_empty)
  BY DEF CoreStep, Retirable
<1>2. Sends(is) => is
  BY DEF Sends
<1>3. rs => n = 0 /\ ~is
  BY <1>1 DEF CanSend
<1>4. rob' = IF rs THEN <<>>
             ELSE Marked(SubSeq(rob, n + 1, Len(rob))) \o (IF Sends(is) THEN <<NewEntry>> ELSE <<>>)
  BY DEF CoreStep
<1>5. tail' = IF rs THEN 0 ELSE (tail + Bit(Sends(is))) % N_ROB
  BY DEF CoreStep
<1>6. tail \in Slots
  BY DEF CoreType
<1>7. tail' = IF rs THEN 0 ELSE IF Sends(is) THEN Wrap(tail + 1) ELSE tail
  BY <1>5, <1>6, ModWrap DEF Bit
<1>8. CASE rs
  <2>1. rob' = <<>> /\ rob' \in Seq(Entries)
    BY <1>4, <1>8
  <2> QED  BY <1>1, <1>2, <1>3, <1>7, <1>8, <2>1 DEF RobStep
<1>9. CASE ~rs
  <2> DEFINE left == SubSeq(rob, n + 1, Len(rob))
             m == Marked(left)
             b == IF Sends(is) THEN <<NewEntry>> ELSE <<>>
  <2>1. left \in Seq(Entries) /\ Len(left) = Len(rob) - n /\ \A i \in 1 .. (Len(rob) - n) : left[i] = rob[i + n]
    BY <1>1 DEF CoreType
  <2> HIDE DEF left
  <2>2. m \in Seq(Entries) /\ Len(m) = Len(rob) - n /\ \A i \in 1 .. (Len(rob) - n) : m[i] = Mark(rob[i + n])
    <3>0. Len(left) \in Nat
      BY <2>1
    <3>1. \A i \in 1 .. Len(left) : left[i] \in Entries
      BY <2>1
    <3>2. m \in [1 .. Len(left) -> Entries] /\ \A i \in 1 .. Len(left) : m[i] = Mark(left[i])
      BY <3>1, MarkFacts DEF Marked
    <3> HIDE DEF m
    <3>3. m \in Seq(Entries) /\ Len(m) = Len(left)
      BY <3>0, <3>2
    <3> QED  BY <2>1, <3>2, <3>3
  <2> HIDE DEF m
  <2>3. b \in Seq(Entries) /\ Len(b) = (IF Sends(is) THEN 1 ELSE 0) /\ (Sends(is) => b[1] = NewEntry)
    <3>1. Sends(is) => NewEntry \in Entries
      BY <1>1, <1>2, SendTypes
    <3> QED  BY <3>1
  <2> HIDE DEF b
  <2>4. /\ m \o b \in Seq(Entries) /\ Len(m \o b) = Len(m) + Len(b)
        /\ \A i \in 1 .. (Len(m) + Len(b)) : (m \o b)[i] = IF i <= Len(m) THEN m[i] ELSE b[i - Len(m)]
    BY <2>2, <2>3, Concat
  <2>5. rob' = m \o b
    BY <1>4, <1>9 DEF left, m, b
  <2>6. Len(m) \in Nat /\ Len(b) \in Nat
    BY <2>2, <2>3
  <2>7. \A i \in 1 .. (Len(rob) - n) : rob'[i] = Mark(rob[i + n])
    BY <2>2, <2>4, <2>5, <2>6
  <2>8. Sends(is) => rob'[(Len(rob) - n) + 1] = NewEntry
    <3>1. Sends(is) => Len(m) + 1 \in 1 .. (Len(m) + Len(b)) /\ ~(Len(m) + 1 <= Len(m)) /\ (Len(m) + 1) - Len(m) = 1
      BY <2>3, <2>6
    <3> QED  BY <2>2, <2>3, <2>4, <2>5, <3>1
  <2>9. Len(rob') = (Len(rob) - n) + (IF Sends(is) THEN 1 ELSE 0)
    BY <2>2, <2>3, <2>4, <2>5
  <2> QED  BY <1>1, <1>7, <1>9, <2>4, <2>5, <2>7, <2>8, <2>9 DEF RobStep
<1> QED  BY <1>8, <1>9

\* exec's queue after a clock, and the miss queue.
QStep(send) == q' \in Seq(LiveReqs) /\ Slid(q, IF core_mem_req_ack THEN 1 ELSE 0, send, NewReq, q')
MqStep == mq' \in Seq(LiveReqs) /\ Slid(mq, IF t_pop_mq THEN 1 ELSE 0, t_push_miss, p2.req, mq')

LEMMA QMoves ==
    ASSUME CoreType, NEW n \in 0 .. 2, NEW is \in BOOLEAN, NEW sq \in BOOLEAN, NEW rs \in BOOLEAN,
           CoreStep(n, is, sq, rs)
    PROVE  QStep(Sends(is))
<1>1. q' = (IF core_mem_req_ack THEN Tail(q) ELSE q) \o (IF Sends(is) THEN <<NewReq>> ELSE <<>>)
  BY DEF CoreStep
<1>2. core_mem_req_ack \in BOOLEAN /\ Sends(is) \in BOOLEAN /\ (core_mem_req_ack => q # <<>>)
  BY Zenon DEF core_mem_req_ack, Sends
<1>3. Sends(is) => NewReq \in LiveReqs
  BY SendTypes DEF CoreStep, Sends
<1>4. q \in Seq(LiveReqs)
  BY DEF CoreType
<1>5. CASE Sends(is)
  BY <1>1, <1>2, <1>3, <1>4, <1>5, TailSlides DEF QStep
<1>6. CASE ~Sends(is)
  <2>1. q' = (IF core_mem_req_ack THEN Tail(q) ELSE q) \o <<>>
    BY <1>1, <1>6
  <2>2. CASE core_mem_req_ack
    BY <1>2, <1>4, <1>6, <2>1, <2>2 DEF QStep, Slid
  <2>3. CASE ~core_mem_req_ack
    BY <1>4, <1>6, <2>1, <2>3 DEF QStep, Slid
  <2> QED  BY <2>2, <2>3
<1> QED  BY <1>5, <1>6

LEMMA MqMoves ==
    ASSUME CoreType, PortType, Registers
    PROVE  MqStep
<1>1. mq' = (IF t_pop_mq THEN Tail(mq) ELSE mq) \o (IF t_push_miss THEN <<p2.req>> ELSE <<>>)
  BY DEF Registers
<1>2. t_pop_mq \in BOOLEAN /\ t_push_miss \in BOOLEAN
  BY Zenon DEF t_pop_mq, t_push_miss
<1>3. (t_pop_mq => mq # <<>>) /\ (t_push_miss => p2.got)
  BY DEF t_pop_mq, t_got_rd_retry, FiresStore, t_force_clear_busy, Served, t_push_miss, t_incr_busy
<1>4. mq \in Seq(LiveReqs) /\ (t_push_miss => p2.req \in LiveReqs)
  BY <1>3 DEF CoreType, PortType
<1>5. CASE t_push_miss
  BY <1>1, <1>2, <1>3, <1>4, <1>5, TailSlides DEF MqStep
<1>6. CASE ~t_push_miss
  <2>1. mq' = (IF t_pop_mq THEN Tail(mq) ELSE mq) \o <<>>
    BY <1>1, <1>6
  <2>2. CASE t_pop_mq
    BY <1>3, <1>4, <1>6, <2>1, <2>2 DEF MqStep, Slid
  <2>3. CASE ~t_pop_mq
    BY <1>4, <1>6, <2>1, <2>3 DEF MqStep, Slid
  <2> QED  BY <2>2, <2>3
<1> QED  BY <1>5, <1>6

\* A flush of the core's program counter stands at a flush.
FlushAt == fl # "no" => pc <= Len(prog)

LEMMA CommitType ==
    ASSUME CoreType, NEW c \in [Sets \X Tags -> Datas], NEW i \in 1 .. Len(rob)
    PROVE  /\ Commit(c, rob[i]) \in [Sets \X Tags -> Datas]
           /\ \A s \in Sets, t \in Tags, w \in Words :
                 Commit(c, rob[i])[<<s, t>>][w] =
                    IF IsStore(rob[i]) /\ Set(rob[i]) = s /\ Tag(rob[i]) = t /\ Word(rob[i]) = w THEN rob[i].k
                    ELSE c[<<s, t>>][w]
<1>1. rob[i] \in Entries /\ Len(prog) \in Nat
  BY ProgFacts DEF CoreType
<1>2. Set(rob[i]) \in Sets /\ Tag(rob[i]) \in Tags /\ Word(rob[i]) \in Words /\ rob[i].k \in Values
  BY <1>1, ProgFacts DEF Entries, Values
<1> DEFINE a == <<Set(rob[i]), Tag(rob[i])>>
           d == [c[a] EXCEPT ![Word(rob[i])] = rob[i].k]
<1>3. a \in Sets \X Tags /\ c[a] \in Datas
  BY <1>2
<1>4. /\ d \in Datas /\ d[Word(rob[i])] = rob[i].k
      /\ \A w \in Words : w # Word(rob[i]) => d[w] = c[a][w]
  BY <1>2, <1>3 DEF Datas
<1>5. Commit(c, rob[i]) = IF IsStore(rob[i]) THEN [c EXCEPT ![a] = d] ELSE c
  BY DEF Commit
<1> HIDE DEF d
<1>6. [c EXCEPT ![a] = d] \in [Sets \X Tags -> Datas]
  BY <1>3, <1>4
<1>7. ASSUME NEW s \in Sets, NEW t \in Tags, NEW w \in Words, IsStore(rob[i])
      PROVE  Commit(c, rob[i])[<<s, t>>][w] =
                    IF Set(rob[i]) = s /\ Tag(rob[i]) = t /\ Word(rob[i]) = w THEN rob[i].k ELSE c[<<s, t>>][w]
  <2>1. CASE <<s, t>> = a
    <3>1. Commit(c, rob[i])[<<s, t>>] = d /\ Set(rob[i]) = s /\ Tag(rob[i]) = t
      BY <1>3, <1>5, <1>7, <2>1
    <3> QED  BY <1>2, <1>4, <2>1, <3>1
  <2>2. CASE <<s, t>> # a
    BY <1>3, <1>5, <1>7, <2>2
  <2> QED  BY <2>1, <2>2
<1> QED  BY <1>5, <1>6, <1>7

LEMMA CoreKeepsType ==
    ASSUME TypeInv, Inv', FlushAt, Registers, NEW n \in 0 .. 2, NEW is \in BOOLEAN, NEW sq \in BOOLEAN,
           NEW rs \in BOOLEAN, CoreStep(n, is, sq, rs)
    PROVE  CoreType'
<1>1. CoreType /\ PortType
  BY DEF TypeInv
<1>2. UNCHANGED prog /\ LiveReqs' = LiveReqs /\ Entries' = Entries /\ Datas' = Datas
  <2>1. UNCHANGED prog
    BY DEF CoreStep
  <2> QED  BY <2>1, TypesKept
<1>3. RobStep(n, Sends(is), rs) /\ QStep(Sends(is)) /\ MqStep
  BY <1>1, RobMoves, QMoves, MqMoves
<1>4. Sends(is) => CanSend /\ is
  BY DEF CoreStep, Sends
<1>5. mq' \in Seq(LiveReqs) /\ Len(mq') <= N_MRQ
  BY <1>3 DEF MqStep, Inv
<1>6. /\ Len(q) \in Nat /\ Len(rob) \in Nat /\ Len(prog) \in Nat /\ N_MQ \in Nat /\ N_ROB \in Nat
      /\ Len(q) <= N_MQ /\ Len(rob) <= N_ROB
  BY <1>1, ProgFacts, L1DAssumption DEF CoreType
<1>7. Sends(is) => Len(q) < N_MQ /\ Len(rob) < N_ROB
  BY <1>4 DEF CanSend, Sends
<1>8. q' \in Seq(LiveReqs) /\ Len(q') <= N_MQ
  <2>1. q' \in Seq(LiveReqs) /\ Len(q') = (Len(q) - (IF core_mem_req_ack THEN 1 ELSE 0)) + (IF Sends(is) THEN 1 ELSE 0)
    BY <1>3 DEF QStep, Slid
  <2> QED  BY <1>6, <1>7, <2>1
<1>9. rob' \in Seq(Entries) /\ Len(rob') <= N_ROB
  <2>1. CASE rs
    BY <1>3, <1>6, <2>1 DEF RobStep
  <2>2. CASE ~rs
    BY <1>3, <1>6, <1>7, <2>2 DEF RobStep
  <2> QED  BY <2>1, <2>2
<1>10. tail' \in Slots
  <2>1. tail \in Slots /\ 0 \in Slots
    BY <1>1, Consts DEF CoreType
  <2>2. Wrap(tail + 1) \in Slots
    BY <2>1, ModWrap
  <2> QED  BY <1>3, <2>1, <2>2 DEF RobStep
<1>11. pc' \in 1 .. Len(prog) + 1
  <2>1. pc \in 1 .. Len(prog) + 1 /\ (rob # <<>> => rob[1].k \in 1 .. Len(prog))
    <3>1. rob # <<>> => rob[1] \in Entries
      BY <1>1 DEF CoreType
    <3> QED  BY <1>1, <3>1 DEF CoreType, Entries
  <2>2. Sends(is) \/ fl = "wait" => pc <= Len(prog)
    BY <1>4 DEF CanSend, FlushAt
  <2>3. \/ pc' = IF Sends(is) \/ (fl = "wait" /\ flush_complete) THEN pc + 1 ELSE pc
        \/ rs /\ rob # <<>> /\ pc' = rob[1].k
    BY DEF CoreStep
  <2> QED  BY <1>6, <2>1, <2>2, <2>3
<1>12. retired' \subseteq Slots
  <2>1. \A i \in 1 .. n : rob[i] \in Entries
    BY <1>1, <1>3 DEF RobStep, CoreType
  <2>2. \A i \in 1 .. n : rob[i].slot \in Slots
    BY <2>1 DEF Entries
  <2>3. retired' = {rob[i].slot : i \in 1 .. n}
    BY DEF CoreStep
  <2> QED  BY <2>2, <2>3
<1>13. squashes' \in 0 .. MaxSquash
  <2>1. squashes \in 0 .. MaxSquash /\ MaxSquash \in Nat
    BY <1>1, L1DAssumption DEF CoreType
  <2>2. squashes' = (IF sq THEN squashes + 1 ELSE squashes) /\ (sq => squashes < MaxSquash)
    BY DEF CoreStep
  <2> QED  BY <2>1, <2>2
<1>14. ds_done' \in BOOLEAN /\ drain' \in BOOLEAN
  BY <1>1, Zenon DEF CoreStep, CoreType
<1>15. commit' \in [Sets \X Tags -> Datas]
  <2>1. commit \in [Sets \X Tags -> Datas]
    BY <1>1 DEF CoreType
  <2>2. CASE n = 0
    BY <2>1, <2>2 DEF CoreStep
  <2>3. CASE n = 1
    <3>1. 1 \in 1 .. Len(rob)
      BY <1>3, <1>6, <2>3 DEF RobStep
    <3> QED  BY <1>1, <2>1, <2>3, <3>1, CommitType DEF CoreStep
  <2>4. CASE n = 2
    <3>1. 1 \in 1 .. Len(rob) /\ 2 \in 1 .. Len(rob)
      BY <1>3, <1>6, <2>4 DEF RobStep
    <3>2. Commit(commit, rob[1]) \in [Sets \X Tags -> Datas]
      BY <1>1, <2>1, <3>1, CommitType
    <3>3. Commit(Commit(commit, rob[1]), rob[2]) \in [Sets \X Tags -> Datas]
      BY <1>1, <3>1, <3>2, CommitType
    <3> QED  BY <2>4, <3>3 DEF CoreStep
  <2> QED  BY <2>2, <2>3, <2>4
<1>16. fl' \in {"no", "flush", "flushcl", "wait"}
  <2>1. is /\ ~Sends(is) => prog[pc].op \in {"flush", "flushcl"}
    BY DEF Sends
  <2> QED  BY <1>1, <2>1 DEF CoreStep, CoreType
<1>17. prog' \in Programs /\ Len(prog') = Len(prog)
  BY <1>1, <1>2 DEF CoreType
<1> QED  BY <1>2, <1>5, <1>8, <1>9, <1>10, <1>11, <1>12, <1>13, <1>14, <1>15, <1>16, <1>17 DEF CoreType

-----------------------------------------------------------------------------
(* The flow of the requests: exec's queue, port 2, the miss queue, port 1. *)

\* The entries before the ones in exec's queue have been accepted.
NAcc == Len(rob) - Len(q)
Owns(i, r) == rob[i].slot = r.slot /\ rob[i].k = r.k /\ rob[i].ep = r.ep
InRob(r) == \E i \in 1 .. NAcc : Owns(i, r)
Owned(r) == \E i \in 1 .. NAcc : Owns(i, r) /\ ~rob[i].done

\* Older than everything in the buffer, or than what is still to be accepted.
Gone(r) == r.k < pc /\ \A i \in 1 .. Len(rob) : r.k < rob[i].k
Before(r) == r.k < pc /\ \A i \in NAcc + 1 .. Len(rob) : r.k < rob[i].k

\* The slots of the buffer are consecutive in the ring; a slot that has just
\* been retired is not in use again.
RingInv ==
    /\ \E h \in Slots : /\ \A i \in 1 .. Len(rob) : rob[i].slot = Wrap((h + i) - 1)
                        /\ tail = Wrap(h + Len(rob))
    /\ \A s \in retired : \A i \in 1 .. Len(rob) : rob[i].slot # s
    /\ drain => retired = {}
    /\ drain /\ ~ds_done => rob = <<>>

\* exec's queue is the end of the buffer.
MirrorInv ==
    /\ Len(q) <= Len(rob)
    /\ \A i \in 1 .. Len(q) : Owns(NAcc + i, q[i]) /\ ~rob[NAcc + i].done

\* Requests are in the order of the program everywhere.
OrderInv ==
    /\ \A i, j \in 1 .. Len(rob) : i < j => rob[i].k < rob[j].k
    /\ \A i \in 1 .. Len(rob) : rob[i].k < pc
    /\ \A i, j \in 1 .. Len(mq) : i < j => mq[i].k < mq[j].k
    /\ \A i \in 1 .. Len(mq) : Before(mq[i]) /\ (p2.got => mq[i].k < p2.req.k)
    /\ Busy1 => /\ Before(p1.req) /\ (p2.got => p1.req.k < p2.req.k)
                /\ \A i \in 1 .. Len(mq) : p1.req.k < mq[i].k
    /\ p2.got => Before(p2.req)

\* Whoever still waits for an answer is in the buffer and has none.
OwnInv ==
    /\ p2.got => Owned(p2.req)
    /\ \A i \in 1 .. Len(mq) : ~IsStore(mq[i]) => Owned(mq[i])
    /\ Busy1 /\ ~IsStore(p1.req) => Owned(p1.req)

\* A store that waits is registered under its slot, alone, and what is
\* registered as retired has left the buffer.
StoreInv ==
    /\ p2.got => graduated[p2.req.slot] = 0
    /\ \A i \in 1 .. Len(mq) : IsStore(mq[i]) =>
          /\ graduated[mq[i].slot] # 0
          /\ graduated[mq[i].slot] = 1 => InRob(mq[i]) \/ (mq[i].slot \in retired /\ Gone(mq[i]))
          /\ graduated[mq[i].slot] = 2 => Gone(mq[i])
          /\ \A j \in 1 .. Len(mq) : IsStore(mq[j]) /\ mq[j].slot = mq[i].slot => j = i
          /\ Busy1 /\ IsStore(p1.req) => p1.req.slot # mq[i].slot
    /\ Busy1 /\ IsStore(p1.req) => graduated[p1.req.slot] = 2 /\ Gone(p1.req)

PortInv ==
    /\ p1.got => /\ state = "ACTIVE" /\ p1.idx = Set(p1.req) /\ (p1.wr <=> IsStore(p1.req))
                 /\ (p1.retry \/ p1.reload) /\ rr_wr # p1.idx
    /\ p2.got => p2.idx = Set(p2.req) /\ (p2.wr <=> IsStore(p2.req))
    /\ p1.wr => p1.got

\* The answers the cache owes are counted, and a drained cache owes none.
Owed == {rob[i].k : i \in {j \in 1 .. NAcc : ~rob[j].done}}
DrainInv ==
    /\ IsFiniteSet(Owed) /\ n_inflight = Cardinality(Owed)
    /\ memq_empty => mq = <<>> /\ q = <<>> /\ ~p2.got /\ (Busy1 => IsStore(p1.req)) /\ n_inflight = 0

\* A flush finds nothing in the buffer, and there is one at a time.
FlushStates == {"FLUSH_CL", "FLUSH_CL_WAIT", "FLUSH_CACHE", "FLUSH_CACHE_WAIT"}
FlushInv ==
    /\ fl # "no" => rob = <<>> /\ pc <= Len(prog) /\ prog[pc].op \in {"flush", "flushcl"}
    /\ fl \in {"flush", "flushcl"} => prog[pc].op = fl
    /\ fl # "wait" => ~flush_req /\ ~flush_cl_req /\ state \notin FlushStates /\ ~flush_complete
    /\ flush_req => prog[pc].op = "flush"
    /\ flush_cl_req => prog[pc].op = "flushcl"
    /\ flush_req \/ flush_cl_req => ~flush_complete /\ state \notin FlushStates
    /\ state \in {"FLUSH_CL", "FLUSH_CL_WAIT"} => prog[pc].op = "flushcl"
    /\ state \in {"FLUSH_CACHE", "FLUSH_CACHE_WAIT"} => prog[pc].op = "flush"
    /\ flush_complete => state = "ACTIVE"
    /\ state \in FlushStates \/ flush_complete => ~p1.got /\ mq = <<>>

FlowInv ==
    /\ TypeInv /\ Inv
    /\ RingInv /\ MirrorInv /\ OrderInv /\ OwnInv /\ StoreInv /\ PortInv /\ DrainInv /\ FlushInv
Clock(n, is, sq, rs) ==
    n \in 0 .. 2 /\ is \in BOOLEAN /\ sq \in BOOLEAN /\ rs \in BOOLEAN /\ Cache /\ CoreStep(n, is, sq, rs)

-----------------------------------------------------------------------------
(* What one clock does, in the terms of the invariant.                     *)

LEMMA ClockFacts ==
    ASSUME FlowInv, NEW n, NEW is, NEW sq, NEW rs, Clock(n, is, sq, rs)
    PROVE  /\ n \in 0 .. 2 /\ is \in BOOLEAN /\ sq \in BOOLEAN /\ rs \in BOOLEAN
           /\ RobStep(n, Sends(is), rs) /\ QStep(Sends(is)) /\ MqStep /\ P1Step /\ Registers
           /\ UNCHANGED prog /\ CoreStep(n, is, sq, rs) /\ Cache /\ FlushAt /\ WalkOK
<1>1. n \in 0 .. 2 /\ is \in BOOLEAN /\ sq \in BOOLEAN /\ rs \in BOOLEAN /\ CoreStep(n, is, sq, rs) /\ Cache
  BY DEF Clock
<1>2. TypeInv /\ CoreType /\ PortType /\ FlushInv
  BY DEF FlowInv, TypeInv
<1>3. FlushAt /\ WalkOK
  BY <1>2, Heads DEF FlushInv, FlushAt, WalkOK
<1>4. Registers /\ UNCHANGED prog
  BY <1>1 DEF Cache, CoreStep
<1>5. RobStep(n, Sends(is), rs) /\ QStep(Sends(is))
  BY <1>1, <1>2, RobMoves, QMoves
<1>6. MqStep /\ P1Step
  BY <1>1, <1>2, <1>3, <1>4, MqMoves, P1Cases
<1> QED  BY <1>1, <1>3, <1>4, <1>5, <1>6

\* A request is in port 1 after the clock when it comes from the miss queue,
\* or when it was there and missed.
LEMMA P1Next ==
    ASSUME FlowInv, P1Step
    PROVE  /\ Busy1' => \/ Pops /\ p1'.req = mq[1] /\ mq # <<>> /\ (Busy1 => Hit1)
                        \/ ~Pops /\ Busy1 /\ ~Hit1 /\ p1'.req = p1.req
           /\ p1'.got => \/ Pops /\ p1' = Port(mq[1], FALSE)
                         \/ ~Pops /\ state = "HANDLE_RELOAD" /\ p1' = Port(p1.req, TRUE)
           /\ p1'.got => state' = "ACTIVE"
           /\ p1'.wr => p1'.got
<1>1. TypeInv /\ CoreType /\ PortType /\ PortInv
  BY DEF FlowInv, TypeInv
<1>2. TRUE \in BOOLEAN /\ FALSE \in BOOLEAN /\ p1 \in Ports /\ p1.req \in Reqs /\ p1.got \in BOOLEAN
  BY <1>1 DEF PortType, Ports
<1>3. CASE Pops /\ Active /\ state' = "ACTIVE" /\ p1' = Port(t_mem_head, FALSE)
  <2>1. mq # <<>> /\ t_mem_head = mq[1] /\ mq[1] \in LiveReqs /\ ~t_got_miss
    BY <1>1, <1>3, PopsFacts, Heads
  <2>2. Port(mq[1], FALSE).req = mq[1] /\ Port(mq[1], FALSE).got
    BY <1>1, <1>2, <2>1, PortTypes
  <2>3. Busy1 => Hit1
    BY <1>3, <2>1 DEF Busy1, Active, t_got_miss
  <2> QED  BY <1>3, <2>1, <2>2, <2>3
<1>4. CASE ~Pops /\ state = "HANDLE_RELOAD" /\ state' = "ACTIVE" /\ p1' = Port(p1.req, TRUE)
  <2>1. p1.req \in LiveReqs /\ Busy1 /\ ~Hit1
    BY <1>1, <1>4 DEF PortType, Busy1, Hit1, Active
  <2>2. Port(p1.req, TRUE).req = p1.req /\ Port(p1.req, TRUE).got
    BY <1>1, <1>2, <2>1, PortTypes
  <2> QED  BY <1>4, <2>1, <2>2
<1>5. CASE ~Pops /\ Reloads /\ state' = "INJECT_RELOAD" /\ p1' = IdlePort(p1.req, 0, NoLine)
  <2>1. ~p1'.got /\ ~p1'.wr /\ p1'.req = p1.req
    BY <1>1, <1>2, <1>5, Consts, IdlePortType
  <2>2. Busy1 /\ ~Hit1
    BY <1>5 DEF Reloads, t_got_miss, Busy1
  <2> QED  BY <1>5, <2>1, <2>2
<1>6. CASE /\ ~Pops /\ p1' = p1
           /\ \/ state = "INJECT_RELOAD" /\ state' \in {"INJECT_RELOAD", "HANDLE_RELOAD", "ACTIVE"}
              \/ state = "FLUSH_CL_WAIT" /\ state' \in {"FLUSH_CL_WAIT", "ACTIVE"}
  <2>1. ~p1.got /\ ~p1.wr
    BY <1>1, <1>6 DEF PortInv
  <2>2. ~Hit1
    BY <2>1 DEF Hit1
  <2>3. Busy1' => Busy1
    BY <1>6, <2>1 DEF Busy1
  <2> QED  BY <1>6, <2>1, <2>2, <2>3
<1>7. CASE /\ ~Pops /\ state \notin {"INJECT_RELOAD", "HANDLE_RELOAD"}
           /\ state' \in States \ {"INJECT_RELOAD", "HANDLE_RELOAD"}
           /\ p1' = NoPort \/ \E i \in Sets : p1' = Walk(i)
  <2>1. ~p1'.got /\ ~p1'.wr
    <3>1. ~NoPort.got /\ ~NoPort.wr
      BY DEF NoPort, IdlePort
    <3>2. \A i \in Sets : ~Walk(i).got /\ ~Walk(i).wr
      BY DEF Walk, IdlePort
    <3> QED  BY <1>7, <3>1, <3>2
  <2>2. ~Busy1'
    BY <1>7, <2>1 DEF Busy1
  <2> QED  BY <2>1, <2>2
<1> QED  BY <1>3, <1>4, <1>5, <1>6, <1>7 DEF P1Step

\* Port 2 has what has just been accepted.
LEMMA P2Next ==
    ASSUME FlowInv, Registers
    PROVE  /\ p2'.got <=> core_mem_req_ack
           /\ p2'.got => /\ p2' = Port2(q[1]) /\ p2'.req = q[1] /\ q # <<>> /\ q[1] \in LiveReqs
                         /\ p2'.idx = Set(q[1]) /\ (p2'.wr <=> IsStore(q[1]))
<1>1. TypeInv /\ CoreType /\ PortType
  BY DEF FlowInv, TypeInv
<1>2. t_cm_block => p1.req \in LiveReqs
  BY <1>1 DEF t_cm_block, PortType, Busy1
<1>3. CASE core_mem_req_ack
  <2>1. q # <<>> /\ core_mem_req = q[1] /\ q[1] \in LiveReqs /\ p2' = Port2(q[1])
    BY <1>1, <1>3, Heads DEF core_mem_req_ack, Registers
  <2>2. Port2(q[1]).got /\ Port2(q[1]).req = q[1] /\ Port2(q[1]).idx = Set(q[1]) /\ (Port2(q[1]).wr <=> IsStore(q[1]))
    BY <1>1, <1>2, <2>1, Port2Types
  <2> QED  BY <1>3, <2>1, <2>2
<1>4. CASE ~core_mem_req_ack
  <2>1. ~NoPort.got
    BY DEF NoPort, IdlePort
  <2> QED  BY <1>4, <2>1 DEF Registers
<1> QED  BY <1>3, <1>4

\* An entry is known by its slot, and the next slot is free.
LEMMA SlotsDistinct ==
    ASSUME FlowInv
    PROVE  /\ \A i, j \in 1 .. Len(rob) : rob[i].slot = rob[j].slot => i = j
           /\ Len(rob) < N_ROB => \A i \in 1 .. Len(rob) : rob[i].slot # tail
<1>1. Len(rob) \in Nat /\ Len(rob) <= N_ROB /\ N_ROB \in Nat
  BY Heads, L1DAssumption DEF FlowInv, TypeInv, CoreType
<1>2. PICK h \in Slots : /\ \A i \in 1 .. Len(rob) : rob[i].slot = Wrap((h + i) - 1)
                         /\ tail = Wrap(h + Len(rob))
  BY DEF FlowInv, RingInv
<1>3. h \in 0 .. (N_ROB - 1)
  BY DEF Slots
<1>4. \A i, j \in 1 .. N_ROB : Wrap((h + i) - 1) = Wrap((h + j) - 1) => i = j
  BY <1>1, <1>3 DEF Wrap
<1>5. \A i \in 1 .. Len(rob) : i \in 1 .. N_ROB
  BY <1>1
<1>6. ASSUME Len(rob) < N_ROB, NEW i \in 1 .. Len(rob)
      PROVE  rob[i].slot # tail
  <2>1. Wrap((h + i) - 1) # Wrap(h + Len(rob))
    BY <1>1, <1>3, <1>6 DEF Wrap
  <2> QED  BY <1>2, <2>1
<1> QED  BY <1>2, <1>4, <1>5, <1>6

\* What retires has been accepted, and the others move up.
Moved(n) ==
    /\ n <= NAcc /\ NAcc \in Nat /\ Len(rob) \in Nat /\ NAcc <= Len(rob)
    /\ NAcc' = (NAcc - n) + Bit(core_mem_req_ack)
    /\ \A i \in 1 .. n : rob[i].done
    /\ NAcc' \in Nat /\ Len(rob') \in Nat /\ NAcc' <= Len(rob')
LEMMA Moves ==
    ASSUME FlowInv, NEW n, NEW is, NEW sq, NEW rs, Clock(n, is, sq, rs), ~rs
    PROVE  Moved(n)
<1>1. /\ n \in 0 .. 2 /\ RobStep(n, Sends(is), rs) /\ QStep(Sends(is)) /\ CoreStep(n, is, sq, rs)
      /\ CoreType /\ MirrorInv
  BY ClockFacts DEF FlowInv, TypeInv
<1>2. Len(q) \in Nat /\ Len(rob) \in Nat /\ Len(q) <= Len(rob)
  BY <1>1, Heads DEF MirrorInv
<1>3. \A i \in 1 .. n : rob[i].done
  BY <1>1 DEF CoreStep, Retirable
<1>4. n <= NAcc
  <2>1. SUFFICES ASSUME n > NAcc PROVE FALSE
    BY <1>1, <1>2 DEF NAcc
  <2>2. n <= Len(rob)
    BY <1>1 DEF RobStep
  <2>3. NAcc + 1 \in 1 .. n /\ 1 \in 1 .. Len(q)
    BY <1>1, <1>2, <2>1, <2>2 DEF NAcc
  <2> QED  BY <1>1, <1>3, <2>3 DEF MirrorInv
<1>5. Len(rob') = (Len(rob) - n) + (IF Sends(is) THEN 1 ELSE 0)
  BY <1>1 DEF RobStep
<1>6. Len(q') = (Len(q) - (IF core_mem_req_ack THEN 1 ELSE 0)) + (IF Sends(is) THEN 1 ELSE 0)
  BY <1>1 DEF QStep, Slid
<1>7. NAcc' = Len(rob') - Len(q')
  BY DEF NAcc
<1>8. core_mem_req_ack => Len(q) >= 1
  BY <1>1, Heads DEF core_mem_req_ack
<1>9. NAcc' = (NAcc - n) + Bit(core_mem_req_ack)
  <2>1. NAcc = Len(rob) - Len(q) /\ Bit(core_mem_req_ack) = (IF core_mem_req_ack THEN 1 ELSE 0)
    BY DEF NAcc, Bit
  <2>2. n \in Nat
    BY <1>1
  <2>3. CASE Sends(is)
    BY <1>2, <1>5, <1>6, <1>7, <2>1, <2>2, <2>3
  <2>4. CASE ~Sends(is)
    BY <1>2, <1>5, <1>6, <1>7, <2>1, <2>2, <2>4
  <2> QED  BY <2>3, <2>4
<1>10. NAcc' \in Nat /\ Len(rob') \in Nat /\ NAcc' <= Len(rob')
  BY <1>1, <1>2, <1>4, <1>5, <1>8, <1>9 DEF NAcc, Bit
<1> QED  BY <1>1, <1>2, <1>3, <1>4, <1>9, <1>10 DEF Moved, NAcc

\* The entries after a clock: each was there, or is the one that is sent.
EntryOf(n, j) == /\ j + n \in 1 .. Len(rob) /\ rob[j + n] \in Entries
                 /\ rob'[j].slot = rob[j + n].slot /\ rob'[j].k = rob[j + n].k /\ rob'[j].ep = rob[j + n].ep
                 /\ rob'[j].done <=> rob[j + n].done \/ (core_mem_rsp_valid /\ rob[j + n].slot = rsp_req.slot)
LEMMA EntriesMove ==
    ASSUME FlowInv, NEW n, NEW is, NEW sq, NEW rs, Clock(n, is, sq, rs), ~rs
    PROVE  /\ \A j \in 1 .. (Len(rob) - n) : EntryOf(n, j) /\ j \in 1 .. Len(rob')
           /\ \A j \in 1 .. Len(rob') : \/ j \in 1 .. (Len(rob) - n)
                                        \/ j = (Len(rob) - n) + 1 /\ Sends(is)
           /\ Sends(is) => /\ rob'[(Len(rob) - n) + 1] = NewEntry /\ Len(rob') = (Len(rob) - n) + 1
                           /\ NewEntry.slot = tail /\ NewEntry.k = pc /\ NewEntry.ep = squashes /\ ~NewEntry.done
                           /\ Len(rob) < N_ROB /\ Len(rob') \in 1 .. Len(rob')
           /\ n <= Len(rob)
<1>1. n \in 0 .. 2 /\ RobStep(n, Sends(is), rs) /\ CoreType /\ CoreStep(n, is, sq, rs)
  BY ClockFacts DEF FlowInv, TypeInv
<1>2. Len(rob) \in Nat /\ n <= Len(rob)
  BY <1>1, Heads DEF RobStep
<1>3. Len(rob') = (Len(rob) - n) + (IF Sends(is) THEN 1 ELSE 0)
  BY <1>1 DEF RobStep
<1>4. ASSUME NEW j \in 1 .. (Len(rob) - n)
      PROVE  EntryOf(n, j) /\ j \in 1 .. Len(rob')
  <2>1. j + n \in 1 .. Len(rob) /\ j \in 1 .. Len(rob')
    BY <1>1, <1>2, <1>3
  <2>2. rob[j + n] \in Entries
    BY <1>1, <2>1 DEF CoreType
  <2>3. rob'[j] = Mark(rob[j + n])
    BY <1>1 DEF RobStep
  <2> QED  BY <2>1, <2>2, <2>3, MarkFacts DEF EntryOf
<1>5. \A j \in 1 .. Len(rob') : j \in 1 .. (Len(rob) - n) \/ (j = (Len(rob) - n) + 1 /\ Sends(is))
  BY <1>1, <1>2, <1>3
<1>6. ASSUME Sends(is)
      PROVE  /\ rob'[(Len(rob) - n) + 1] = NewEntry /\ Len(rob') = (Len(rob) - n) + 1
             /\ NewEntry.slot = tail /\ NewEntry.k = pc /\ NewEntry.ep = squashes /\ ~NewEntry.done
             /\ Len(rob) < N_ROB /\ Len(rob') \in 1 .. Len(rob')
  <2>1. is /\ CanSend /\ Sends(TRUE)
    BY <1>1, <1>6 DEF CoreStep, Sends
  <2>2. Len(rob) < N_ROB
    BY <2>1 DEF CanSend
  <2>3. rob'[(Len(rob) - n) + 1] = NewEntry
    BY <1>1, <1>6 DEF RobStep
  <2>4. Len(rob') \in 1 .. Len(rob')
    BY <1>1, <1>2, <1>3, <1>6
  <2> QED  BY <1>3, <1>6, <2>2, <2>3, <2>4 DEF NewEntry
<1> QED  BY <1>2, <1>4, <1>5, <1>6

\* An answer is for a request of the buffer, of port 2 if it has one.
LEMMA Answer ==
    ASSUME FlowInv, core_mem_rsp_valid
    PROVE  /\ Active /\ rsp_req \in LiveReqs /\ Owned(rsp_req)
           /\ p2.got => rsp_req = p2.req
           /\ ~p2.got => rsp_req = p1.req /\ p1.got /\ Hit1 /\ ~IsStore(p1.req)
<1>1. PortType /\ OwnInv /\ PortTwoClear
  BY DEF FlowInv, TypeInv, Inv
<1>2. CASE p2.got
  <2>1. rsp_req = p2.req /\ Active
    BY <1>1, <1>2 DEF rsp_req, PortTwoClear, Active
  <2> QED  BY <1>1, <1>2, <2>1 DEF PortType, OwnInv
<1>3. CASE ~p2.got
  <2>1. rsp_req = p1.req /\ Answers1
    BY <1>3 DEF rsp_req, core_mem_rsp_valid
  <2>2. Active /\ p1.got /\ Hit1 /\ ~IsStore(p1.req) /\ Busy1
    BY <2>1 DEF Answers1, Hit1, Busy1
  <2> QED  BY <1>1, <1>3, <2>1, <2>2 DEF PortType, OwnInv
<1> QED  BY <1>2, <1>3

\* The core restarts with an empty cache, but for a store that has retired.
LEMMA Restart ==
    ASSUME FlowInv, NEW n, NEW is, NEW sq, NEW rs, Clock(n, is, sq, rs), rs
    PROVE  /\ mq = <<>> /\ q = <<>> /\ ~p2.got /\ (Busy1 => IsStore(p1.req))
           /\ mq' = <<>> /\ q' = <<>> /\ rob' = <<>> /\ tail' = 0 /\ ~p2'.got
           /\ ~Pops /\ ~t_force_clear_busy /\ ~core_mem_req_ack /\ ~core_mem_rsp_valid /\ ~t_push_miss /\ ~t_incr_busy
           /\ ds_done /\ drain /\ n = 0 /\ n_inflight = 0 /\ ~Sends(is)
<1>1. /\ RobStep(n, Sends(is), rs) /\ QStep(Sends(is)) /\ MqStep /\ Registers /\ CoreStep(n, is, sq, rs) /\ CoreType
      /\ DrainInv
  BY ClockFacts DEF FlowInv, TypeInv
<1>2. memq_empty /\ ds_done /\ drain
  BY <1>1 DEF CoreStep
<1>3. mq = <<>> /\ q = <<>> /\ ~p2.got /\ (Busy1 => IsStore(p1.req)) /\ n_inflight = 0
  BY <1>1, <1>2 DEF DrainInv
<1>4. rob' = <<>> /\ n = 0 /\ ~Sends(is) /\ tail' = 0
  BY <1>1 DEF RobStep
<1>5. ~Pops /\ ~t_pop_mq /\ ~t_force_clear_busy /\ ~core_mem_req_ack /\ ~t_push_miss /\ ~t_incr_busy
  BY <1>3 DEF Pops, t_got_rd_retry, FiresStore, t_force_clear_busy, t_pop_mq, Served, core_mem_req_ack, t_push_miss,
     t_incr_busy
<1>6. ~core_mem_rsp_valid
  <2>1. SUFFICES ASSUME core_mem_rsp_valid PROVE FALSE
    OBVIOUS
  <2>2. p1.got /\ ~IsStore(p1.req)
    BY <1>3, <2>1, Answer
  <2> QED  BY <1>3, <2>2 DEF Busy1
<1>7. ~p2'.got
  BY <1>1, <1>5, P2Next
<1>8. Len(mq') = 0 /\ Len(q') = 0 /\ mq' \in Seq(LiveReqs) /\ q' \in Seq(LiveReqs)
  BY <1>1, <1>3, <1>4, <1>5 DEF MqStep, QStep, Slid
<1> QED  BY <1>2, <1>3, <1>4, <1>5, <1>6, <1>7, <1>8

\* The program counter only falls in a restart, and then to the oldest entry.
LEMMA PcMoves ==
    ASSUME FlowInv, NEW n, NEW is, NEW sq, NEW rs, Clock(n, is, sq, rs)
    PROVE  /\ pc \in Nat /\ pc' \in Nat
           /\ pc' >= pc \/ (rs /\ rob # <<>> /\ pc' = rob[1].k)
           /\ Sends(is) => pc' = pc + 1
           /\ pc' = pc \/ pc' = pc + 1 \/ rs
<1>1. CoreType /\ CoreStep(n, is, sq, rs) /\ RobStep(n, Sends(is), rs)
  BY ClockFacts DEF FlowInv, TypeInv
<1>2. pc \in Nat /\ Len(prog) \in Nat /\ (rob # <<>> => rob[1].k \in Nat)
  <2>1. rob # <<>> => rob[1] \in Entries
    BY <1>1 DEF CoreType
  <2>2. Len(prog) \in Nat
    BY <1>1, ProgFacts
  <2> QED  BY <1>1, <2>1, <2>2 DEF CoreType, Entries
<1>3. \/ pc' = IF Sends(is) \/ (fl = "wait" /\ flush_complete) THEN pc + 1 ELSE pc
      \/ rs /\ rob # <<>> /\ pc' = rob[1].k
  BY <1>1 DEF CoreStep
<1>4. Sends(is) => ~rs
  BY <1>1 DEF RobStep
<1> QED  BY <1>2, <1>3, <1>4

LEMMA GoneKept ==
    ASSUME FlowInv, NEW n, NEW is, NEW sq, NEW rs, Clock(n, is, sq, rs), NEW r, r.k \in Nat, Gone(r)
    PROVE  Gone(r)'
<1>1. r.k < pc /\ \A i \in 1 .. Len(rob) : r.k < rob[i].k
  BY DEF Gone
<1>2. r.k < pc'
  <2>1. rob # <<>> => 1 \in 1 .. Len(rob)
    BY Heads DEF FlowInv, TypeInv
  <2> QED  BY <1>1, <2>1, PcMoves
<1>3. ASSUME NEW j \in 1 .. Len(rob')
      PROVE  r.k < rob'[j].k
  <2>1. CASE rs
    <3>1. Len(rob') = 0
      BY <2>1, Restart
    <3> QED  BY <3>1
  <2>2. CASE ~rs
    <3>1. CASE j \in 1 .. (Len(rob) - n)
      <4>1. EntryOf(n, j)
        BY <2>2, <3>1, EntriesMove
      <4> QED  BY <1>1, <4>1 DEF EntryOf
    <3>2. CASE j = (Len(rob) - n) + 1 /\ Sends(is)
      <4>1. rob'[j].k = pc
        BY <2>2, <3>2, EntriesMove
      <4> QED  BY <1>1, <4>1
    <3> QED  BY <2>2, <3>1, <3>2, EntriesMove
  <2> QED  BY <2>1, <2>2
<1> QED  BY <1>2, <1>3 DEF Gone

\* What is before the requests that are still to be accepted stays so.
LEMMA BeforeNext ==
    ASSUME FlowInv, NEW n, NEW is, NEW sq, NEW rs, Clock(n, is, sq, rs), ~rs, NEW r, r.k \in Nat, r.k < pc,
           NEW a \in 0 .. 1, NAcc' = (NAcc - n) + a,
           \A i \in 1 .. Len(rob) : i > NAcc + a => r.k < rob[i].k
    PROVE  Before(r)'
<1>2. r.k < pc'
  BY PcMoves
<1>3. Moved(n) /\ n \in 0 .. 2
  BY Moves, ClockFacts
<1>4. ASSUME NEW j \in NAcc' + 1 .. Len(rob')
      PROVE  r.k < rob'[j].k
  <2>1. j \in 1 .. Len(rob') /\ j + n > NAcc + a
    BY <1>3 DEF Moved
  <2>2. CASE j \in 1 .. (Len(rob) - n)
    <3>1. EntryOf(n, j)
      BY <2>2, EntriesMove
    <3> QED  BY <2>1, <3>1 DEF EntryOf
  <2>3. CASE j = (Len(rob) - n) + 1 /\ Sends(is)
    <3>1. rob'[j].k = pc
      BY <2>3, EntriesMove
    <3> QED  BY <3>1
  <2> QED  BY <2>1, <2>2, <2>3, EntriesMove
<1> QED  BY <1>2, <1>4 DEF Before

LEMMA BeforeKept ==
    ASSUME FlowInv, NEW n, NEW is, NEW sq, NEW rs, Clock(n, is, sq, rs), ~rs, NEW r, r.k \in Nat, Before(r)
    PROVE  Before(r)'
<1>1. r.k < pc /\ \A i \in NAcc + 1 .. Len(rob) : r.k < rob[i].k
  BY DEF Before
<1>2. NAcc \in Nat /\ Len(rob) \in Nat
  BY Moves DEF Moved
<1>3. PICK a \in 0 .. 1 : NAcc' = (NAcc - n) + a
  BY Moves DEF Moved, Bit
<1>4. \A i \in 1 .. Len(rob) : i > NAcc + a => r.k < rob[i].k
  BY <1>1, <1>2
<1> QED  BY <1>1, <1>3, <1>4, BeforeNext

\* A request that waits for its answer goes on waiting, unless it gets it.
LEMMA OwnedKept ==
    ASSUME FlowInv, NEW n, NEW is, NEW sq, NEW rs, Clock(n, is, sq, rs), ~rs, NEW r, Owned(r),
           core_mem_rsp_valid => rsp_req.k # r.k
    PROVE  Owned(r)'
<1>1. PICK i \in 1 .. NAcc : Owns(i, r) /\ ~rob[i].done
  BY DEF Owned
<1>2. Moved(n) /\ n \in 0 .. 2
  BY Moves, ClockFacts
<1>3. i > n /\ i \in 1 .. Len(rob)
  BY <1>1, <1>2 DEF Moved
<1> DEFINE j == i - n
<1>4. j \in 1 .. (Len(rob) - n) /\ j + n = i /\ j \in 1 .. NAcc'
  BY <1>2, <1>3 DEF Moved, Bit
<1>5. EntryOf(n, j)
  BY <1>4, EntriesMove
<1>6. ~(core_mem_rsp_valid /\ rob[i].slot = rsp_req.slot)
  <2>1. SUFFICES ASSUME core_mem_rsp_valid, rob[i].slot = rsp_req.slot PROVE FALSE
    OBVIOUS
  <2>2. PICK m \in 1 .. NAcc : Owns(m, rsp_req)
    BY <2>1, Answer DEF Owned
  <2>3. m \in 1 .. Len(rob)
    BY <1>2 DEF Moved
  <2>4. m = i
    BY <1>3, <2>1, <2>2, <2>3, SlotsDistinct DEF Owns
  <2> QED  BY <1>1, <2>1, <2>2, <2>4 DEF Owns
<1> HIDE DEF j
<1>7. Owns(j, r)' /\ ~rob'[j].done
  BY <1>1, <1>4, <1>5, <1>6 DEF Owns, EntryOf
<1> QED  BY <1>4, <1>7 DEF Owned

\* The request that is accepted waits for its answer.
LEMMA AckOwned ==
    ASSUME FlowInv, NEW n, NEW is, NEW sq, NEW rs, Clock(n, is, sq, rs), ~rs, core_mem_req_ack,
           NEW r, Owns(NAcc + 1, r)
    PROVE  Owned(r)' /\ Before(r)' /\ r.k \in Nat /\ r.k = rob[NAcc + 1].k /\ NAcc + 1 \in 1 .. Len(rob)
<1>1. Moved(n) /\ n \in 0 .. 2 /\ CoreType /\ MirrorInv /\ OrderInv
  BY Moves, ClockFacts DEF FlowInv, TypeInv
<1>2. Len(q) >= 1 /\ Len(q) \in Nat
  BY <1>1, Heads DEF core_mem_req_ack
<1>3. NAcc + 1 \in 1 .. Len(rob) /\ Owns(NAcc + 1, r) /\ ~rob[NAcc + 1].done
  BY <1>1, <1>2 DEF MirrorInv, Moved, NAcc
<1>j. PICK j : j = (NAcc + 1) - n
  OBVIOUS
<1>4. j \in 1 .. (Len(rob) - n) /\ j + n = NAcc + 1 /\ j = NAcc'
  BY <1>1, <1>3, <1>j DEF Moved, Bit
<1>5. EntryOf(n, j) /\ NAcc' \in 1 .. NAcc'
  BY <1>1, <1>4, EntriesMove
<1>6. ~(core_mem_rsp_valid /\ rob[NAcc + 1].slot = rsp_req.slot)
  <2>1. SUFFICES ASSUME core_mem_rsp_valid, rob[NAcc + 1].slot = rsp_req.slot PROVE FALSE
    OBVIOUS
  <2>2. PICK m \in 1 .. NAcc : Owns(m, rsp_req)
    BY <2>1, Answer DEF Owned
  <2>3. m \in 1 .. Len(rob) /\ m # NAcc + 1
    BY <1>1 DEF Moved
  <2> QED  BY <1>3, <2>1, <2>2, <2>3, SlotsDistinct DEF Owns
<1>7. Owned(r)'
  <2>1. Owns(j, r)' /\ ~rob'[j].done
    BY <1>3, <1>4, <1>5, <1>6 DEF Owns, EntryOf
  <2> QED  BY <1>4, <1>5, <2>1 DEF Owned
<1>8. r.k = rob[NAcc + 1].k /\ rob[NAcc + 1].k \in Nat /\ rob[NAcc + 1].k < pc
  <2>1. rob[NAcc + 1] \in Entries
    BY <1>1, <1>3 DEF CoreType
  <2> QED  BY <1>1, <1>3, <2>1 DEF Owns, Entries, OrderInv
<1>9. \A i \in 1 .. Len(rob) : i > NAcc + 1 => r.k < rob[i].k
  BY <1>1, <1>3, <1>8 DEF OrderInv
<1>10. r.k \in Nat /\ r.k < pc /\ 1 \in 0 .. 1
  BY <1>8
<1>11. NAcc' = (NAcc - n) + 1
  BY <1>1 DEF Moved, Bit
<1>12. Before(r)'
  BY <1>9, <1>10, <1>11, BeforeNext
<1> QED  BY <1>3, <1>7, <1>8, <1>12

\* What is in the buffer stays there, or has just retired.
LEMMA InRobKept ==
    ASSUME FlowInv, NEW n, NEW is, NEW sq, NEW rs, Clock(n, is, sq, rs), ~rs, NEW r, InRob(r)
    PROVE  InRob(r)' \/ (r.slot \in retired' /\ Gone(r)')
<1>1. PICK i \in 1 .. NAcc : Owns(i, r)
  BY DEF InRob
<1>2. Moved(n) /\ n \in 0 .. 2 /\ CoreType /\ OrderInv /\ CoreStep(n, is, sq, rs)
  BY Moves, ClockFacts DEF FlowInv, TypeInv
<1>3. i \in 1 .. Len(rob) /\ i \in Nat
  BY <1>2 DEF Moved
<1>4. CASE i > n
  <2> DEFINE j == i - n
  <2>1. j \in 1 .. (Len(rob) - n) /\ j + n = i /\ j \in 1 .. NAcc'
    BY <1>2, <1>3, <1>4 DEF Moved, Bit
  <2>2. EntryOf(n, j)
    BY <2>1, EntriesMove
  <2> HIDE DEF j
  <2>3. Owns(j, r)'
    BY <1>1, <2>1, <2>2 DEF Owns, EntryOf
  <2> QED  BY <2>1, <2>3 DEF InRob
<1>5. CASE ~(i > n)
  <2>1. i \in 1 .. n
    BY <1>2, <1>3, <1>5
  <2>2. r.slot \in retired'
    BY <1>1, <1>2, <2>1 DEF CoreStep, Owns
  <2>3. r.k = rob[i].k /\ rob[i].k < pc /\ rob[i].k \in Nat
    <3>1. rob[i] \in Entries
      BY <1>2, <1>3 DEF CoreType
    <3> QED  BY <1>1, <1>2, <1>3, <3>1 DEF OrderInv, Owns, Entries
  <2>4. r.k < pc'
    BY <2>3, PcMoves
  <2>5. ASSUME NEW m \in 1 .. Len(rob')
        PROVE  r.k < rob'[m].k
    <3>1. CASE m \in 1 .. (Len(rob) - n)
      <4>1. EntryOf(n, m)
        BY <3>1, EntriesMove
      <4>2. m + n > i
        BY <1>2, <2>1, <3>1 DEF Moved
      <4> QED  BY <1>2, <1>3, <2>3, <4>1, <4>2 DEF EntryOf, OrderInv
    <3>2. CASE m = (Len(rob) - n) + 1 /\ Sends(is)
      <4>1. rob'[m].k = pc
        BY <3>2, EntriesMove
      <4> QED  BY <2>3, <4>1
    <3> QED  BY <3>1, <3>2, EntriesMove
  <2> QED  BY <2>2, <2>4, <2>5 DEF Gone
<1> QED  BY <1>4, <1>5

-----------------------------------------------------------------------------
(* A clock keeps each part of the invariant.                               *)

LEMMA RingKept ==
    ASSUME FlowInv, NEW n, NEW is, NEW sq, NEW rs, Clock(n, is, sq, rs)
    PROVE  RingInv'
<1>1. /\ n \in 0 .. 2 /\ CoreType /\ CoreStep(n, is, sq, rs) /\ RobStep(n, Sends(is), rs) /\ RingInv
      /\ N_ROB \in Nat \ {0}
  BY ClockFacts, L1DAssumption DEF FlowInv, TypeInv
<1>2. retired' = {rob[i].slot : i \in 1 .. n} /\ (n > 0 => ~ds_done) /\ drain' = ds_done
      /\ ds_done' = (sq \/ (ds_done /\ ~rs))
  BY <1>1 DEF CoreStep, Retirable
<1>3. drain' => retired' = {}
  <2>1. ds_done => n = 0
    BY <1>1, <1>2
  <2>2. n = 0 => retired' = {}
    BY <1>2
  <2> QED  BY <1>2, <2>1, <2>2
<1>4. drain' /\ ~ds_done' => rob' = <<>>
  <2>1. ds_done /\ ~(sq \/ (ds_done /\ ~rs)) => rs
    OBVIOUS
  <2> QED  BY <1>2, <2>1, Restart
<1>5. CASE rs
  <2>1. Len(rob') = 0 /\ tail' = 0 /\ 0 \in Slots /\ rob' = <<>>
    BY <1>1, <1>5, Restart, Consts
  <2>2. 0 = Wrap(0 + 0)
    BY <1>1 DEF Wrap
  <2>3. \E h \in Slots : /\ \A i \in 1 .. Len(rob') : rob'[i].slot = Wrap((h + i) - 1)
                         /\ tail' = Wrap(h + Len(rob'))
    BY <2>1, <2>2
  <2>4. \A s \in retired' : \A i \in 1 .. Len(rob') : rob'[i].slot # s
    BY <2>1
  <2> QED  BY <1>3, <1>4, <2>3, <2>4 DEF RingInv
<1>6. CASE ~rs
  <2>1. PICK h \in Slots : /\ \A i \in 1 .. Len(rob) : rob[i].slot = Wrap((h + i) - 1)
                           /\ tail = Wrap(h + Len(rob))
    BY <1>1 DEF RingInv
  <2> DEFINE g == Wrap(h + n)
             L == Len(rob)
  <2>2. L \in Nat /\ L <= N_ROB /\ n <= L /\ h \in 0 .. (N_ROB - 1) /\ n \in Nat
    BY <1>1, Heads DEF CoreType, Slots, RobStep
  <2>3. g \in Slots
    BY <1>1, <2>2 DEF Wrap, Slots
  <2>4. \A i \in 1 .. (L - n) : Wrap((h + (i + n)) - 1) = Wrap((g + i) - 1)
    BY <1>1, <2>2 DEF Wrap
  <2>5. Wrap(h + L) = Wrap(g + (L - n))
    BY <1>1, <2>2 DEF Wrap
  <2>6. L < N_ROB => Wrap(Wrap(h + L) + 1) = Wrap(g + ((L - n) + 1))
    BY <1>1, <2>2 DEF Wrap
  <2>7. (g + ((L - n) + 1)) - 1 = g + (L - n)
    BY <1>1, <2>2 DEF Wrap
  <2>8. tail' = Wrap(g + Len(rob'))
    <3>1. CASE Sends(is)
      <4>1. L < N_ROB /\ Len(rob') = (L - n) + 1
        BY <1>6, <3>1, EntriesMove
      <4>2. tail' = Wrap(tail + 1)
        BY <1>1, <1>6, <3>1 DEF RobStep
      <4> HIDE DEF g, L
      <4> QED  BY <2>1, <2>6, <4>1, <4>2 DEF L
    <3>2. CASE ~Sends(is)
      <4>1. Len(rob') = L - n /\ tail' = tail
        BY <1>1, <1>6, <2>2, <3>2 DEF RobStep
      <4> HIDE DEF g
      <4> QED  BY <2>1, <2>5, <4>1
    <3> QED  BY <3>1, <3>2
  <2>9. ASSUME NEW j \in 1 .. Len(rob')
        PROVE  rob'[j].slot = Wrap((g + j) - 1)
    <3>1. CASE j \in 1 .. (L - n)
      <4>1. EntryOf(n, j)
        BY <1>6, <3>1, EntriesMove
      <4>2. rob'[j].slot = Wrap((h + (j + n)) - 1)
        BY <2>1, <4>1 DEF EntryOf
      <4> HIDE DEF g
      <4> QED  BY <2>4, <3>1, <4>2
    <3>2. CASE j = (L - n) + 1 /\ Sends(is)
      <4>1. rob'[j].slot = tail
        BY <1>6, <3>2, EntriesMove
      <4> HIDE DEF g
      <4> QED  BY <2>1, <2>5, <2>7, <3>2, <4>1
    <3> QED  BY <1>6, <3>1, <3>2, EntriesMove
  <2>10. ASSUME NEW s \in retired', NEW j \in 1 .. Len(rob')
         PROVE  rob'[j].slot # s
    <3>1. PICK i \in 1 .. n : s = rob[i].slot
      BY <1>2
    <3>2. i \in 1 .. L
      BY <2>2
    <3>3. CASE j \in 1 .. (L - n)
      <4>1. EntryOf(n, j) /\ j + n # i
        BY <1>6, <2>2, <3>3, EntriesMove
      <4> QED  BY <3>1, <3>2, <4>1, SlotsDistinct DEF EntryOf
    <3>4. CASE j = (L - n) + 1 /\ Sends(is)
      BY <1>6, <3>1, <3>2, <3>4, EntriesMove, SlotsDistinct
    <3> QED  BY <1>6, <3>3, <3>4, EntriesMove
  <2>11. \E f \in Slots : /\ \A i \in 1 .. Len(rob') : rob'[i].slot = Wrap((f + i) - 1)
                          /\ tail' = Wrap(f + Len(rob'))
    <3> HIDE DEF g
    <3> QED  BY <2>3, <2>8, <2>9
  <2> QED  BY <1>3, <1>4, <2>10, <2>11 DEF RingInv
<1> QED  BY <1>5, <1>6

LEMMA MirrorKept ==
    ASSUME FlowInv, NEW n, NEW is, NEW sq, NEW rs, Clock(n, is, sq, rs)
    PROVE  MirrorInv'
<1>1. CASE rs
  <2>1. Len(q') = 0 /\ Len(rob') = 0
    BY <1>1, Restart
  <2> QED  BY <2>1 DEF MirrorInv
<1>2. CASE ~rs
  <2>1. Moved(n) /\ n \in 0 .. 2 /\ CoreType /\ QStep(Sends(is)) /\ MirrorInv
    BY <1>2, Moves, ClockFacts DEF FlowInv, TypeInv
  <2>2. Len(q) \in Nat /\ NAcc = Len(rob) - Len(q) /\ (core_mem_req_ack => Len(q) >= 1)
    BY <2>1, Heads DEF NAcc, core_mem_req_ack
  <2>3. PICK a \in 0 .. 1 : a = IF core_mem_req_ack THEN 1 ELSE 0
    OBVIOUS
  <2>4. /\ NAcc' = (NAcc - n) + a /\ a <= Len(q)
        /\ Slid(q, a, Sends(is), NewReq, q')
    BY <2>1, <2>2, <2>3 DEF Moved, Bit, QStep
  <2>5. Len(q') <= Len(rob') /\ Len(q') \in Nat
    <3>1. NAcc' = Len(rob') - Len(q')
      BY DEF NAcc
    <3>2. Len(q') \in Nat
      BY <2>1 DEF QStep
    <3> QED  BY <2>1, <3>1, <3>2 DEF Moved
  <2>7. ASSUME NEW i \in 1 .. Len(q')
        PROVE  /\ rob'[NAcc' + i].slot = q'[i].slot /\ rob'[NAcc' + i].k = q'[i].k /\ rob'[NAcc' + i].ep = q'[i].ep
               /\ ~rob'[NAcc' + i].done
    <3>0. /\ n \in Nat /\ n <= NAcc /\ NAcc \in Nat /\ Len(rob) \in Nat
      BY <2>1 DEF Moved
    <3>1. CASE i \in 1 .. (Len(q) - a)
      <4>1. q'[i] = q[i + a] /\ i + a \in 1 .. Len(q)
        BY <2>2, <2>4, <3>1 DEF Slid
      <4>2. /\ rob[NAcc + (i + a)].slot = q[i + a].slot /\ rob[NAcc + (i + a)].k = q[i + a].k
            /\ rob[NAcc + (i + a)].ep = q[i + a].ep /\ ~rob[NAcc + (i + a)].done
        BY <2>1, <4>1 DEF MirrorInv, Owns
      <4>3. PICK j : j = NAcc' + i
        OBVIOUS
      <4>4. j \in 1 .. (Len(rob) - n) /\ j + n = NAcc + (i + a)
        BY <2>2, <2>4, <3>0, <3>1, <4>3
      <4>5. EntryOf(n, j)
        BY <1>2, <4>4, EntriesMove
      <4>6. ~(core_mem_rsp_valid /\ rob[j + n].slot = rsp_req.slot)
        <5>1. SUFFICES ASSUME core_mem_rsp_valid, rob[j + n].slot = rsp_req.slot PROVE FALSE
          OBVIOUS
        <5>2. PICK m \in 1 .. NAcc : Owns(m, rsp_req)
          BY <5>1, Answer DEF Owned
        <5>3. m \in 1 .. Len(rob) /\ m # j + n /\ j + n \in 1 .. Len(rob)
          BY <2>2, <3>0, <3>1, <4>4
        <5> QED  BY <5>1, <5>2, <5>3, SlotsDistinct DEF Owns
      <4> QED  BY <4>1, <4>2, <4>3, <4>4, <4>5, <4>6 DEF EntryOf
    <3>2. CASE i = (Len(q) - a) + 1 /\ Sends(is)
      <4>1. q'[i] = NewReq
        BY <2>4, <3>2 DEF Slid
      <4>2. NAcc' + i = (Len(rob) - n) + 1
        BY <2>2, <2>4, <3>0, <3>2
      <4>3. rob'[NAcc' + i] = NewEntry /\ ~NewEntry.done
        BY <1>2, <3>2, <4>2, EntriesMove
      <4> QED  BY <4>1, <4>3 DEF NewReq, NewEntry
    <3>3. Len(q') = (Len(q) - a) + (IF Sends(is) THEN 1 ELSE 0)
      BY <2>4 DEF Slid
    <3> QED  BY <2>2, <3>1, <3>2, <3>3
  <2> QED  BY <2>5, <2>7 DEF MirrorInv, Owns
<1> QED  BY <1>1, <1>2

\* The miss queue after a clock: what it had, and what port 2 gives up.
MqFrom(a) ==
    \A i \in 1 .. Len(mq') :
        \/ i + a \in 1 .. Len(mq) /\ mq'[i] = mq[i + a]
        \/ i = Len(mq') /\ i = (Len(mq) - a) + 1 /\ t_push_miss /\ p2.got /\ mq'[i] = p2.req
LEMMA MqComesFrom ==
    ASSUME FlowInv, NEW n, NEW is, NEW sq, NEW rs, Clock(n, is, sq, rs)
    PROVE  /\ \E a \in 0 .. 1 : a = (IF t_pop_mq THEN 1 ELSE 0) /\ a <= Len(mq) /\ MqFrom(a)
           /\ Len(mq) \in Nat /\ Len(mq') \in Nat
           /\ \A i \in 1 .. Len(mq) : mq[i].k \in Nat /\ mq[i] \in LiveReqs
           /\ p2.got => p2.req.k \in Nat /\ p2.req \in LiveReqs
           /\ Busy1 => p1.req.k \in Nat /\ p1.req \in LiveReqs
<1>1. MqStep /\ CoreType /\ PortType
  BY ClockFacts DEF FlowInv, TypeInv
<1>2. Len(mq) \in Nat /\ Len(mq') \in Nat /\ (t_pop_mq => Len(mq) >= 1) /\ (t_push_miss => p2.got)
  BY <1>1, Heads DEF MqStep, t_pop_mq, t_got_rd_retry, FiresStore, t_force_clear_busy, Served, t_push_miss, t_incr_busy
<1>3. PICK a \in 0 .. 1 : a = (IF t_pop_mq THEN 1 ELSE 0)
  OBVIOUS
<1>4. a <= Len(mq) /\ Slid(mq, a, t_push_miss, p2.req, mq')
  BY <1>1, <1>2, <1>3 DEF MqStep
<1>5. MqFrom(a)
  <2>1. SUFFICES ASSUME NEW i \in 1 .. Len(mq')
                 PROVE  \/ i + a \in 1 .. Len(mq) /\ mq'[i] = mq[i + a]
                        \/ i = Len(mq') /\ i = (Len(mq) - a) + 1 /\ t_push_miss /\ p2.got /\ mq'[i] = p2.req
    BY DEF MqFrom
  <2>2. Len(mq') = (Len(mq) - a) + (IF t_push_miss THEN 1 ELSE 0)
    BY <1>4 DEF Slid
  <2>3. CASE i \in 1 .. (Len(mq) - a)
    BY <1>2, <1>4, <2>3 DEF Slid
  <2>4. CASE i = (Len(mq) - a) + 1 /\ t_push_miss
    BY <1>2, <1>4, <2>2, <2>4 DEF Slid
  <2> QED  BY <1>2, <2>2, <2>3, <2>4
<1>6. \A i \in 1 .. Len(mq) : mq[i] \in LiveReqs
  BY <1>1 DEF CoreType
<1>7. \A r \in LiveReqs : r.k \in Nat
  BY <1>1, ProgFacts DEF LiveReqs
<1> QED  BY <1>1, <1>2, <1>3, <1>4, <1>5, <1>6, <1>7 DEF PortType

LEMMA OrderKept ==
    ASSUME FlowInv, NEW n, NEW is, NEW sq, NEW rs, Clock(n, is, sq, rs)
    PROVE  OrderInv'
<1>1. /\ n \in 0 .. 2 /\ CoreType /\ OrderInv /\ StoreInv /\ MirrorInv /\ Registers /\ P1Step /\ pc \in Nat /\ pc' \in Nat
      /\ Len(rob) \in Nat
  BY ClockFacts, PcMoves, Heads DEF FlowInv, TypeInv
<1>2. PICK a \in 0 .. 1 : a = (IF t_pop_mq THEN 1 ELSE 0) /\ a <= Len(mq) /\ MqFrom(a)
  BY MqComesFrom
<1>3. /\ Len(mq) \in Nat /\ Len(mq') \in Nat
      /\ \A i \in 1 .. Len(mq) : mq[i].k \in Nat
      /\ p2.got => p2.req.k \in Nat
      /\ Busy1 => p1.req.k \in Nat
  BY MqComesFrom
<1>4. /\ \A i, j \in 1 .. Len(rob') : i < j => rob'[i].k < rob'[j].k
      /\ \A i \in 1 .. Len(rob') : rob'[i].k < pc'
  <2>1. CASE rs
    <3>1. Len(rob') = 0
      BY <2>1, Restart
    <3> QED  BY <3>1
  <2>2. CASE ~rs
    <3>1. \A j \in 1 .. (Len(rob) - n) : EntryOf(n, j)
      BY <2>2, EntriesMove
    <3>2. \A j \in 1 .. (Len(rob) - n) : j + n \in 1 .. Len(rob) /\ rob'[j].k = rob[j + n].k /\ rob[j + n].k \in Nat
      BY <3>1 DEF EntryOf, Entries
    <3>3. \A j \in 1 .. Len(rob') : j \in 1 .. (Len(rob) - n) \/ (j = (Len(rob) - n) + 1 /\ rob'[j].k = pc /\ pc' = pc + 1)
      BY <2>2, EntriesMove, PcMoves
    <3>4. pc' >= pc
      BY <2>2, PcMoves
    <3>5. \A j \in 1 .. (Len(rob) - n) : rob'[j].k < pc
      BY <1>1, <3>2 DEF OrderInv
    <3>6. ASSUME NEW i \in 1 .. Len(rob'), NEW j \in 1 .. Len(rob'), i < j
          PROVE  rob'[i].k < rob'[j].k
      <4>1. i \in 1 .. (Len(rob) - n)
        BY <1>1, <3>3, <3>6
      <4>2. CASE j \in 1 .. (Len(rob) - n)
        <5>1. i + n < j + n
          BY <1>1, <3>6
        <5> QED  BY <1>1, <3>2, <4>1, <4>2, <5>1 DEF OrderInv
      <4>3. CASE rob'[j].k = pc
        BY <3>5, <4>1, <4>3
      <4> QED  BY <3>3, <4>2, <4>3
    <3>7. ASSUME NEW i \in 1 .. Len(rob')
          PROVE  rob'[i].k < pc'
      <4>1. CASE i \in 1 .. (Len(rob) - n)
        <5>1. rob'[i].k < pc /\ rob'[i].k \in Nat
          BY <3>2, <3>5, <4>1
        <5> QED  BY <1>1, <3>4, <5>1
      <4>2. CASE rob'[i].k = pc /\ pc' = pc + 1
        BY <1>1, <4>2
      <4> QED  BY <3>3, <4>1, <4>2
    <3> QED  BY <3>6, <3>7
  <2> QED  BY <2>1, <2>2
<1>5. ASSUME NEW r, r.k \in Nat, Before(r), p2'.got
      PROVE  r.k < p2'.req.k
  <2>1. core_mem_req_ack /\ p2'.req = q[1] /\ Len(q) >= 1 /\ Len(q) \in Nat
    BY <1>1, <1>5, P2Next, Heads
  <2>2. Owns(NAcc + 1, q[1]) /\ NAcc + 1 \in NAcc + 1 .. Len(rob)
    BY <1>1, <2>1 DEF MirrorInv, NAcc
  <2> QED  BY <1>5, <2>1, <2>2 DEF Before, Owns
<1>6. \A i, j \in 1 .. Len(mq') : i < j => mq'[i].k < mq'[j].k
  <2>1. SUFFICES ASSUME NEW i \in 1 .. Len(mq'), NEW j \in 1 .. Len(mq'), i < j
                 PROVE  mq'[i].k < mq'[j].k
    OBVIOUS
  <2>2. i + a \in 1 .. Len(mq) /\ mq'[i] = mq[i + a]
    <3>1. i # Len(mq')
      BY <1>3, <2>1
    <3> QED  BY <1>2, <3>1 DEF MqFrom
  <2>3. CASE j + a \in 1 .. Len(mq) /\ mq'[j] = mq[j + a]
    <3>1. i + a < j + a
      BY <2>1
    <3> QED  BY <1>1, <2>2, <2>3, <3>1 DEF OrderInv
  <2>4. CASE p2.got /\ mq'[j] = p2.req
    BY <1>1, <2>2, <2>4 DEF OrderInv
  <2> QED  BY <1>2, <2>3, <2>4 DEF MqFrom
<1>7. ASSUME NEW i \in 1 .. Len(mq')
      PROVE  Before(mq'[i]) /\ mq'[i].k \in Nat
  <2>1. CASE i + a \in 1 .. Len(mq) /\ mq'[i] = mq[i + a]
    BY <1>1, <1>3, <2>1 DEF OrderInv
  <2>2. CASE p2.got /\ mq'[i] = p2.req
    BY <1>1, <1>3, <2>2 DEF OrderInv
  <2> QED  BY <1>2, <2>1, <2>2 DEF MqFrom
<1>8. ASSUME NEW i \in 1 .. Len(mq')
      PROVE  Before(mq[i])' /\ (p2'.got => mq'[i].k < p2'.req.k)
  <2>1. ~rs
    <3>1. rs => Len(mq') = 0
      BY Restart
    <3> QED  BY <3>1
  <2>2. PICK r : r = mq'[i]
    OBVIOUS
  <2>3. r.k \in Nat /\ Before(r)
    BY <1>7, <2>2
  <2>4. Before(r)'
    BY <2>1, <2>3, BeforeKept
  <2>5. p2'.got => r.k < p2'.req.k
    BY <1>5, <2>3
  <2> QED  BY <2>2, <2>4, <2>5 DEF Before
<1>9. Busy1' => /\ Before(p1.req)' /\ (p2'.got => p1'.req.k < p2'.req.k)
                /\ \A i \in 1 .. Len(mq') : p1'.req.k < mq'[i].k
  <2>1. SUFFICES ASSUME Busy1'
                 PROVE  /\ Before(p1.req)' /\ (p2'.got => p1'.req.k < p2'.req.k)
                        /\ \A i \in 1 .. Len(mq') : p1'.req.k < mq'[i].k
    OBVIOUS
  <2>2. PICK r : r = p1'.req
    OBVIOUS
  <2>3. CASE Pops /\ r = mq[1] /\ mq # <<>>
    <3>1. Len(mq) >= 1 /\ 1 \in 1 .. Len(mq) /\ ~rs /\ a = 1
      BY <1>1, <1>2, <2>3, Heads, PopsFacts, Restart
    <3>2. r.k \in Nat /\ Before(r)
      BY <1>1, <1>3, <2>3, <3>1 DEF OrderInv
    <3>3. Before(r)'
      BY <3>1, <3>2, BeforeKept
    <3>4. p2'.got => r.k < p2'.req.k
      BY <1>5, <3>2
    <3>5. ASSUME NEW i \in 1 .. Len(mq')
          PROVE  r.k < mq'[i].k
      <4>1. CASE i + a \in 1 .. Len(mq) /\ mq'[i] = mq[i + a]
        <5>1. 1 < i + a
          BY <3>1
        <5> QED  BY <1>1, <2>3, <3>1, <4>1, <5>1 DEF OrderInv
      <4>2. CASE p2.got /\ mq'[i] = p2.req
        BY <1>1, <2>3, <3>1, <4>2 DEF OrderInv
      <4> QED  BY <1>2, <4>1, <4>2 DEF MqFrom
    <3> QED  BY <2>2, <3>3, <3>4, <3>5 DEF Before
  <2>4. CASE Busy1 /\ r = p1.req
    <3>1. r.k \in Nat /\ Before(r)
      BY <1>1, <1>3, <2>4 DEF OrderInv
    <3>2. Before(r)'
      <4>1. CASE rs
        <5>1. Gone(r)
          BY <1>1, <2>4, <4>1, Restart DEF StoreInv
        <5>2. Gone(r)'
          BY <3>1, <5>1, GoneKept
        <5>3. Len(rob') = 0 /\ NAcc' = 0
          <6>1. Len(rob') = 0 /\ Len(q') = 0
            BY <4>1, Restart
          <6>2. NAcc' = Len(rob') - Len(q')
            BY DEF NAcc
          <6> QED  BY <6>1, <6>2
        <5> QED  BY <5>2, <5>3 DEF Gone, Before
      <4>2. CASE ~rs
        BY <3>1, <4>2, BeforeKept
      <4> QED  BY <4>1, <4>2
    <3>4. p2'.got => r.k < p2'.req.k
      BY <1>5, <3>1
    <3>5. ASSUME NEW i \in 1 .. Len(mq')
          PROVE  r.k < mq'[i].k
      <4>1. CASE i + a \in 1 .. Len(mq) /\ mq'[i] = mq[i + a]
        BY <1>1, <2>4, <4>1 DEF OrderInv
      <4>2. CASE p2.got /\ mq'[i] = p2.req
        BY <1>1, <2>4, <4>2 DEF OrderInv
      <4> QED  BY <1>2, <4>1, <4>2 DEF MqFrom
    <3> QED  BY <2>2, <3>2, <3>4, <3>5 DEF Before
  <2> QED  BY <1>1, <2>1, <2>2, <2>3, <2>4, P1Next
<1>10. p2'.got => Before(p2.req)'
  <2>1. SUFFICES ASSUME p2'.got PROVE Before(p2.req)'
    OBVIOUS
  <2>2. core_mem_req_ack /\ ~rs /\ Len(q) >= 1 /\ Len(q) \in Nat
    BY <1>1, <2>1, P2Next, Heads, Restart
  <2>3. PICK r : r = p2'.req
    OBVIOUS
  <2>4. Owns(NAcc + 1, r)
    BY <1>1, <2>1, <2>2, <2>3, P2Next DEF MirrorInv
  <2>5. Before(r)'
    BY <2>2, <2>4, AckOwned
  <2> QED  BY <2>3, <2>5 DEF Before
<1> QED  BY <1>4, <1>6, <1>8, <1>9, <1>10 DEF OrderInv

LEMMA OwnKept ==
    ASSUME FlowInv, NEW n, NEW is, NEW sq, NEW rs, Clock(n, is, sq, rs)
    PROVE  OwnInv'
<1>1. /\ CoreType /\ OrderInv /\ OwnInv /\ MirrorInv /\ Registers /\ P1Step /\ PortTwoClear
      /\ \A r : IsStore(r)' <=> IsStore(r)
  BY ClockFacts, TypesKept DEF FlowInv, TypeInv, Inv
<1>2. PICK a \in 0 .. 1 : a = (IF t_pop_mq THEN 1 ELSE 0) /\ a <= Len(mq) /\ MqFrom(a)
  BY MqComesFrom
<1>3. /\ Len(mq) \in Nat /\ Len(mq') \in Nat
      /\ \A i \in 1 .. Len(mq) : mq[i].k \in Nat
      /\ p2.got => p2.req.k \in Nat
      /\ Busy1 => p1.req.k \in Nat
  BY MqComesFrom
<1>4. p2'.got => Owned(p2.req)'
  <2>1. SUFFICES ASSUME p2'.got PROVE Owned(p2.req)'
    OBVIOUS
  <2>2. core_mem_req_ack /\ ~rs /\ Len(q) >= 1 /\ Len(q) \in Nat
    BY <1>1, <2>1, P2Next, Heads, Restart
  <2>3. PICK r : r = p2'.req
    OBVIOUS
  <2>4. Owns(NAcc + 1, r)
    BY <1>1, <2>1, <2>2, <2>3, P2Next DEF MirrorInv
  <2>5. Owned(r)'
    BY <2>2, <2>4, AckOwned
  <2> QED  BY <2>3, <2>5 DEF Owned, Owns
<1>5. ASSUME NEW m \in 1 .. Len(mq), NEW r, r = mq[m], ~IsStore(r), ~rs
      PROVE  Owned(r) /\ (core_mem_rsp_valid => rsp_req.k # r.k)
  <2>1. Owned(r)
    BY <1>1, <1>5 DEF OwnInv
  <2>2. ASSUME core_mem_rsp_valid PROVE rsp_req.k # r.k
    <3>1. CASE p2.got
      <4>1. rsp_req = p2.req /\ r.k < p2.req.k /\ r.k \in Nat /\ p2.req.k \in Nat
        BY <1>1, <1>3, <1>5, <2>2, <3>1, Answer DEF OrderInv
      <4> QED  BY <4>1
    <3>2. CASE ~p2.got
      <4>1. rsp_req = p1.req /\ p1.got
        BY <2>2, <3>2, Answer
      <4>2. Busy1
        BY <4>1 DEF Busy1
      <4>3. p1.req.k < r.k /\ p1.req.k \in Nat /\ r.k \in Nat
        BY <1>1, <1>3, <1>5, <4>2 DEF OrderInv
      <4> QED  BY <4>1, <4>3
    <3> QED  BY <3>1, <3>2
  <2> QED  BY <2>1, <2>2
<1>6. ASSUME NEW i \in 1 .. Len(mq'), ~IsStore(mq'[i])
      PROVE  Owned(mq[i])'
  <2>1. ~rs
    <3>1. rs => Len(mq') = 0
      BY Restart
    <3> QED  BY <3>1
  <2>2. PICK r : r = mq'[i]
    OBVIOUS
  <2>3. ~IsStore(r)
    BY <1>6, <2>2
  <2>4. CASE i + a \in 1 .. Len(mq) /\ mq'[i] = mq[i + a]
    <3>1. Owned(r) /\ (core_mem_rsp_valid => rsp_req.k # r.k)
      BY <1>5, <2>1, <2>2, <2>3, <2>4
    <3>2. Owned(r)'
      BY <2>1, <3>1, OwnedKept
    <3> QED  BY <2>2, <3>2 DEF Owned, Owns
  <2>5. CASE t_push_miss /\ p2.got /\ mq'[i] = p2.req
    <3>1. Owned(r) /\ ~core_mem_rsp_valid
      <4>1. ~IsStore(p2.req) /\ ~Answers1
        BY <1>1, <2>2, <2>3, <2>5 DEF PortTwoClear, Answers1, Hit1
      <4> QED  BY <1>1, <2>2, <2>5, <4>1 DEF OwnInv, core_mem_rsp_valid
    <3>2. Owned(r)'
      BY <2>1, <3>1, OwnedKept
    <3> QED  BY <2>2, <3>2 DEF Owned, Owns
  <2> QED  BY <1>2, <2>4, <2>5 DEF MqFrom
<1>7. ASSUME Busy1', ~IsStore(p1'.req)
      PROVE  Owned(p1.req)'
  <2>1. PICK r : r = p1'.req
    OBVIOUS
  <2>2. ~IsStore(r)
    BY <1>7, <2>1
  <2>3. CASE Pops /\ r = mq[1] /\ mq # <<>>
    <3>1. 1 \in 1 .. Len(mq) /\ ~rs
      BY <1>1, <2>3, Heads, Restart
    <3>2. Owned(r) /\ (core_mem_rsp_valid => rsp_req.k # r.k)
      BY <1>5, <2>2, <2>3, <3>1
    <3>3. Owned(r)'
      BY <3>1, <3>2, OwnedKept
    <3> QED  BY <2>1, <3>3 DEF Owned, Owns
  <2>4. CASE Busy1 /\ ~Hit1 /\ r = p1.req
    <3>1. ~rs /\ Owned(r)
      BY <1>1, <2>2, <2>4, Restart DEF OwnInv
    <3>2. ASSUME core_mem_rsp_valid PROVE rsp_req.k # r.k
      <4>1. p2.got /\ rsp_req = p2.req
        BY <2>4, <3>2, Answer
      <4>2. r.k < p2.req.k /\ r.k \in Nat /\ p2.req.k \in Nat
        BY <1>1, <1>3, <2>4, <4>1 DEF OrderInv
      <4> QED  BY <4>1, <4>2
    <3>3. Owned(r)'
      BY <3>1, <3>2, OwnedKept
    <3> QED  BY <2>1, <3>3 DEF Owned, Owns
  <2> QED  BY <1>1, <1>7, <2>1, <2>3, <2>4, P1Next
<1>8. \A i \in 1 .. Len(mq') : ~IsStore(mq[i])' => Owned(mq[i])'
  <2>1. \A i \in 1 .. Len(mq') : IsStore(mq[i])' <=> IsStore(mq'[i])
    <3>1. UNCHANGED prog
      BY ClockFacts
    <3> QED  BY <3>1 DEF IsStore
  <2> QED  BY <1>6, <2>1
<1>9. Busy1' /\ ~IsStore(p1.req)' => Owned(p1.req)'
  <2>1. IsStore(p1.req)' <=> IsStore(p1'.req)
    <3>1. UNCHANGED prog
      BY ClockFacts
    <3> QED  BY <3>1 DEF IsStore
  <2> QED  BY <1>7, <2>1
<1> QED  BY <1>4, <1>8, <1>9 DEF OwnInv

\* What becomes of the state of a slot: the cases exclude each other.
GradStep(s) ==
    LET g == graduated'[s] IN
    /\ t_force_clear_busy /\ s = mq[1].slot => g = 0
    /\ Hit1 /\ IsStore(p1.req) /\ s = p1.req.slot => g = 0
    /\ t_incr_busy /\ s = p2.req.slot => g = 1
    /\ \/ t_force_clear_busy /\ s = mq[1].slot
       \/ Hit1 /\ IsStore(p1.req) /\ s = p1.req.slot
       \/ t_incr_busy /\ s = p2.req.slot
       \/ g = IF s \in retired /\ graduated[s] = 1 THEN 2 ELSE graduated[s]
LEMMA GradMoves ==
    ASSUME FlowInv, Registers, NEW s \in Slots
    PROVE  GradStep(s)
<1>1. CoreType /\ ArrayType /\ StoreInv /\ RingInv
  BY DEF FlowInv, TypeInv
<1> DEFINE A == t_force_clear_busy /\ s = mq[1].slot
           B == Hit1 /\ IsStore(p1.req) /\ s = p1.req.slot
           C == t_incr_busy /\ s = p2.req.slot
           D == s \in retired /\ graduated[s] = 1
<1>2. t_force_clear_busy => /\ IsStore(mq[1]) /\ 1 \in 1 .. Len(mq) /\ t_mem_head = mq[1] /\ retired = {}
  BY <1>1, Heads DEF t_force_clear_busy, Served, RingInv
<1>3. A => graduated[s] # 0 /\ ~D
  BY <1>1, <1>2 DEF StoreInv
<1>4. B => graduated[s] = 2 /\ Busy1
  BY <1>1 DEF StoreInv, Hit1, Busy1
<1>5. C => graduated[s] = 0
  BY <1>1 DEF StoreInv, t_incr_busy
<1>6. ~(A /\ B)
  BY <1>1, <1>2, <1>4 DEF StoreInv
<1>7. ~(A /\ C) /\ ~(A /\ D) /\ ~(B /\ C) /\ ~(B /\ D) /\ ~(C /\ D)
  BY <1>3, <1>4, <1>5
<1>8. graduated'[s] = CASE A -> 0 [] B -> 0 [] C -> 1 [] D -> 2 [] OTHER -> graduated[s]
  <2>1. graduated' = NextGraduated
    BY DEF Registers
  <2>2. (t_force_clear_busy /\ s = t_mem_head.slot) = A
    BY <1>2
  <2> QED  BY <2>1, <2>2 DEF NextGraduated
<1> HIDE DEF A, B, C, D
<1>9. /\ A => graduated'[s] = 0
      /\ B => graduated'[s] = 0
      /\ C => graduated'[s] = 1
      /\ A \/ B \/ C \/ graduated'[s] = IF D THEN 2 ELSE graduated[s]
  BY <1>6, <1>7, <1>8
<1> QED  BY <1>9 DEF A, B, C, D, GradStep

\* A store of the miss queue that stays: its slot is not cleared.
LEMMA WaitsOn ==
    ASSUME FlowInv, Registers, NEW m \in 1 .. Len(mq), IsStore(mq[m]), ~(m = 1 /\ t_force_clear_busy)
    PROVE  /\ mq[m].slot \in Slots /\ graduated[mq[m].slot] \in 1 .. 2
           /\ graduated'[mq[m].slot] =
                 IF mq[m].slot \in retired /\ graduated[mq[m].slot] = 1 THEN 2 ELSE graduated[mq[m].slot]
<1>1. CoreType /\ ArrayType /\ StoreInv
  BY DEF FlowInv, TypeInv
<1>2. PICK s : s = mq[m].slot
  OBVIOUS
<1>3. s \in Slots /\ graduated[s] \in 1 .. 2
  <2>1. mq[m] \in LiveReqs
    BY <1>1 DEF CoreType
  <2>2. s \in Slots
    BY <1>2, <2>1 DEF LiveReqs
  <2>3. graduated[s] \in 0 .. 2 /\ graduated[s] # 0
    BY <1>1, <1>2, <2>2 DEF ArrayType, StoreInv
  <2> QED  BY <2>2, <2>3
<1>4. GradStep(s)
  BY <1>3, GradMoves
<1>5. ~(t_force_clear_busy /\ s = mq[1].slot)
  <2>1. t_force_clear_busy => IsStore(mq[1]) /\ 1 \in 1 .. Len(mq)
    BY <1>1, Heads DEF t_force_clear_busy, Served
  <2> QED  BY <1>1, <1>2, <2>1 DEF StoreInv
<1>6. ~(Hit1 /\ IsStore(p1.req) /\ s = p1.req.slot)
  BY <1>1, <1>2 DEF StoreInv, Hit1, Busy1
<1>7. ~(t_incr_busy /\ s = p2.req.slot)
  BY <1>1, <1>3 DEF StoreInv, t_incr_busy
<1> QED  BY <1>2, <1>3, <1>4, <1>5, <1>6, <1>7 DEF GradStep

LEMMA StoreKept ==
    ASSUME FlowInv, NEW n, NEW is, NEW sq, NEW rs, Clock(n, is, sq, rs)
    PROVE  StoreInv'
<1>1. /\ CoreType /\ ArrayType /\ PortType /\ OwnInv /\ MirrorInv /\ StoreInv /\ RingInv /\ Registers /\ P1Step
      /\ UNCHANGED prog
  BY ClockFacts DEF FlowInv, TypeInv
<1>2. PICK a \in 0 .. 1 : a = (IF t_pop_mq THEN 1 ELSE 0) /\ a <= Len(mq) /\ MqFrom(a)
  BY MqComesFrom
<1>3. /\ Len(mq) \in Nat /\ Len(mq') \in Nat
      /\ \A i \in 1 .. Len(mq) : mq[i].k \in Nat /\ mq[i] \in LiveReqs
      /\ p2.got => p2.req.k \in Nat /\ p2.req \in LiveReqs
      /\ Busy1 => p1.req.k \in Nat /\ p1.req \in LiveReqs
  BY MqComesFrom
<1>4. /\ \A i : IsStore(mq[i])' <=> IsStore(mq'[i])
      /\ IsStore(p1.req)' <=> IsStore(p1'.req)
  BY <1>1 DEF IsStore
<1>5. t_force_clear_busy => t_pop_mq
  BY DEF t_pop_mq
<1>6. p2'.got => graduated'[p2'.req.slot] = 0
  <2>1. SUFFICES ASSUME p2'.got PROVE graduated'[p2'.req.slot] = 0
    OBVIOUS
  <2>2. core_mem_req_ack /\ ~rs /\ Len(q) >= 1 /\ Len(q) \in Nat /\ p2'.req = q[1] /\ q[1] \in LiveReqs
        /\ core_mem_req = q[1]
    BY <1>1, <2>1, P2Next, Heads, Restart
  <2>3. PICK s : s = q[1].slot
    OBVIOUS
  <2>4. s \in Slots /\ graduated[s] = 0
    BY <2>2, <2>3 DEF LiveReqs, core_mem_req_ack
  <2>5. GradStep(s)
    BY <1>1, <2>4, GradMoves
  <2>6. ~(t_incr_busy /\ s = p2.req.slot)
    <3>1. SUFFICES ASSUME p2.got, s = p2.req.slot PROVE FALSE
      BY DEF t_incr_busy
    <3>2. PICK i \in 1 .. NAcc : Owns(i, p2.req)
      BY <1>1, <3>1 DEF OwnInv, Owned
    <3>3. NAcc \in Nat /\ NAcc + 1 \in 1 .. Len(rob) /\ i \in 1 .. Len(rob) /\ i # NAcc + 1 /\ Owns(NAcc + 1, q[1])
      <4>1. Len(rob) \in Nat /\ Len(q) <= Len(rob)
        BY <1>1, Heads DEF MirrorInv
      <4>2. NAcc \in Nat /\ NAcc + 1 <= Len(rob)
        BY <2>2, <4>1 DEF NAcc
      <4>3. Owns(NAcc + 1, q[1])
        BY <1>1, <2>2 DEF MirrorInv
      <4> QED  BY <4>1, <4>2, <4>3
    <3> QED  BY <2>3, <3>1, <3>2, <3>3, SlotsDistinct DEF Owns
  <2>7. graduated'[s] = 0
    BY <2>4, <2>5, <2>6 DEF GradStep
  <2> QED  BY <2>2, <2>3, <2>7
<1>7. ASSUME NEW i \in 1 .. Len(mq'), NEW r, r = mq'[i], IsStore(r)
      PROVE  /\ graduated'[r.slot] # 0
             /\ graduated'[r.slot] = 1 => InRob(r)' \/ (r.slot \in retired' /\ Gone(r)')
             /\ graduated'[r.slot] = 2 => Gone(r)'
  <2>1. ~rs
    <3>1. rs => Len(mq') = 0
      BY Restart
    <3> QED  BY <3>1
  <2>2. CASE i + a \in 1 .. Len(mq) /\ mq'[i] = mq[i + a]
    <3>1. PICK m \in 1 .. Len(mq) : m = i + a /\ r = mq[m]
      BY <1>7, <2>2
    <3>2. r.k \in Nat /\ IsStore(mq[m]) /\ ~(m = 1 /\ t_force_clear_busy)
      BY <1>2, <1>3, <1>5, <1>7, <3>1
    <3>3. /\ graduated[r.slot] \in 1 .. 2
          /\ graduated'[r.slot] = IF r.slot \in retired /\ graduated[r.slot] = 1 THEN 2 ELSE graduated[r.slot]
      BY <1>1, <3>1, <3>2, WaitsOn
    <3>4. /\ graduated[r.slot] = 1 => InRob(r) \/ (r.slot \in retired /\ Gone(r))
          /\ graduated[r.slot] = 2 => Gone(r)
      BY <1>1, <3>1, <3>2 DEF StoreInv
    <3>5. r.slot \in retired => ~InRob(r)
      <4>1. SUFFICES ASSUME r.slot \in retired, InRob(r) PROVE FALSE
        OBVIOUS
      <4>2. PICK j \in 1 .. NAcc : Owns(j, r)
        BY <4>1 DEF InRob
      <4>3. j \in 1 .. Len(rob)
        BY <2>1, Moves DEF Moved
      <4> QED  BY <1>1, <4>1, <4>2, <4>3 DEF RingInv, Owns
    <3>6. Gone(r) => Gone(r)'
      BY <3>2, GoneKept
    <3>7. InRob(r) => InRob(r)' \/ (r.slot \in retired' /\ Gone(r)')
      BY <2>1, InRobKept
    <3> QED  BY <3>3, <3>4, <3>5, <3>6, <3>7
  <2>3. CASE t_push_miss /\ p2.got /\ mq'[i] = p2.req
    <3>1. r = p2.req /\ t_incr_busy /\ p2.req.slot \in Slots
      BY <1>3, <1>7, <2>3 DEF t_push_miss, IsStore, IsLoad, LiveReqs
    <3>2. GradStep(p2.req.slot)
      BY <1>1, <3>1, GradMoves
    <3>3. graduated'[r.slot] = 1
      BY <3>1, <3>2 DEF GradStep
    <3>4. InRob(r)
      BY <1>1, <2>3, <3>1 DEF OwnInv, Owned, InRob
    <3>5. InRob(r)' \/ (r.slot \in retired' /\ Gone(r)')
      BY <2>1, <3>4, InRobKept
    <3> QED  BY <3>3, <3>5
  <2> QED  BY <1>2, <2>2, <2>3 DEF MqFrom
<1>8. ASSUME NEW i \in 1 .. Len(mq'), IsStore(mq'[i]), NEW j \in 1 .. Len(mq'), IsStore(mq'[j]), mq'[j].slot = mq'[i].slot
      PROVE  j = i
  <2>1. ASSUME NEW l \in 1 .. Len(mq), IsStore(mq[l]), p2.got
        PROVE  mq[l].slot # p2.req.slot
    BY <1>1, <2>1 DEF StoreInv
  <2>2. CASE i + a \in 1 .. Len(mq) /\ mq'[i] = mq[i + a] /\ j + a \in 1 .. Len(mq) /\ mq'[j] = mq[j + a]
    <3>1. i + a = j + a
      BY <1>1, <1>8, <2>2 DEF StoreInv
    <3> QED  BY <3>1
  <2>3. CASE i = Len(mq') /\ j = Len(mq')
    BY <2>3
  <2>4. CASE i + a \in 1 .. Len(mq) /\ mq'[i] = mq[i + a] /\ p2.got /\ mq'[j] = p2.req
    BY <1>8, <2>1, <2>4
  <2>5. CASE j + a \in 1 .. Len(mq) /\ mq'[j] = mq[j + a] /\ p2.got /\ mq'[i] = p2.req
    BY <1>8, <2>1, <2>5
  <2> QED  BY <1>2, <2>2, <2>3, <2>4, <2>5 DEF MqFrom
<1>9. ASSUME Busy1', IsStore(p1'.req), NEW r, r = p1'.req
      PROVE  /\ graduated'[r.slot] = 2 /\ Gone(r)'
             /\ \A i \in 1 .. Len(mq') : IsStore(mq'[i]) => r.slot # mq'[i].slot
  <2>1. CASE Pops /\ r = mq[1] /\ mq # <<>>
    <3>1. 1 \in 1 .. Len(mq) /\ IsStore(mq[1]) /\ t_pop_mq /\ ~t_force_clear_busy /\ t_mem_head = mq[1] /\ r.k \in Nat
      BY <1>1, <1>3, <1>9, <2>1, Heads, PopsFacts
    <3>2. graduated[r.slot] = 2
      BY <2>1, <3>1 DEF Pops, FiresStore, t_got_rd_retry
    <3>3. Gone(r)
      BY <1>1, <2>1, <3>1, <3>2 DEF StoreInv
    <3>4. Gone(r)'
      BY <3>1, <3>3, GoneKept
    <3>5. graduated'[r.slot] = 2
      BY <1>1, <2>1, <3>1, <3>2, WaitsOn
    <3>6. ASSUME NEW i \in 1 .. Len(mq'), IsStore(mq'[i])
          PROVE  r.slot # mq'[i].slot
      <4>1. CASE i + a \in 1 .. Len(mq) /\ mq'[i] = mq[i + a]
        <5>1. i + a # 1
          BY <1>2, <3>1
        <5> QED  BY <1>1, <2>1, <3>1, <3>6, <4>1, <5>1 DEF StoreInv
      <4>2. CASE p2.got /\ mq'[i] = p2.req
        BY <1>1, <3>2, <4>2 DEF StoreInv
      <4> QED  BY <1>2, <4>1, <4>2 DEF MqFrom
    <3> QED  BY <3>4, <3>5, <3>6
  <2>2. CASE Busy1 /\ ~Hit1 /\ r = p1.req
    <3>1. graduated[r.slot] = 2 /\ Gone(r) /\ r.k \in Nat /\ r.slot \in Slots /\ IsStore(p1.req)
      BY <1>1, <1>3, <1>9, <2>2 DEF StoreInv, LiveReqs
    <3>2. Gone(r)'
      BY <3>1, GoneKept
    <3>3. graduated'[r.slot] = 2
      <4>1. GradStep(r.slot)
        BY <1>1, <3>1, GradMoves
      <4>2. ~(t_force_clear_busy /\ r.slot = mq[1].slot)
        <5>1. t_force_clear_busy => IsStore(mq[1]) /\ 1 \in 1 .. Len(mq)
          BY <1>1, Heads DEF t_force_clear_busy, Served
        <5> QED  BY <1>1, <2>2, <3>1, <5>1 DEF StoreInv
      <4>3. ~(t_incr_busy /\ r.slot = p2.req.slot)
        BY <1>1, <3>1 DEF StoreInv, t_incr_busy
      <4> QED  BY <2>2, <3>1, <4>1, <4>2, <4>3 DEF GradStep
    <3>4. ASSUME NEW i \in 1 .. Len(mq'), IsStore(mq'[i])
          PROVE  r.slot # mq'[i].slot
      <4>1. CASE i + a \in 1 .. Len(mq) /\ mq'[i] = mq[i + a]
        BY <1>1, <2>2, <3>1, <3>4, <4>1 DEF StoreInv
      <4>2. CASE p2.got /\ mq'[i] = p2.req
        BY <1>1, <3>1, <4>2 DEF StoreInv
      <4> QED  BY <1>2, <4>1, <4>2 DEF MqFrom
    <3> QED  BY <3>2, <3>3, <3>4
  <2> QED  BY <1>1, <1>9, <2>1, <2>2, P1Next
<1>10. ASSUME NEW i \in 1 .. Len(mq'), IsStore(mq'[i])
       PROVE  /\ graduated'[mq'[i].slot] # 0
              /\ graduated'[mq'[i].slot] = 1 => InRob(mq[i])' \/ (mq'[i].slot \in retired' /\ Gone(mq[i])')
              /\ graduated'[mq'[i].slot] = 2 => Gone(mq[i])'
  <2>1. PICK r : r = mq'[i]
    OBVIOUS
  <2>2. IsStore(r)
    BY <1>10, <2>1
  <2>3. /\ graduated'[r.slot] # 0
        /\ graduated'[r.slot] = 1 => InRob(r)' \/ (r.slot \in retired' /\ Gone(r)')
        /\ graduated'[r.slot] = 2 => Gone(r)'
    BY <1>7, <2>1, <2>2
  <2> QED  BY <2>1, <2>3 DEF InRob, Owns, Gone
<1>11. Busy1' /\ IsStore(p1'.req) => /\ graduated'[p1'.req.slot] = 2 /\ Gone(p1.req)'
                                     /\ \A i \in 1 .. Len(mq') : IsStore(mq'[i]) => p1'.req.slot # mq'[i].slot
  <2>1. PICK r : r = p1'.req
    OBVIOUS
  <2>2. Busy1' /\ IsStore(p1'.req) => /\ graduated'[r.slot] = 2 /\ Gone(r)'
                                      /\ \A i \in 1 .. Len(mq') : IsStore(mq'[i]) => r.slot # mq'[i].slot
    BY <1>9, <2>1
  <2> QED  BY <2>1, <2>2 DEF Gone
<1> QED  BY <1>4, <1>6, <1>8, <1>10, <1>11 DEF StoreInv

LEMMA PortKept ==
    ASSUME FlowInv, NEW n, NEW is, NEW sq, NEW rs, Clock(n, is, sq, rs)
    PROVE  PortInv'
<1>1. /\ TypeInv /\ CoreType /\ PortType /\ PortInv /\ Registers /\ P1Step /\ UNCHANGED prog
  BY ClockFacts DEF FlowInv, TypeInv
<1>2. \A r : (IsStore(r)' <=> IsStore(r)) /\ Set(r)' = Set(r)
  BY <1>1, TypesKept
<1>3. p2'.got => p2'.idx = Set(p2'.req) /\ (p2'.wr <=> IsStore(p2'.req))
  BY <1>1, P2Next
<1>4. p1'.wr => p1'.got
  BY <1>1, P1Next
<1>5. rr_wr' = IF p1.wr THEN p1.idx ELSE -1
  BY <1>1 DEF Registers
<1>6. TRUE \in BOOLEAN /\ FALSE \in BOOLEAN
  OBVIOUS
<1>7. p1'.got => /\ state' = "ACTIVE" /\ p1'.idx = Set(p1'.req) /\ (p1'.wr <=> IsStore(p1'.req))
                 /\ (p1'.retry \/ p1'.reload) /\ rr_wr' # p1'.idx
  <2>1. CASE Pops /\ p1' = Port(mq[1], FALSE)
    <3>1. mq # <<>> /\ mq[1] \in LiveReqs /\ t_mem_head = mq[1] /\ Served
      BY <1>1, <2>1, PopsFacts, Heads DEF Pops, t_got_rd_retry, FiresStore
    <3>2. /\ Port(mq[1], FALSE).req = mq[1] /\ Port(mq[1], FALSE).idx = Set(mq[1])
          /\ (Port(mq[1], FALSE).wr <=> IsStore(mq[1]))
          /\ (Port(mq[1], FALSE).retry <=> ~FALSE)
      BY <1>1, <1>6, <3>1, PortTypes
    <3>3. Set(mq[1]) \in Sets /\ \A x \in Sets : x # -1
      BY <1>1, <3>1, ProgFacts, L1DAssumption DEF LiveReqs, Sets
    <3>4. rr_wr' # Set(mq[1])
      BY <1>1, <1>5, <3>1, <3>3 DEF Served, t_mh_block, PortInv
    <3> QED  BY <1>1, <2>1, <3>2, <3>4, P1Next
  <2>2. CASE state = "HANDLE_RELOAD" /\ p1' = Port(p1.req, TRUE)
    <3>1. p1.req \in LiveReqs /\ ~p1.wr
      BY <1>1, <2>2 DEF PortType, Busy1, PortInv
    <3>2. /\ Port(p1.req, TRUE).req = p1.req /\ Port(p1.req, TRUE).idx = Set(p1.req)
          /\ (Port(p1.req, TRUE).wr <=> IsStore(p1.req))
          /\ (Port(p1.req, TRUE).reload <=> TRUE)
      BY <1>1, <1>6, <3>1, PortTypes
    <3>3. Set(p1.req) \in Sets /\ \A x \in Sets : x # -1
      BY <1>1, <3>1, ProgFacts, L1DAssumption DEF LiveReqs, Sets
    <3> QED  BY <1>1, <1>5, <2>2, <3>1, <3>2, <3>3, P1Next
  <2> QED  BY <1>1, <2>1, <2>2, P1Next
<1>8. /\ (IsStore(p1.req)' <=> IsStore(p1'.req)) /\ Set(p1.req)' = Set(p1'.req)
      /\ (IsStore(p2.req)' <=> IsStore(p2'.req)) /\ Set(p2.req)' = Set(p2'.req)
  BY <1>1 DEF IsStore, Set
<1> QED  BY <1>3, <1>4, <1>7, <1>8 DEF PortInv

\* The answers owed after a clock.
LEMMA OwedNext ==
    ASSUME FlowInv, NEW n, NEW is, NEW sq, NEW rs, Clock(n, is, sq, rs), ~rs
    PROVE  /\ \A x : x \in Owed' <=> /\ x \in Owed \/ (core_mem_req_ack /\ x = q[1].k)
                                     /\ ~(core_mem_rsp_valid /\ x = rsp_req.k)
           /\ core_mem_req_ack => q[1].k \notin Owed
           /\ core_mem_rsp_valid => rsp_req.k \in Owed
<1>1. Moved(n) /\ n \in 0 .. 2 /\ CoreType /\ MirrorInv /\ OrderInv
  BY Moves, ClockFacts DEF FlowInv, TypeInv
<1>2. /\ NAcc \in Nat /\ NAcc' \in Nat /\ Len(rob) \in Nat /\ n \in Nat /\ n <= NAcc /\ NAcc <= Len(rob)
      /\ \A i \in 1 .. n : rob[i].done
  BY <1>1 DEF Moved
<1>3. PICK a \in 0 .. 1 : a = IF core_mem_req_ack THEN 1 ELSE 0
  OBVIOUS
<1>4. NAcc' = (NAcc - n) + a
  BY <1>1, <1>3 DEF Moved, Bit
<1>5. core_mem_req_ack => NAcc + 1 \in 1 .. Len(rob) /\ rob[NAcc + 1].k = q[1].k /\ ~rob[NAcc + 1].done
                          /\ rob[NAcc + 1].slot = q[1].slot
  <2>1. SUFFICES ASSUME core_mem_req_ack
                 PROVE  NAcc + 1 \in 1 .. Len(rob) /\ rob[NAcc + 1].k = q[1].k /\ ~rob[NAcc + 1].done
                        /\ rob[NAcc + 1].slot = q[1].slot
    OBVIOUS
  <2>2. Len(q) \in Nat /\ Len(q) >= 1 /\ NAcc = Len(rob) - Len(q)
    BY <1>1, <2>1, Heads DEF core_mem_req_ack, NAcc
  <2>3. Owns(NAcc + 1, q[1]) /\ ~rob[NAcc + 1].done
    BY <1>1, <2>2 DEF MirrorInv
  <2> QED  BY <1>2, <2>2, <2>3 DEF Owns
<1>6. \A i, j \in 1 .. Len(rob) : rob[i].k = rob[j].k => i = j
  <2>1. \A i \in 1 .. Len(rob) : rob[i].k \in Nat
    <3>1. \A i \in 1 .. Len(rob) : rob[i] \in Entries
      BY <1>1 DEF CoreType
    <3> QED  BY <3>1 DEF Entries
  <2>2. SUFFICES ASSUME NEW i \in 1 .. Len(rob), NEW j \in 1 .. Len(rob), rob[i].k = rob[j].k, i # j PROVE FALSE
    OBVIOUS
  <2>3. i < j \/ j < i
    BY <2>2
  <2> QED  BY <1>1, <2>1, <2>2, <2>3 DEF OrderInv
<1>7. ASSUME core_mem_rsp_valid
      PROVE  \E m \in 1 .. NAcc : rob[m].slot = rsp_req.slot /\ rob[m].k = rsp_req.k /\ ~rob[m].done
  BY <1>7, Answer DEF Owned, Owns
<1>8. ASSUME NEW i \in 1 .. Len(rob), core_mem_rsp_valid
      PROVE  rob[i].slot = rsp_req.slot <=> rob[i].k = rsp_req.k
  <2>1. PICK m \in 1 .. NAcc : rob[m].slot = rsp_req.slot /\ rob[m].k = rsp_req.k
    BY <1>7, <1>8
  <2>2. m \in 1 .. Len(rob)
    BY <1>2
  <2> QED  BY <1>6, <2>1, <2>2, SlotsDistinct
<1>9. ASSUME NEW x, x \in Owed'
      PROVE  /\ x \in Owed \/ (core_mem_req_ack /\ x = q[1].k)
             /\ ~(core_mem_rsp_valid /\ x = rsp_req.k)
  <2>1. PICK j \in 1 .. NAcc' : ~rob'[j].done /\ x = rob'[j].k
    BY <1>9 DEF Owed
  <2>2. j \in 1 .. (Len(rob) - n) /\ j + n <= NAcc + a
    BY <1>2, <1>3, <1>4, <1>5
  <2>3. EntryOf(n, j)
    BY <2>2, EntriesMove
  <2>4. /\ j + n \in 1 .. Len(rob) /\ x = rob[j + n].k /\ ~rob[j + n].done
        /\ ~(core_mem_rsp_valid /\ rob[j + n].slot = rsp_req.slot)
    BY <2>1, <2>3 DEF EntryOf
  <2>5. ~(core_mem_rsp_valid /\ x = rsp_req.k)
    BY <1>8, <2>4
  <2>6. CASE j + n <= NAcc
    <3>1. j + n \in 1 .. NAcc
      BY <1>2, <2>4, <2>6
    <3> QED  BY <2>4, <2>5, <3>1 DEF Owed
  <2>7. CASE j + n = NAcc + 1 /\ core_mem_req_ack
    BY <1>5, <2>4, <2>5, <2>7
  <2> QED  BY <1>2, <1>3, <2>2, <2>6, <2>7
<1>10. ASSUME NEW i \in 1 .. Len(rob), i <= NAcc + a, ~rob[i].done, ~(core_mem_rsp_valid /\ rob[i].k = rsp_req.k)
       PROVE  rob[i].k \in Owed'
  <2>1. i > n
    BY <1>2, <1>10
  <2>2. PICK j \in 1 .. (Len(rob) - n) : j + n = i
    <3>1. i - n \in 1 .. (Len(rob) - n) /\ (i - n) + n = i
      BY <1>2, <2>1
    <3> QED  BY <3>1
  <2>3. EntryOf(n, j) /\ j \in 1 .. NAcc'
    <3>1. j <= NAcc'
      BY <1>2, <1>4, <1>10, <2>2
    <3> QED  BY <1>2, <2>2, <3>1, EntriesMove
  <2>4. ~(core_mem_rsp_valid /\ rob[i].slot = rsp_req.slot)
    BY <1>8, <1>10
  <2>5. ~rob'[j].done /\ rob'[j].k = rob[i].k
    BY <1>10, <2>2, <2>3, <2>4 DEF EntryOf
  <2> QED  BY <2>3, <2>5 DEF Owed
<1>11. ASSUME NEW x, x \in Owed \/ (core_mem_req_ack /\ x = q[1].k), ~(core_mem_rsp_valid /\ x = rsp_req.k)
       PROVE  x \in Owed'
  <2>1. CASE x \in Owed
    <3>1. PICK i \in 1 .. NAcc : ~rob[i].done /\ x = rob[i].k
      BY <2>1 DEF Owed
    <3>2. i \in 1 .. Len(rob) /\ i <= NAcc + a
      BY <1>2
    <3> QED  BY <1>10, <1>11, <3>1, <3>2
  <2>2. CASE core_mem_req_ack /\ x = q[1].k
    <3>1. NAcc + 1 \in 1 .. Len(rob) /\ NAcc + 1 <= NAcc + a /\ ~rob[NAcc + 1].done /\ x = rob[NAcc + 1].k
      BY <1>2, <1>3, <1>5, <2>2
    <3> QED  BY <1>10, <1>11, <3>1
  <2> QED  BY <1>11, <2>1, <2>2
<1>12. core_mem_req_ack => q[1].k \notin Owed
  <2>1. SUFFICES ASSUME core_mem_req_ack, q[1].k \in Owed PROVE FALSE
    OBVIOUS
  <2>2. PICK i \in 1 .. NAcc : q[1].k = rob[i].k
    BY <2>1 DEF Owed
  <2>3. i \in 1 .. Len(rob) /\ i # NAcc + 1
    BY <1>2
  <2> QED  BY <1>5, <1>6, <2>1, <2>2, <2>3
<1>13. core_mem_rsp_valid => rsp_req.k \in Owed
  BY <1>7 DEF Owed
<1> QED  BY <1>9, <1>11, <1>12, <1>13

LEMMA DrainKept ==
    ASSUME FlowInv, NEW n, NEW is, NEW sq, NEW rs, Clock(n, is, sq, rs)
    PROVE  DrainInv'
<1>1. /\ n \in 0 .. 2 /\ CoreType /\ OwnInv /\ DrainInv /\ Registers /\ P1Step /\ QStep(Sends(is)) /\ MqStep
      /\ CoreStep(n, is, sq, rs) /\ UNCHANGED prog
  BY ClockFacts DEF FlowInv, TypeInv
<1>2. /\ n_inflight' = n_inflight + Bit(core_mem_req_ack) - Bit(core_mem_rsp_valid)
      /\ IsFiniteSet(Owed) /\ n_inflight = Cardinality(Owed) /\ n_inflight \in Nat
  BY <1>1, FS_CardinalityType DEF Registers, DrainInv
<1>3. PICK a \in 0 .. 1, b \in 0 .. 1 : /\ a = (IF core_mem_req_ack THEN 1 ELSE 0)
                                        /\ b = (IF core_mem_rsp_valid THEN 1 ELSE 0)
  OBVIOUS
<1>4. n_inflight' = (n_inflight + a) - b
  BY <1>2, <1>3 DEF Bit
<1>5. IsFiniteSet(Owed') /\ n_inflight' = Cardinality(Owed')
  <2>1. CASE rs
    <3>1. Len(rob') = 0 /\ Len(q') = 0 /\ ~core_mem_req_ack /\ ~core_mem_rsp_valid /\ n_inflight = 0
      BY <2>1, Restart
    <3>2. NAcc' = 0
      BY <3>1 DEF NAcc
    <3>3. Owed' = {}
      BY <3>2 DEF Owed
    <3> QED  BY <1>3, <1>4, <3>1, <3>3, FS_EmptySet
  <2>2. CASE ~rs
    <3>1. /\ \A x : x \in Owed' <=> /\ x \in Owed \/ (core_mem_req_ack /\ x = q[1].k)
                                    /\ ~(core_mem_rsp_valid /\ x = rsp_req.k)
          /\ core_mem_req_ack => q[1].k \notin Owed
          /\ core_mem_rsp_valid => rsp_req.k \in Owed
      BY <2>2, OwedNext
    <3>2. PICK S : S = IF core_mem_req_ack THEN Owed \cup {q[1].k} ELSE Owed
      OBVIOUS
    <3>3. IsFiniteSet(S) /\ Cardinality(S) = n_inflight + a /\ Cardinality(S) \in Nat
      <4>1. CASE core_mem_req_ack
        <5>1. IsFiniteSet(S) /\ Cardinality(S) = Cardinality(Owed) + 1
          BY <1>2, <3>1, <3>2, <4>1, FS_AddElement
        <5> QED  BY <1>2, <1>3, <4>1, <5>1
      <4>2. CASE ~core_mem_req_ack
        BY <1>2, <1>3, <3>2, <4>2
      <4> QED  BY <4>1, <4>2
    <3>4. CASE core_mem_rsp_valid
      <4>1. Owed' = S \ {rsp_req.k} /\ rsp_req.k \in S
        BY <3>1, <3>2, <3>4
      <4>2. IsFiniteSet(Owed') /\ Cardinality(Owed') = Cardinality(S) - 1
        BY <3>3, <4>1, FS_RemoveElement
      <4> QED  BY <1>3, <1>4, <3>3, <3>4, <4>2
    <3>5. CASE ~core_mem_rsp_valid
      <4>1. Owed' = S
        BY <3>1, <3>2, <3>5
      <4> QED  BY <1>2, <1>3, <1>4, <3>3, <3>5, <4>1
    <3> QED  BY <3>4, <3>5
  <2> QED  BY <2>1, <2>2
<1>6. ASSUME memq_empty'
      PROVE  mq' = <<>> /\ q' = <<>> /\ ~p2'.got /\ (Busy1' => IsStore(p1.req)') /\ n_inflight' = 0
  <2>1. NextMemqEmpty
    BY <1>1, <1>6 DEF Registers
  <2>2. /\ mq = <<>> /\ drain /\ q = <<>> /\ ~Pops /\ ~core_mem_req_ack /\ ~t_push_miss
        /\ n_inflight = 0
    BY <2>1 DEF NextMemqEmpty, t_got_req, Pops
  <2>3. ~Sends(is) /\ ~t_pop_mq
    <3>1. ~is
      BY <1>1, <2>2 DEF CoreStep, CanSend
    <3> QED  BY <2>2, <3>1 DEF Sends, t_pop_mq, t_got_rd_retry, FiresStore, t_force_clear_busy, Served
  <2>4. Len(mq') = 0 /\ mq' \in Seq(LiveReqs) /\ Len(q') = 0 /\ q' \in Seq(LiveReqs)
    BY <1>1, <2>2, <2>3 DEF MqStep, QStep, Slid
  <2>5. mq' = <<>> /\ q' = <<>>
    BY <2>4
  <2>6. ~p2'.got
    BY <1>1, <2>2, P2Next
  <2>7. \A r : ~Owned(r)
    <3>1. Owed = {}
      BY <1>2, <2>2, FS_EmptySet
    <3> QED  BY <3>1 DEF Owed, Owned
  <2>8. ~core_mem_rsp_valid
    BY <2>7, Answer
  <2>9. n_inflight' = 0
    BY <1>3, <1>4, <2>2, <2>8
  <2>10. Busy1' => IsStore(p1'.req)
    BY <1>1, <2>2, <2>7, P1Next DEF OwnInv
  <2>11. IsStore(p1.req)' <=> IsStore(p1'.req)
    BY <1>1 DEF IsStore
  <2> QED  BY <2>5, <2>6, <2>9, <2>10, <2>11
<1> QED  BY <1>5, <1>6 DEF DrainInv

\* How a flush begins, goes on and ends.
FlStep(is) ==
    \/ fl = "no" /\ fl' \in {"flush", "flushcl"} /\ prog[pc].op = fl' /\ rob = <<>> /\ pc <= Len(prog)
    \/ fl \in {"flush", "flushcl"} /\ fl' = "wait"
    \/ fl = "wait" /\ flush_complete /\ fl' = "no"
    \/ fl = "wait" /\ ~flush_complete /\ fl' = "wait"
    \/ fl = "no" /\ fl' = "no"
LEMMA FlMoves ==
    ASSUME FlowInv, NEW n, NEW is, NEW sq, NEW rs, Clock(n, is, sq, rs)
    PROVE  /\ FlStep(is)
           /\ fl' # "no" => rob' = <<>> /\ pc' = pc /\ rob = <<>>
<1>1. /\ n \in 0 .. 2 /\ is \in BOOLEAN /\ CoreType /\ FlushInv /\ CoreStep(n, is, sq, rs) /\ RobStep(n, Sends(is), rs)
  BY ClockFacts DEF FlowInv, TypeInv
<1>2. is => CanSend /\ fl = "no"
  BY <1>1 DEF CoreStep, CanSend
<1>3. fl' = CASE is /\ ~Sends(is) -> prog[pc].op
              [] ~is /\ fl \in {"flush", "flushcl"} -> "wait"
              [] ~is /\ fl = "wait" /\ flush_complete -> "no"
              [] OTHER -> fl
  BY <1>1 DEF CoreStep
<1>4. is /\ ~Sends(is) => /\ prog[pc].op \in {"flush", "flushcl"} /\ ~Sends(TRUE)
  BY DEF Sends
<1>5. is /\ ~Sends(is) => rob = <<>> /\ pc <= Len(prog)
  BY <1>2, <1>4 DEF CanSend
<1>6. FlStep(is)
  BY <1>1, <1>2, <1>3, <1>4, <1>5 DEF FlStep, CoreType
<1>7. ASSUME fl' # "no"
      PROVE  rob' = <<>> /\ pc' = pc /\ rob = <<>>
  <2>1. rob = <<>> /\ ~(fl = "wait" /\ flush_complete)
    BY <1>1, <1>6, <1>7 DEF FlStep, FlushInv
  <2>2. ~Sends(is)
    BY <1>2, <1>3, <1>7 DEF Sends
  <2>3. pc' = pc
    BY <1>1, <2>1, <2>2 DEF CoreStep
  <2>4. rob' = <<>>
    <3>1. Len(rob') = 0 /\ rob' \in Seq(Entries)
      BY <1>1, <2>1, <2>2 DEF RobStep
    <3> QED  BY <3>1
  <2> QED  BY <2>1, <2>3, <2>4
<1> QED  BY <1>6, <1>7

LEMMA StateMoves ==
    ASSUME FlowInv, Cache
    PROVE  /\ state' \in FlushStates =>
                 \/ StartFlush /\ state' = "FLUSH_CACHE"
                 \/ StartFlushCl /\ state' = "FLUSH_CL"
                 \/ state \in {"FLUSH_CL", "FLUSH_CL_WAIT"} /\ state' \in {"FLUSH_CL", "FLUSH_CL_WAIT"}
                 \/ state \in {"FLUSH_CACHE", "FLUSH_CACHE_WAIT"} /\ state' \in {"FLUSH_CACHE", "FLUSH_CACHE_WAIT"}
           /\ flush_complete' => state \in FlushStates /\ state' = "ACTIVE"
<1>1. CASE DoActive
  <2>1. state' = CASE StartFlush -> "FLUSH_CACHE" [] StartFlushCl -> "FLUSH_CL"
                   [] Reloads /\ ~StartFlush /\ ~StartFlushCl -> "INJECT_RELOAD" [] OTHER -> "ACTIVE"
    BY <1>1 DEF DoActive
  <2>2. ~(StartFlush /\ StartFlushCl)
    BY DEF StartFlush, StartFlushCl
  <2>3. flush_complete' = FALSE
    BY <1>1 DEF DoActive
  <2> QED  BY <2>1, <2>2, <2>3 DEF FlushStates
<1>2. CASE DoInjectReload
  BY <1>2 DEF DoInjectReload, FlushStates
<1>3. CASE DoHandleReload
  BY <1>3 DEF DoHandleReload, FlushStates
<1>4. CASE DoFlushCl
  BY <1>4 DEF DoFlushCl, FlushStates
<1>5. CASE DoFlushClWait
  BY <1>5 DEF DoFlushClWait, FlushStates
<1>6. CASE DoFlushCache
  BY <1>6 DEF DoFlushCache, FlushStates
<1>7. CASE DoFlushCacheWait
  BY <1>7 DEF DoFlushCacheWait, FlushStates
<1> QED  BY <1>1, <1>2, <1>3, <1>4, <1>5, <1>6, <1>7 DEF Cache

LEMMA FlushKept ==
    ASSUME FlowInv, NEW n, NEW is, NEW sq, NEW rs, Clock(n, is, sq, rs)
    PROVE  FlushInv'
<1>1. /\ CoreType /\ ArrayType /\ FlushInv /\ OwnInv /\ PortTwoClear /\ Cache /\ Registers /\ MqStep /\ P1Step
      /\ UNCHANGED prog
  BY ClockFacts DEF FlowInv, TypeInv, Inv
<1>2. FlStep(is) /\ (fl' # "no" => rob' = <<>> /\ pc' = pc /\ rob = <<>>)
  BY FlMoves
<1>3. /\ state' \in FlushStates =>
            \/ StartFlush /\ state' = "FLUSH_CACHE"
            \/ StartFlushCl /\ state' = "FLUSH_CL"
            \/ state \in {"FLUSH_CL", "FLUSH_CL_WAIT"} /\ state' \in {"FLUSH_CL", "FLUSH_CL_WAIT"}
            \/ state \in {"FLUSH_CACHE", "FLUSH_CACHE_WAIT"} /\ state' \in {"FLUSH_CACHE", "FLUSH_CACHE_WAIT"}
      /\ flush_complete' => state \in FlushStates /\ state' = "ACTIVE"
  BY <1>1, StateMoves
<1>4. /\ StartFlush => flush_req /\ mq = <<>>
      /\ StartFlushCl => ~flush_req /\ flush_cl_req /\ mq = <<>>
  BY DEF StartFlush, StartFlushCl, StoresDone
<1>5. /\ flush_req' <=> (flush_req \/ fl = "flush") /\ ~StartFlush
      /\ flush_cl_req' <=> (flush_cl_req \/ fl = "flushcl") /\ ~StartFlushCl
  <2>1. /\ flush_req' = ((flush_req \/ fl = "flush") /\ ~StartFlush)
        /\ flush_cl_req' = ((flush_cl_req \/ fl = "flushcl") /\ ~StartFlushCl)
    BY <1>1 DEF Registers
  <2> QED  BY <2>1, Zenon
<1>6. fl' # "no" => pc' <= Len(prog) /\ prog[pc'].op \in {"flush", "flushcl"}
  <2>1. SUFFICES ASSUME fl' # "no" PROVE pc' <= Len(prog) /\ prog[pc'].op \in {"flush", "flushcl"}
    OBVIOUS
  <2>2. pc' = pc
    BY <1>2, <2>1
  <2>3. pc <= Len(prog) /\ prog[pc].op \in {"flush", "flushcl"}
    BY <1>1, <1>2, <2>1 DEF FlStep, FlushInv
  <2> QED  BY <2>2, <2>3
<1>7. fl' \in {"flush", "flushcl"} => prog[pc'].op = fl'
  BY <1>2 DEF FlStep
<1>8. ASSUME ~flush_req, ~flush_cl_req, state \notin FlushStates
      PROVE  state' \notin FlushStates /\ ~flush_complete'
  BY <1>3, <1>4, <1>8 DEF FlushStates
<1>9. fl' # "wait" => ~flush_req' /\ ~flush_cl_req' /\ state' \notin FlushStates /\ ~flush_complete'
  <2>1. SUFFICES ASSUME fl' # "wait" PROVE ~flush_req' /\ ~flush_cl_req' /\ state' \notin FlushStates /\ ~flush_complete'
    OBVIOUS
  <2>2. fl = "no" \/ (fl = "wait" /\ flush_complete)
    BY <1>2, <2>1 DEF FlStep
  <2>3. ~flush_req /\ ~flush_cl_req /\ state \notin FlushStates
    BY <1>1, <2>2 DEF FlushInv, FlushStates
  <2>4. fl # "flush" /\ fl # "flushcl"
    BY <2>2
  <2> QED  BY <1>5, <1>8, <2>3, <2>4
<1>10. /\ flush_req => prog[pc].op = "flush" /\ fl = "wait" /\ ~flush_complete /\ state \notin FlushStates /\ ~flush_cl_req
       /\ flush_cl_req => prog[pc].op = "flushcl" /\ fl = "wait" /\ ~flush_complete /\ state \notin FlushStates
       /\ fl = "flush" => prog[pc].op = "flush" /\ ~flush_req /\ ~flush_cl_req /\ state \notin FlushStates
       /\ fl = "flushcl" => prog[pc].op = "flushcl" /\ ~flush_req /\ ~flush_cl_req /\ state \notin FlushStates
  BY <1>1 DEF FlushInv
<1>11. flush_req \/ flush_cl_req \/ fl \in {"flush", "flushcl"} => pc' = pc /\ rob = <<>>
  BY <1>2, <1>10 DEF FlStep
<1>12. /\ flush_req' => prog[pc'].op = "flush"
       /\ flush_cl_req' => prog[pc'].op = "flushcl"
  BY <1>5, <1>10, <1>11
<1>13. flush_req' \/ flush_cl_req' => ~flush_complete' /\ state' \notin FlushStates
  <2>1. ASSUME flush_req' PROVE ~flush_complete' /\ state' \notin FlushStates
    BY <1>3, <1>4, <1>5, <1>10, <2>1 DEF FlushStates
  <2>2. ASSUME flush_cl_req' PROVE ~flush_complete' /\ state' \notin FlushStates
    BY <1>3, <1>4, <1>5, <1>10, <2>2 DEF FlushStates
  <2> QED  BY <2>1, <2>2
<1>14. state \in FlushStates => pc' = pc /\ rob = <<>> /\ ~p1.got /\ mq = <<>>
  BY <1>1, <1>2 DEF FlStep, FlushInv, FlushStates
<1>15. /\ state' \in {"FLUSH_CL", "FLUSH_CL_WAIT"} => prog[pc'].op = "flushcl"
       /\ state' \in {"FLUSH_CACHE", "FLUSH_CACHE_WAIT"} => prog[pc'].op = "flush"
  <2>1. /\ state \in {"FLUSH_CL", "FLUSH_CL_WAIT"} => prog[pc].op = "flushcl"
        /\ state \in {"FLUSH_CACHE", "FLUSH_CACHE_WAIT"} => prog[pc].op = "flush"
    BY <1>1 DEF FlushInv
  <2> QED  BY <1>3, <1>4, <1>10, <1>11, <1>14, <2>1 DEF FlushStates
<1>16. state' \in FlushStates \/ flush_complete' => ~p1'.got /\ mq' = <<>>
  <2>1. SUFFICES ASSUME state' \in FlushStates \/ flush_complete' PROVE ~p1'.got /\ mq' = <<>>
    OBVIOUS
  <2>2. StartFlush \/ StartFlushCl \/ state \in FlushStates
    BY <1>3, <2>1 DEF FlushStates
  <2>3. mq = <<>> /\ rob = <<>>
    BY <1>4, <1>10, <1>11, <1>14, <2>2
  <2>4. ~p2.got
    <3>1. Len(rob) = 0 /\ Len(q) \in Nat
      BY <1>1, <2>3, Heads
    <3>2. ~(\E i \in 1 .. NAcc : TRUE)
      BY <3>1 DEF NAcc
    <3> QED  BY <1>1, <3>2 DEF OwnInv, Owned
  <2>5. ~t_push_miss /\ ~t_pop_mq /\ ~Pops
    BY <2>3, <2>4 DEF t_push_miss, t_incr_busy, t_pop_mq, Pops, t_got_rd_retry, FiresStore, t_force_clear_busy, Served
  <2>6. Len(mq') = 0 /\ mq' \in Seq(LiveReqs)
    BY <1>1, <2>3, <2>5 DEF MqStep, Slid
  <2>7. state # "HANDLE_RELOAD"
    BY <2>2 DEF FlushStates, StartFlush, StartFlushCl, Active
  <2>8. ~p1'.got
    BY <1>1, <2>5, <2>7, P1Next
  <2> QED  BY <2>6, <2>8
<1>17. /\ prog' = prog
       /\ (prog[pc].op)' = prog[pc'].op /\ Len(prog)' = Len(prog)
  BY <1>1
<1> QED  BY <1>2, <1>3, <1>6, <1>7, <1>9, <1>12, <1>13, <1>15, <1>16, <1>17 DEF FlushInv

LEMMA TypeKept ==
    ASSUME FlowInv, Inv', NEW n, NEW is, NEW sq, NEW rs, Clock(n, is, sq, rs)
    PROVE  TypeInv'
<1>1. /\ n \in 0 .. 2 /\ is \in BOOLEAN /\ sq \in BOOLEAN /\ rs \in BOOLEAN /\ TypeInv /\ WalkOK /\ FlushAt
      /\ Cache /\ Registers /\ UNCHANGED prog /\ CoreStep(n, is, sq, rs)
  BY ClockFacts DEF FlowInv
<1>2. PortType'
  BY <1>1, PortsKeepType
<1>3. ArrayType'
  BY <1>1, ArraysKeepType
<1>4. CoreType'
  BY <1>1, CoreKeepsType
<1> QED  BY <1>2, <1>3, <1>4 DEF TypeInv

-----------------------------------------------------------------------------
LEMMA FlowStep ==
    ASSUME FlowInv, Inv', Next
    PROVE  FlowInv'
<1>1. PICK n \in 0 .. 2, is, sq, rs \in BOOLEAN : CoreStep(n, is, sq, rs)
  BY DEF Next
<1>2. Clock(n, is, sq, rs)
  BY <1>1 DEF Clock, Next
<1>3. TypeInv'
  BY <1>2, TypeKept
<1>4. RingInv' /\ MirrorInv' /\ OrderInv' /\ OwnInv'
  BY <1>2, RingKept, MirrorKept, OrderKept, OwnKept
<1>5. StoreInv' /\ PortInv' /\ DrainInv' /\ FlushInv'
  BY <1>2, StoreKept, PortKept, DrainKept, FlushKept
<1> QED  BY <1>3, <1>4, <1>5 DEF FlowInv

LEMMA FlowStutter ==
    ASSUME FlowInv, UNCHANGED vars
    PROVE  FlowInv'
<1> USE DEF vars, cacheVars, coreVars
<1>1. Busy1' = Busy1 /\ NAcc' = NAcc
  BY DEF Busy1, NAcc
<1>2. TypeInv'
  <2>1. /\ Values' = Values /\ Datas' = Datas /\ Reqs' = Reqs /\ Lines' = Lines /\ Ports' = Ports
        /\ LiveReqs' = LiveReqs /\ Entries' = Entries /\ MemReqs' = MemReqs
    BY TypesKept
  <2> QED  BY <1>1, <2>1 DEF FlowInv, TypeInv, PortType, ArrayType, CoreType
<1>3. Inv'
  BY DEF FlowInv, Inv, IsQueue, PortTwoClear, IsStore
<1>4. RingInv' /\ MirrorInv'
  BY <1>1 DEF FlowInv, RingInv, MirrorInv, Owns
<1>5. OrderInv'
  BY <1>1 DEF FlowInv, OrderInv, Before
<1>6. OwnInv'
  BY <1>1 DEF FlowInv, OwnInv, Owned, Owns, IsStore
<1>7. StoreInv'
  BY <1>1 DEF FlowInv, StoreInv, InRob, Owns, Gone, IsStore
<1>8. PortInv'
  BY DEF FlowInv, PortInv, IsStore, Set
<1>9. DrainInv'
  <2>1. Owed' = Owed
    BY <1>1 DEF Owed
  <2> QED  BY <1>1, <2>1 DEF FlowInv, DrainInv, IsStore
<1>10. FlushInv'
  BY DEF FlowInv, FlushInv
<1> QED  BY <1>2, <1>3, <1>4, <1>5, <1>6, <1>7, <1>8, <1>9, <1>10 DEF FlowInv

LEMMA FlowInit == Init => FlowInv
<1> SUFFICES ASSUME Init PROVE FlowInv
  OBVIOUS
<1>1. prog \in Programs /\ prog \in Seq(Operations) /\ Len(prog) \in Nat /\ N_ROB \in Nat \ {0} /\ MaxSquash \in Nat
      /\ N_MRQ \in Nat /\ N_MQ \in Nat /\ L1D_NUM_SETS \in Nat \ {0}
  BY L1DAssumption DEF Init
<1>2. /\ 0 \in Sets /\ 0 \in Slots /\ AnyTag \in Tags /\ 0 \in 0 .. MaxSquash /\ 0 \in Values
  BY <1>1, L1DAssumption DEF Sets, Slots, AnyTag, Values
<1>3. NoReq \in Reqs /\ Fill(0) \in Datas
  BY <1>1, <1>2 DEF NoReq, Reqs, Fill, Datas
<1>4. NoLine \in Lines /\ NoMem \in MemReqs
  BY <1>2, <1>3, LineType, MemReqType DEF NoLine, NoMem
<1>5. NoPort \in Ports /\ ~NoPort.got /\ ~NoPort.wr
  BY <1>2, <1>3, <1>4, IdlePortType DEF NoPort
<1>6. /\ p1 = NoPort /\ p2 = NoPort /\ state = "ACTIVE" /\ mq = <<>> /\ q = <<>> /\ rob = <<>>
      /\ Len(mq) = 0 /\ Len(q) = 0 /\ Len(rob) = 0
  BY DEF Init
<1>7. ~Busy1 /\ ~p1.got /\ ~p2.got /\ NAcc = 0
  BY <1>5, <1>6 DEF Busy1, NAcc
<1>8. PortType
  BY <1>5, <1>7 DEF Init, PortType
<1>9. ArrayType
  <2>1. state \in States /\ arr \in [Sets -> Lines] /\ mem \in [Sets \X Tags -> Datas] /\ mreq \in MemReqs
    BY <1>3, <1>4 DEF Init, States
  <2>2. graduated \in [Slots -> 0 .. 2]
    BY DEF Init
  <2> QED  BY <2>1, <2>2 DEF Init, ArrayType
<1>10. CoreType
  <2>1. commit \in [Sets \X Tags -> Datas]
    BY <1>3 DEF Init
  <2>2. pc \in 1 .. Len(prog) + 1
    BY <1>1 DEF Init
  <2>3. mq \in Seq(LiveReqs) /\ q \in Seq(LiveReqs) /\ rob \in Seq(Entries)
    BY <1>6
  <2> QED  BY <1>1, <1>2, <1>6, <2>1, <2>2, <2>3 DEF Init, CoreType
<1>11. RingInv
  <2>1. 0 = Wrap(0 + 0)
    BY <1>1 DEF Wrap
  <2> QED  BY <1>2, <1>6, <2>1 DEF Init, RingInv
<1>12. MirrorInv /\ OrderInv /\ OwnInv /\ StoreInv /\ PortInv
  BY <1>5, <1>6, <1>7 DEF MirrorInv, OrderInv, OwnInv, StoreInv, PortInv
<1>13. DrainInv
  <2>1. Owed = {}
    BY <1>7 DEF Owed
  <2> QED  BY <1>6, <1>7, <2>1, FS_EmptySet DEF DrainInv, Init
<1>14. FlushInv
  BY <1>6, <1>7 DEF FlushInv, FlushStates, Init
<1> QED  BY <1>8, <1>9, <1>10, <1>11, <1>12, <1>13, <1>14, InvInit DEF FlowInv, TypeInv

\* The flow of the requests through the cache (l1d.sv): the slots of the
\* reorder buffer, exec's queue, port 2, the miss queue, port 1, the registered
\* stores, the count of the owed answers and the flush agree at every clock.
THEOREM FlowInvariant == Spec => []FlowInv
<1>1. FlowInv /\ [Next]_vars => FlowInv'
  <2>1. SUFFICES ASSUME FlowInv, [Next]_vars PROVE FlowInv'
    OBVIOUS
  <2>2. Inv'
    BY <2>1, InvNext DEF FlowInv
  <2>3. CASE Next
    BY <2>1, <2>2, <2>3, FlowStep
  <2>4. CASE UNCHANGED vars
    BY <2>1, <2>4, FlowStutter
  <2> QED  BY <2>1, <2>3, <2>4
<1> QED  BY <1>1, FlowInit, PTL DEF Spec

\* No more answers are owed than the buffer has entries.
LEMMA OwedBound ==
    ASSUME FlowInv
    PROVE  n_inflight \in 0 .. N_ROB
<1>1. /\ IsFiniteSet(Owed) /\ n_inflight = Cardinality(Owed) /\ Len(q) <= Len(rob) /\ Len(rob) <= N_ROB
      /\ Len(rob) \in Nat /\ Len(q) \in Nat /\ N_ROB \in Nat
  BY Heads, L1DAssumption DEF FlowInv, DrainInv, MirrorInv, TypeInv, CoreType
<1>2. NAcc \in Nat /\ NAcc <= N_ROB
  BY <1>1 DEF NAcc
<1> DEFINE S == {j \in 1 .. NAcc : ~rob[j].done}
           f == [j \in S |-> rob[j].k]
<1>3. IsFiniteSet(1 .. NAcc) /\ Cardinality(1 .. NAcc) = NAcc
  BY <1>2, FS_Interval
<1>4. IsFiniteSet(S) /\ Cardinality(S) <= NAcc /\ Cardinality(S) \in Nat
  <2>1. S \in SUBSET (1 .. NAcc)
    OBVIOUS
  <2> HIDE DEF S
  <2> QED  BY <1>3, <2>1, FS_Subset, FS_CardinalityType
<1>5. f \in Surjection(S, Owed)
  BY DEF Surjection, Owed
<1>6. Cardinality(Owed) <= Cardinality(S) /\ Cardinality(Owed) \in Nat
  <2> HIDE DEF S, f
  <2> QED  BY <1>1, <1>4, <1>5, FS_Surjection, FS_CardinalityType
<1> QED  BY <1>1, <1>2, <1>4, <1>6

\* Every register of the cache and of the core around it keeps its type, and no
\* queue of l1d.sv or exec.sv overflows.
THEOREM TypeCorrect == Spec => []TypeOK
<1>1. FlowInv => TypeOK
  <2>1. SUFFICES ASSUME FlowInv PROVE TypeOK
    OBVIOUS
  <2>2. PortType /\ ArrayType /\ CoreType
    BY <2>1 DEF FlowInv, TypeInv
  <2>3. LiveReqs \subseteq Reqs
    BY <2>2, Consts
  <2>4. Among(mq, Reqs, N_MRQ) /\ Among(q, Reqs, N_MQ)
    BY <2>2, <2>3 DEF CoreType, Among
  <2>5. Among(rob, Entries, N_ROB)
    BY <2>2 DEF CoreType, Among
  <2>6. n_inflight \in 0 .. N_ROB
    BY <2>1, OwedBound
  <2>7. /\ state \in States /\ DOMAIN arr = Sets /\ \A s \in Sets : arr[s] \in Lines
    BY <2>2 DEF ArrayType
  <2> QED
    BY <2>2, <2>4, <2>5, <2>6, <2>7 DEF TypeOK, PortType, ArrayType, CoreType, States, Entries, MemReqs
<1> QED  BY <1>1, FlowInvariant, PTL

\* An answer of the cache, from either port, goes to an operation that is in the
\* reorder buffer and has none yet, across squashes and restarts.
THEOREM AnswersOnce == Spec => []AnsweredOnce
<1>1. FlowInv => AnsweredOnce
  <2>1. SUFFICES ASSUME FlowInv, core_mem_rsp_valid
                 PROVE  \E i \in DOMAIN rob : /\ rob[i].slot = rsp_req.slot /\ rob[i].k = rsp_req.k
                                              /\ rob[i].ep = rsp_req.ep /\ ~rob[i].done
    BY DEF AnsweredOnce
  <2>2. PICK i \in 1 .. NAcc : Owns(i, rsp_req) /\ ~rob[i].done
    BY <2>1, Answer DEF Owned
  <2>3. Len(q) \in Nat /\ Len(rob) \in Nat /\ DOMAIN rob = 1 .. Len(rob)
    BY <2>1, Heads DEF FlowInv, TypeInv, CoreType
  <2>4. i \in DOMAIN rob
    BY <2>3 DEF NAcc
  <2> QED  BY <2>2, <2>4 DEF Owns
<1> QED  BY <1>1, FlowInvariant, PTL

\* The assertions of l1d.sv at 468, 493, 1564, 1695, 1718 and 1906 hold, and
\* WAIT_INJECT_RELOAD is never entered, for every shape of the cache, every
\* program and every order of events.  The assertion at 1365, a bound on the time
\* a store waits for its retirement, is not a consequence of this model.
THEOREM OrderAssertionsHold == Spec => []OrderAssertions
<1>1. FlowInv => OrderAssertions
  <2>1. SUFFICES ASSUME FlowInv PROVE OrderAssertions
    OBVIOUS
  <2>2. CoreType /\ RingInv /\ StoreInv /\ PortInv /\ DrainInv /\ PortTwoClear
    BY <2>1 DEF FlowInv, TypeInv, Inv
  <2>3. t_incr_busy => graduated[p2.req.slot] = 0
    BY <2>2 DEF StoreInv, t_incr_busy
  <2>4. drain => retired = {}
    BY <2>2 DEF RingInv
  <2>5. Hit1 => p1.retry \/ p1.reload
    BY <2>2 DEF PortInv, Hit1
  <2>6. t_force_clear_busy => ~(t_push_miss /\ memq_empty)
    BY <2>2 DEF t_force_clear_busy, t_push_miss, t_incr_busy, DrainInv
  <2>7. Served /\ IsStore(t_mem_head) => graduated[t_mem_head.slot] # 0
    <3>1. Served => t_mem_head = mq[1] /\ 1 \in 1 .. Len(mq)
      BY <2>2, Heads DEF Served
    <3> QED  BY <2>2, <3>1 DEF StoreInv
  <2>8. Reloads => rr_wr # p1.idx
    BY <2>2 DEF PortInv, Reloads, t_got_miss
  <2>9. t_push_miss => Len(mq) < N_MRQ
    BY <2>2 DEF PortTwoClear, t_push_miss, t_incr_busy
  <2> QED  BY <2>3, <2>4, <2>5, <2>6, <2>7, <2>8, <2>9 DEF OrderAssertions
<1> QED  BY <1>1, FlowInvariant, PTL
=============================================================================
