----------------------------- MODULE CoreProofs -----------------------------
(***************************************************************************)
(* Proofs about the core, for every program and every size of its queues.  *)
(***************************************************************************)
EXTENDS Core, TLAPS, SequenceTheorems

-----------------------------------------------------------------------------
(* Program counters and paths.                                             *)

Uop == [pc : PC, pred : BOOLEAN]
Cursor == [pc : PC, tgt : PC]
RobEntry == [pc : PC, pred : BOOLEAN, flt : BOOLEAN, take : BOOLEAN, ds : BOOLEAN]

\* The program is finite, and its targets are program counters.
LEMMA ProgramFacts ==
    /\ Len(Program) \in Nat
    /\ \A pc \in PC : Op(pc) \in Ops /\ Tgt(pc) \in PC
<1>1. Len(Program) \in Nat
  BY CoreAssumption
<1>2. ASSUME NEW pc \in 1 .. Len(Program)
      PROVE  Program[pc].op \in Ops /\ Program[pc].tgt \in PC
  <2>1. Program[pc] \in [op : Ops, tgt : Nat]
    BY CoreAssumption, <1>2, ElementOfSeq
  <2>2. Program[pc].tgt \in Nat /\ Program[pc].tgt <= Len(Program) + 1
    BY <2>1, CoreAssumption
  <2> QED  BY <1>1, <2>1, <2>2 DEF PC
<1>3. "nop" \in Ops /\ 0 \in PC
  BY <1>1 DEF Ops, PC
<1> QED  BY <1>1, <1>2, <1>3 DEF Op, Tgt

\* The next words are program counters.
LEMMA PlusType ==
    ASSUME NEW pc \in PC, NEW n \in {1, 2}
    PROVE  Plus(pc, n) \in PC
BY ProgramFacts DEF Plus, PC

\* A step along a path stays among the program counters.
LEMMA FollowType ==
    ASSUME NEW c \in Cursor, NEW taken
    PROVE  Follow(c, taken) \in Cursor /\ Executes(c, taken) \in Cursor
<1>1. c.pc \in PC /\ c.tgt \in PC
  BY DEF Cursor
<1>2. Plus(c.pc, 1) \in PC /\ Plus(c.pc, 2) \in PC /\ Tgt(c.pc) \in PC /\ 0 \in PC
  <2>1. 0 \in PC
    BY ProgramFacts DEF PC
  <2> QED  BY <1>1, <2>1, PlusType, ProgramFacts
<1>3. Follow(c, taken) \in Cursor
  BY <1>1, <1>2 DEF Follow, Cursor
<1> QED  BY <1>1, <1>2, <1>3 DEF Executes, Cursor

\* A restart goes to a program counter.
LEMMA TargetType ==
    ASSUME NEW e \in RobEntry
    PROVE  TargetPC(e) \in PC
<1>1. e.pc \in PC
  BY DEF RobEntry
<1> QED  BY <1>1, PlusType, ProgramFacts DEF TargetPC

-----------------------------------------------------------------------------
(* The pointers of the reorder buffer.                                     *)

\* A pointer moves to a pointer, and its low bits select a slot.
LEMMA PtrClosed ==
    ASSUME NEW p \in R!Ptr, NEW n \in 0 .. 2
    PROVE  /\ R!Move(p, n) \in R!Ptr
           /\ R!Inc(p) \in R!Ptr
           /\ R!Idx(p) \in Slots
BY CoreAssumption DEF R!Move, R!Ptr, R!Inc, R!Inc2, R!Idx, Slots, R!Index

\* The flags of the buffer say how many uops it holds.
LEMMA CountFlags ==
    ASSUME NEW h \in R!Ptr, NEW t \in R!Ptr
    PROVE  /\ R!Count(h, t) \in Nat
           /\ R!IsEmpty(h, t) <=> R!Count(h, t) = 0
           /\ R!IsFull(h, t) <=> R!Count(h, t) = ROB_ENTRIES
           /\ R!NextEmpty(R!Inc(h), t) <=> R!Count(h, t) = 1
           /\ R!NextFull(h, R!Inc(t)) <=> R!Count(h, t) = ROB_ENTRIES - 1
BY CoreAssumption DEF R!Ptr, R!Count, R!IsEmpty, R!IsFull, R!NextEmpty, R!NextFull, R!Inc, R!Idx

\* Allocating a and retiring n uops changes the occupancy by a - n.
LEMMA CountMoves ==
    ASSUME NEW h \in R!Ptr, NEW t \in R!Ptr, NEW a \in 0 .. 2, NEW n \in 0 .. 2,
           R!Count(h, t) + a <= ROB_ENTRIES, n <= R!Count(h, t)
    PROVE  R!Count(R!Move(h, n), R!Move(t, a)) = R!Count(h, t) + a - n
BY CoreAssumption DEF R!Ptr, R!Count, R!Move, R!Inc, R!Inc2

\* The live slots of pointers h and t.
LiveBetween(h, t) == {R!At(h, i) : i \in 0 .. (R!Count(h, t) - 1)}

\* How far slot s lies behind the head.
Distance(h, s) == IF s >= R!Idx(h) THEN s - R!Idx(h) ELSE s - R!Idx(h) + ROB_ENTRIES

\* The live slots are those whose distance from the head is below the occupancy.
LEMMA LiveIff ==
    ASSUME NEW h \in R!Ptr, NEW t \in R!Ptr, R!Count(h, t) <= ROB_ENTRIES, NEW s
    PROVE  s \in LiveBetween(h, t) <=> s \in Slots /\ Distance(h, s) < R!Count(h, t)
<1> DEFINE c == R!Count(h, t)
<1>1. c \in Nat /\ c <= ROB_ENTRIES
  BY CountFlags
<1> HIDE DEF c
<1>2. ASSUME NEW i \in 0 .. (c - 1)
      PROVE  R!At(h, i) \in Slots /\ Distance(h, R!At(h, i)) = i
  BY <1>1, CoreAssumption DEF R!At, R!Idx, R!Ptr, Slots, R!Index, Distance
<1>3. ASSUME s \in Slots, Distance(h, s) < c
      PROVE  Distance(h, s) \in 0 .. (c - 1) /\ R!At(h, Distance(h, s)) = s
  BY <1>1, <1>3, CoreAssumption DEF R!At, R!Idx, R!Ptr, Slots, R!Index, Distance
<1>4. LiveBetween(h, t) = {R!At(h, i) : i \in 0 .. (c - 1)}
  BY DEF LiveBetween, c
<1>5. ASSUME s \in LiveBetween(h, t) PROVE s \in Slots /\ Distance(h, s) < c
  <2>1. PICK i \in 0 .. (c - 1) : s = R!At(h, i)
    BY <1>4, <1>5
  <2> QED  BY <1>1, <1>2, <2>1
<1>6. ASSUME s \in Slots, Distance(h, s) < c PROVE s \in LiveBetween(h, t)
  BY <1>3, <1>4, <1>6
<1> QED  BY <1>5, <1>6 DEF c

\* The slots that a new uops are written to, and the slots that n retired ones leave.
NewSlots(t, a) == (IF a >= 1 THEN {R!Idx(t)} ELSE {}) \cup (IF a = 2 THEN {R!Idx(R!Inc(t))} ELSE {})
FreedSlots(h, n) == (IF n >= 1 THEN {R!Idx(h)} ELSE {}) \cup (IF n = 2 THEN {R!Idx(R!Inc(h))} ELSE {})

\* Uops are written to slots that are not live, and leave slots that are.
LEMMA NewAndFreed ==
    ASSUME NEW h \in R!Ptr, NEW t \in R!Ptr, NEW a \in 0 .. 2, NEW n \in 0 .. 2,
           R!Count(h, t) + a <= ROB_ENTRIES, n <= R!Count(h, t)
    PROVE  /\ NewSlots(t, a) \subseteq Slots \ LiveBetween(h, t)
           /\ FreedSlots(h, n) \subseteq LiveBetween(h, t)
           /\ a = 2 => R!Idx(t) # R!Idx(R!Inc(t))
<1>1. R!Count(h, t) \in Nat /\ R!Count(h, t) <= ROB_ENTRIES
  BY CountFlags, CoreAssumption
<1>2. ASSUME NEW s \in NewSlots(t, a) PROVE s \in Slots /\ ~(Distance(h, s) < R!Count(h, t))
  BY CoreAssumption, <1>1 DEF NewSlots, R!Count, Distance, R!Inc, R!Idx, R!Ptr, Slots, R!Index
<1>3. ASSUME NEW s \in FreedSlots(h, n) PROVE s \in Slots /\ Distance(h, s) < R!Count(h, t)
  BY CoreAssumption, <1>1 DEF FreedSlots, R!Count, Distance, R!Inc, R!Idx, R!Ptr, Slots, R!Index
<1>4. a = 2 => R!Idx(t) # R!Idx(R!Inc(t))
  BY CoreAssumption, <1>1 DEF R!Inc, R!Idx, R!Ptr
<1> QED  BY <1>1, <1>2, <1>3, <1>4, LiveIff

\* The live slots after a clock.
LEMMA LiveMoves ==
    ASSUME NEW h \in R!Ptr, NEW t \in R!Ptr, NEW a \in 0 .. 2, NEW n \in 0 .. 2,
           R!Count(h, t) + a <= ROB_ENTRIES, n <= R!Count(h, t)
    PROVE  LiveBetween(R!Move(h, n), R!Move(t, a))
             = (LiveBetween(h, t) \ FreedSlots(h, n)) \cup NewSlots(t, a)
<1>1. R!Count(h, t) \in Nat /\ R!Count(h, t) <= ROB_ENTRIES
  BY CountFlags, CoreAssumption
<1>2. R!Count(R!Move(h, n), R!Move(t, a)) = R!Count(h, t) + a - n
  BY CountMoves
<1>7. R!Count(R!Move(h, n), R!Move(t, a)) <= ROB_ENTRIES
  BY <1>1, <1>2, CoreAssumption
<1>3. R!Move(h, n) \in R!Ptr /\ R!Move(t, a) \in R!Ptr
  BY PtrClosed
<1>4. ASSUME NEW s \in Slots
      PROVE  Distance(R!Move(h, n), s) < R!Count(h, t) + a - n
               <=> \/ Distance(h, s) < R!Count(h, t) /\ s \notin FreedSlots(h, n)
                   \/ s \in NewSlots(t, a)
  BY CoreAssumption, <1>1
     DEF NewSlots, FreedSlots, R!Count, Distance, R!Inc, R!Inc2, R!Move, R!Idx, R!Ptr, Slots, R!Index
<1>5. NewSlots(t, a) \subseteq Slots
  BY NewAndFreed
<1>6. ASSUME NEW s
      PROVE  s \in LiveBetween(R!Move(h, n), R!Move(t, a))
               <=> s \in (LiveBetween(h, t) \ FreedSlots(h, n)) \cup NewSlots(t, a)
  <2>1. s \in LiveBetween(R!Move(h, n), R!Move(t, a))
          <=> s \in Slots /\ Distance(R!Move(h, n), s) < R!Count(h, t) + a - n
    BY <1>2, <1>3, <1>7, LiveIff
  <2>2. s \in LiveBetween(h, t) <=> s \in Slots /\ Distance(h, s) < R!Count(h, t)
    BY <1>1, LiveIff
  <2> QED  BY <1>4, <1>5, <2>1, <2>2
<1> QED  BY <1>6

-----------------------------------------------------------------------------
(* What every clock does to the decode queue and the fetch engine.         *)

\* The shape of the state that no register shows by itself: where the drain
\* flag may be up, and where the reorder buffer and the decode queue are known
\* to be empty or not.
FsmShape ==
    /\ ds_done => state \in {"DRAIN", "EXCEPTION_DRAIN", "RAT"}
    /\ state \in {"EXCEPTION_DRAIN", "RAT"} => ds_done
    /\ state \in {"ALLOC_FOR_SERIALIZE", "MONITOR_FLUSH_CACHE", "HANDLE_MONITOR", "ALLOC_FOR_MONITOR"}
         => RobEmpty /\ dq # <<>>
    /\ HeadIsLive

TypeInv == TypeOK /\ dq \in Seq(Uop)

\* The fetch queue shows up to two uops.
LEMMA OffersType ==
    ASSUME TypeInv, NEW ins \in Offers
    PROVE  ins \in Seq(Uop) /\ Len(ins) \in 0 .. 2
<1>1. fe.pc \in PC /\ fe.tgt \in PC
  BY DEF TypeInv, TypeOK
<1>2. \A pc \in PC : Predictions(pc) \subseteq BOOLEAN
  <2>1. \A pc \in PC : (Op(pc) \in {"brl", "j"}) \in BOOLEAN
    OBVIOUS
  <2> QED  BY <2>1, Zenon DEF Predictions
<1>3. ASSUME NEW p PROVE Follow([pc |-> fe.pc, tgt |-> fe.tgt], p).pc \in PC
  <2>1. [pc |-> fe.pc, tgt |-> fe.tgt] \in Cursor
    BY <1>1 DEF Cursor
  <2> QED  BY <2>1, FollowType DEF Cursor
<1> DEFINE one == {[pc |-> fe.pc, pred |-> p] : p \in Predictions(fe.pc)}
           nxt(u) == Follow([pc |-> fe.pc, tgt |-> fe.tgt], u.pred).pc
<1>4. one \subseteq Uop
  BY <1>1, <1>2 DEF Uop
<1>5. \A u \in one : nxt(u) \in PC
  BY <1>3
<1>6. \A u \in one : \A p \in Predictions(nxt(u)) : [pc |-> nxt(u), pred |-> p] \in Uop
  BY <1>5, <1>2 DEF Uop
<1> HIDE DEF nxt, one
<1>7. \/ ins = <<>>
      \/ \E u \in one : ins = <<u>>
      \/ \E u \in one : \E p \in Predictions(nxt(u)) : ins = <<u, [pc |-> nxt(u), pred |-> p]>>
  BY DEF Offers, one, nxt
<1>8. CASE ins = <<>>
  BY <1>8
<1>9. ASSUME NEW u \in one, ins = <<u>>
      PROVE  ins \in Seq(Uop) /\ Len(ins) \in 0 .. 2
  BY <1>4, <1>9
<1>10. ASSUME NEW u \in one, NEW p \in Predictions(nxt(u)), ins = <<u, [pc |-> nxt(u), pred |-> p]>>
       PROVE  ins \in Seq(Uop) /\ Len(ins) \in 0 .. 2
  <2> DEFINE v == [pc |-> nxt(u), pred |-> p]
  <2>1. u \in Uop /\ v \in Uop
    BY <1>4, <1>6
  <2>2. ins = <<u, v>>
    BY <1>10
  <2> HIDE DEF v
  <2> QED  BY <2>1, <2>2
<1> QED  BY <1>7, <1>8, <1>9, <1>10

\* No more is taken than is shown, and it fits behind what the allocation leaves.
LEMMA AcceptedFits ==
    ASSUME TypeInv, NEW ins \in Offers
    PROVE  Accepted(ins) \in 0 .. 2 /\ Accepted(ins) <= Len(ins) /\ Len(dq) + Accepted(ins) <= DQ_ENTRIES
<1>1. Len(ins) \in 0 .. 2 /\ Len(dq) \in Nat /\ Len(dq) <= DQ_ENTRIES
  BY OffersType DEF TypeInv, TypeOK
<1>2. DQ_ENTRIES \in Nat
  BY CoreAssumption
<1>3. CASE Len(ins) = 0 \/ Len(dq) = DQ_ENTRIES
  <2>1. Accepted(ins) = 0
    BY <1>3 DEF Accepted
  <2> QED  BY <1>1, <1>2, <2>1
<1>4. CASE Len(ins) # 0 /\ Len(dq) # DQ_ENTRIES /\ Len(ins) = 2 /\ Len(dq) + 2 <= DQ_ENTRIES
  <2>1. Accepted(ins) = 2
    BY <1>4 DEF Accepted
  <2> QED  BY <1>1, <1>2, <1>4, <2>1
<1>5. CASE Len(ins) # 0 /\ Len(dq) # DQ_ENTRIES /\ ~(Len(ins) = 2 /\ Len(dq) + 2 <= DQ_ENTRIES)
  <2>1. Accepted(ins) = 1
    BY <1>5 DEF Accepted
  <2> QED  BY <1>1, <1>2, <1>5, <2>1
<1> QED  BY <1>3, <1>4, <1>5

\* The decode queue after a clock that allocates na uops.
LEMMA DecodeQueue ==
    ASSUME TypeInv, NEW na \in 0 .. 2, na <= Len(dq), NEW clr_dq \in BOOLEAN, Decode(na, clr_dq)
    PROVE  /\ dq' \in Seq(Uop)
           /\ Len(dq') <= DQ_ENTRIES
           /\ clr_dq => dq' = <<>>
           /\ ~clr_dq => Len(dq') >= Len(dq) - na
<1>1. PICK ins \in Offers :
         dq' = IF clr_dq THEN <<>> ELSE SubSeq(dq, na + 1, Len(dq)) \o SubSeq(ins, 1, Accepted(ins))
  BY DEF Decode
<1>2. dq \in Seq(Uop) /\ Len(dq) \in Nat /\ DQ_ENTRIES \in Nat
  BY CoreAssumption DEF TypeInv
<1>3. /\ ins \in Seq(Uop) /\ Len(ins) \in 0 .. 2
      /\ Accepted(ins) \in 0 .. 2 /\ Accepted(ins) <= Len(ins) /\ Len(dq) + Accepted(ins) <= DQ_ENTRIES
  BY OffersType, AcceptedFits
<1>4. /\ SubSeq(dq, na + 1, Len(dq)) \in Seq(Uop)
      /\ Len(SubSeq(dq, na + 1, Len(dq))) = Len(dq) - na
  <2>1. \A i \in (na + 1) .. Len(dq) : dq[i] \in Uop
    BY <1>2, ElementOfSeq
  <2> QED  BY <1>2, <2>1, SubSeqProperties
<1>5. /\ SubSeq(ins, 1, Accepted(ins)) \in Seq(Uop)
      /\ Len(SubSeq(ins, 1, Accepted(ins))) = Accepted(ins)
  <2>1. \A i \in 1 .. Accepted(ins) : ins[i] \in Uop
    BY <1>3, ElementOfSeq
  <2> QED  BY <1>3, <2>1, SubSeqProperties
<1>6. CASE clr_dq
  BY <1>1, <1>2, <1>6
<1>7. CASE ~clr_dq
  <2> DEFINE s == SubSeq(dq, na + 1, Len(dq))
             u == SubSeq(ins, 1, Accepted(ins))
  <2>1. s \o u \in Seq(Uop) /\ Len(s \o u) = Len(s) + Len(u)
    BY <1>4, <1>5, ConcatProperties
  <2>2. dq' = s \o u
    BY <1>1, <1>7
  <2> HIDE DEF s, u
  <2>3. Len(s) = Len(dq) - na /\ Len(u) = Accepted(ins)
    BY <1>4, <1>5 DEF s, u
  <2> QED  BY <1>2, <1>3, <1>7, <2>1, <2>2, <2>3
<1> QED  BY <1>6, <1>7

FetchEngine == [st : FeStates, pc : PC, tgt : PC, req : BOOLEAN, ack : BOOLEAN, gap : 0 .. 2,
                flush : BOOLEAN, done : BOOLEAN]

\* The four outcomes of a clock of the fetch engine, and the cursor after the
\* acknowledged uops.
NextReq == restart_valid \/ fe.req
NextFlush == flush_req = "all" \/ fe.flush
Moved(ins, acked) ==
    LET cursor == [pc |-> fe.pc, tgt |-> fe.tgt]
    IN  IF acked = 0 THEN cursor
        ELSE IF acked = 1 THEN Follow(cursor, ins[1].pred)
        ELSE Follow(Follow(cursor, ins[1].pred), ins[2].pred)
Idling(m) == [st |-> fe.st, pc |-> m.pc, tgt |-> m.tgt, req |-> NextReq, ack |-> FALSE,
              gap |-> IF fe.gap = 0 THEN 0 ELSE fe.gap - 1, flush |-> NextFlush, done |-> FALSE]
Restarted == [st |-> "ACTIVE", pc |-> restart_pc, tgt |-> 0, req |-> FALSE, ack |-> TRUE,
              gap |-> 2, flush |-> NextFlush, done |-> FALSE]
Flushing == [st |-> "FLUSH_CACHE", pc |-> 0, tgt |-> 0, req |-> NextReq, ack |-> FALSE,
             gap |-> 0, flush |-> FALSE, done |-> FALSE]
Flushed(m) == [st |-> "IDLE", pc |-> m.pc, tgt |-> m.tgt, req |-> NextReq, ack |-> FALSE,
               gap |-> IF fe.gap = 0 THEN 0 ELSE fe.gap - 1, flush |-> NextFlush, done |-> TRUE]

\* Which outcome is possible when.
FetchStep(m, next) ==
    \/ next = Idling(m) /\ fe.st = "IDLE" /\ ~NextReq
    \/ next = Restarted /\ fe.st = "IDLE" /\ NextReq
    \/ next = Idling(m) /\ fe.st = "FLUSH_CACHE"
    \/ next = Flushed(m) /\ fe.st = "FLUSH_CACHE"
    \/ next = Flushing /\ fe.st = "ACTIVE" /\ NextFlush
    \/ next = Restarted /\ fe.st = "ACTIVE" /\ ~NextFlush /\ NextReq
    \/ next = Idling(m) /\ fe.st = "ACTIVE" /\ ((~NextFlush /\ ~NextReq) \/ fe.gap = 0)

LEMMA FetchCases ==
    ASSUME TypeInv, NEW ins, NEW acked, NEW next \in Fetch(ins, acked)
    PROVE  FetchStep(Moved(ins, acked), next)
<1>1. fe.st \in {"IDLE", "ACTIVE", "FLUSH_CACHE"}
  BY DEF TypeInv, TypeOK, FeStates
<1> DEFINE m == Moved(ins, acked)
<1>3. next \in CASE fe.st = "IDLE" -> {IF NextReq THEN Restarted ELSE Idling(m)}
                 [] fe.st = "FLUSH_CACHE" -> {Idling(m), Flushed(m)}
                 [] fe.st = "ACTIVE" ->
                      {IF NextFlush THEN Flushing ELSE IF NextReq THEN Restarted ELSE Idling(m)}
                      \cup (IF fe.gap = 0 THEN {Idling(m)} ELSE {})
  BY Zenon DEF Fetch, NextReq, NextFlush, Idling, Restarted, Flushing, Flushed, Moved
<1> HIDE DEF m
<1>4. CASE fe.st = "IDLE"
  BY <1>3, <1>4 DEF FetchStep, m
<1>5. CASE fe.st = "FLUSH_CACHE"
  BY <1>3, <1>5 DEF FetchStep, m
<1>6. CASE fe.st = "ACTIVE"
  BY <1>3, <1>6 DEF FetchStep, m
<1> QED  BY <1>1, <1>4, <1>5, <1>6

\* The fetch engine keeps its type.
LEMMA FetchType ==
    ASSUME TypeInv, NEW na, NEW clr_dq, Decode(na, clr_dq)
    PROVE  fe' \in FetchEngine
<1>1. PICK ins \in Offers, acked \in 0 .. 2 : fe' \in Fetch(ins, acked)
  <2>1. PICK ins \in Offers : fe' \in Fetch(ins, IF state = "ACTIVE" THEN Accepted(ins) ELSE 0)
    BY DEF Decode
  <2>2. Accepted(ins) \in 0 .. 2
    BY AcceptedFits
  <2> QED  BY <2>1, <2>2
<1>2. /\ fe \in FetchEngine /\ restart_pc \in PC
      /\ restart_valid \in BOOLEAN
  BY DEF TypeInv, TypeOK, FetchEngine
<1>3. [pc |-> fe.pc, tgt |-> fe.tgt] \in Cursor
  BY <1>2 DEF FetchEngine, Cursor
<1>4. Moved(ins, acked) \in Cursor
  BY <1>1, <1>3, FollowType DEF Moved
<1>5. 0 \in PC
  BY ProgramFacts DEF PC
<1>6. NextReq \in BOOLEAN /\ NextFlush \in BOOLEAN
  BY DEF NextReq, NextFlush
<1> DEFINE m == Moved(ins, acked)
<1> HIDE DEF m
<1>7. m \in Cursor
  BY <1>4 DEF m
<1>8. (IF fe.gap = 0 THEN 0 ELSE fe.gap - 1) \in 0 .. 2
  BY <1>2 DEF FetchEngine
<1>9. /\ Idling(m) \in FetchEngine /\ Restarted \in FetchEngine
      /\ Flushing \in FetchEngine /\ Flushed(m) \in FetchEngine
  BY <1>2, <1>5, <1>6, <1>7, <1>8
     DEF Idling, Restarted, Flushing, Flushed, FetchEngine, FeStates, Cursor
<1>10. FetchStep(m, fe')
  BY <1>1, FetchCases DEF m
<1> QED  BY <1>9, <1>10 DEF FetchStep

-----------------------------------------------------------------------------
(* What every clock does to the reorder buffer and the units.              *)

\* A completed entry is an entry.
LEMMA CompletedEntry ==
    ASSUME NEW e \in RobEntry, NEW b \in BOOLEAN
    PROVE  /\ Completed(e, b) \in RobEntry
           /\ Completed(e, b).pc = e.pc /\ Completed(e, b).pred = e.pred /\ Completed(e, b).ds = e.ds
           /\ Completed(e, b).flt = Faulted(e, b) /\ Completed(e, b).take = b
<1>1. Faulted(e, b) \in BOOLEAN
  BY DEF Faulted
<1> QED  BY <1>1 DEF Completed, RobEntry

\* An allocated uop becomes an entry.
LEMMA NewEntry ==
    ASSUME NEW u \in Uop, NEW ds \in BOOLEAN
    PROVE  /\ Entry(u, ds) \in RobEntry
           /\ Entry(u, ds).pc = u.pc /\ Entry(u, ds).pred = u.pred /\ Entry(u, ds).ds = ds
<1>1. u.pc \in PC /\ u.pred \in BOOLEAN
  BY DEF Uop
<1>2. (Op(u.pc) = "ii") \in BOOLEAN /\ (Op(u.pc) = "j") \in BOOLEAN
  OBVIOUS
<1> DEFINE f == (Op(u.pc) = "ii")
           b == (Op(u.pc) = "j")
<1>3. Entry(u, ds) = [pc |-> u.pc, pred |-> u.pred, flt |-> f, take |-> b, ds |-> ds]
  BY Zenon DEF Entry
<1>4. f \in BOOLEAN /\ b \in BOOLEAN
  BY <1>2
<1> HIDE DEF f, b
<1> QED  BY <1>1, <1>3, <1>4 DEF RobEntry

\* The allocation and the retirement of a clock find room and uops.
Fits(na, nr) ==
    /\ na \in 0 .. 2 /\ nr \in 0 .. 2
    /\ na <= Len(dq) /\ R!Count(head, tail) + na <= ROB_ENTRIES
    /\ nr <= R!Count(head, tail)

Occupancy == R!Count(head, tail)

\* The pointers, the occupancy and the live slots after a clock.
LEMMA BufferPointers ==
    ASSUME TypeInv, NEW na, NEW nr, Fits(na, nr), NEW clr_rob \in BOOLEAN, NEW clr_dq,
           Buffer(na, nr, clr_rob, clr_dq)
    PROVE  /\ head' \in R!Ptr /\ tail' \in R!Ptr
           /\ Occupancy' = IF clr_rob THEN 0 ELSE Occupancy + na - nr
           /\ Occupancy' <= ROB_ENTRIES
           /\ Live' = IF clr_rob THEN {}
                      ELSE (Live \ FreedSlots(head, nr)) \cup NewSlots(tail, na)
           /\ RobEmpty' <=> Occupancy' = 0
           /\ NewSlots(tail, na) \subseteq Slots \ Live
           /\ FreedSlots(head, nr) \subseteq Live
           /\ Live \subseteq Slots /\ Live' \subseteq Slots
<1>1. head \in R!Ptr /\ tail \in R!Ptr /\ R!Count(head, tail) <= ROB_ENTRIES
  BY DEF TypeInv, TypeOK
<1>2. R!Count(head, tail) \in Nat /\ ROB_ENTRIES \in Nat /\ ROB_ENTRIES >= 2
  BY <1>1, CountFlags, CoreAssumption
<1>3. /\ na \in 0 .. 2 /\ nr \in 0 .. 2
      /\ R!Count(head, tail) + na <= ROB_ENTRIES /\ nr <= R!Count(head, tail)
  BY DEF Fits
<1>4. /\ head' = IF clr_rob THEN 0 ELSE R!Move(head, nr)
      /\ tail' = IF clr_rob THEN 0 ELSE R!Move(tail, na)
  BY DEF Buffer
<1>5. Live = LiveBetween(head, tail) /\ Live' = LiveBetween(head', tail')
  BY DEF Live, LiveBetween
<1>6. /\ NewSlots(tail, na) \subseteq Slots \ Live
      /\ FreedSlots(head, nr) \subseteq Live
  BY <1>1, <1>3, <1>5, NewAndFreed
<1>9. Live \subseteq Slots
  BY <1>1, <1>5, LiveIff
<1>7. CASE clr_rob
  <2>1. head' = 0 /\ tail' = 0 /\ 0 \in R!Ptr
    BY <1>2, <1>4, <1>7 DEF R!Ptr
  <2>2. R!Count(head', tail') = 0
    BY <2>1 DEF R!Count
  <2>3. LiveBetween(head', tail') = {}
    BY <2>2 DEF LiveBetween
  <2> QED  BY <1>2, <1>5, <1>6, <1>7, <1>9, <2>1, <2>2, <2>3 DEF Occupancy, RobEmpty, R!IsEmpty
<1>8. CASE ~clr_rob
  <2>1. head' = R!Move(head, nr) /\ tail' = R!Move(tail, na)
    BY <1>4, <1>8
  <2>2. head' \in R!Ptr /\ tail' \in R!Ptr
    BY <1>1, <1>3, <2>1, PtrClosed
  <2>3. R!Count(head', tail') = R!Count(head, tail) + na - nr
    BY <1>1, <1>3, <2>1, CountMoves
  <2>4. LiveBetween(head', tail') = (Live \ FreedSlots(head, nr)) \cup NewSlots(tail, na)
    BY <1>1, <1>3, <1>5, <2>1, LiveMoves
  <2>5. RobEmpty' <=> R!Count(head', tail') = 0
    BY <2>2, CountFlags DEF RobEmpty
  <2> QED  BY <1>2, <1>3, <1>5, <1>6, <1>8, <1>9, <2>2, <2>3, <2>4, <2>5 DEF Occupancy
<1> QED  BY <1>7, <1>8

\* The uops of a clock's allocation, by the slot they go to.
NewUop(i) == IF i = R!Idx(tail) THEN dq[1] ELSE dq[2]
NewDs(i) == IF i = R!Idx(tail) THEN in_ds ELSE Op(dq[1].pc) \in HasDelaySlot
FoldSlots(na) == {i \in NewSlots(tail, na) : Op(NewUop(i).pc) \in Folded}

LEMMA NewUopType ==
    ASSUME TypeInv, NEW na, NEW nr, Fits(na, nr), NEW i \in NewSlots(tail, na)
    PROVE  NewUop(i) \in Uop /\ NewDs(i) \in BOOLEAN
<1>1. dq \in Seq(Uop) /\ na \in 0 .. 2 /\ na <= Len(dq)
  BY DEF TypeInv, Fits
<1>2. na >= 1 => dq[1] \in Uop
  BY <1>1, ElementOfSeq
<1>3. na = 2 => dq[2] \in Uop
  BY <1>1, ElementOfSeq
<1>4. in_ds \in BOOLEAN /\ (Op(dq[1].pc) \in HasDelaySlot) \in BOOLEAN
  <2>1. in_ds \in BOOLEAN
    BY DEF TypeInv, TypeOK
  <2>2. (Op(dq[1].pc) \in HasDelaySlot) \in BOOLEAN
    OBVIOUS
  <2> QED  BY <2>1, <2>2
<1>5. NewUop(i) \in Uop
  BY <1>1, <1>2, <1>3 DEF NewUop, NewSlots
<1>6. NewDs(i) \in BOOLEAN
  BY <1>4, Zenon DEF NewDs
<1> QED  BY <1>5, <1>6

\* What a clock makes of an entry: the buffer is blanked, an entry is written,
\* freed, completed, or left alone.
LEMMA BufferRob ==
    ASSUME TypeInv, NEW na, NEW nr, Fits(na, nr), NEW clr_rob \in BOOLEAN, NEW clr_dq,
           Buffer(na, nr, clr_rob, clr_dq)
    PROVE  /\ rob' \in [Slots -> RobEntry]
           /\ \A i \in Slots :
                 /\ clr_rob => rob'[i] = Blank
                 /\ ~clr_rob /\ i \in NewSlots(tail, na) => rob'[i] = Entry(NewUop(i), NewDs(i))
                 /\ ~clr_rob /\ i \notin NewSlots(tail, na) /\ i \in FreedSlots(head, nr) => rob'[i] = Blank
                 /\ ~clr_rob /\ i \notin NewSlots(tail, na) \cup FreedSlots(head, nr) /\ i \notin Done
                      => rob'[i] = rob[i]
                 /\ ~clr_rob /\ i \notin NewSlots(tail, na) \cup FreedSlots(head, nr) /\ i \in Done
                      => \E b \in BOOLEAN : /\ rob'[i] = Completed(rob[i], b)
                                            /\ Op(rob[i].pc) \notin {"br", "brl"} => ~b
<1>1. PICK take \in [{i \in Done : Op(rob[i].pc) \in {"br", "brl"}} -> BOOLEAN] :
         rob' = [i \in Slots |->
                  IF clr_rob THEN Blank
                  ELSE IF i \in NewSlots(tail, na) THEN Entry(NewUop(i), NewDs(i))
                  ELSE IF i \in FreedSlots(head, nr) THEN Blank
                  ELSE IF i \in Done
                       THEN Completed(rob[i], i \in {j \in Done : Op(rob[j].pc) \in {"br", "brl"}} /\ take[i])
                  ELSE rob[i]]
  BY Zenon DEF Buffer, NewSlots, FreedSlots, NewUop, NewDs, HeadSlot, NextSlot
<1>2. rob \in [Slots -> RobEntry]
  BY DEF TypeInv, TypeOK, RobEntry
<1> DEFINE brs == {j \in Done : Op(rob[j].pc) \in {"br", "brl"}}
           b(i) == i \in brs /\ take[i]
<1>3. \A i \in Slots : b(i) \in BOOLEAN /\ (Op(rob[i].pc) \notin {"br", "brl"} => ~b(i))
  OBVIOUS
<1>4. rob' = [i \in Slots |->
                IF clr_rob THEN Blank
                ELSE IF i \in NewSlots(tail, na) THEN Entry(NewUop(i), NewDs(i))
                ELSE IF i \in FreedSlots(head, nr) THEN Blank
                ELSE IF i \in Done THEN Completed(rob[i], b(i))
                ELSE rob[i]]
  BY <1>1, Zenon
<1> HIDE DEF brs, b
<1>5. \A i \in Slots : rob'[i] = IF clr_rob THEN Blank
                ELSE IF i \in NewSlots(tail, na) THEN Entry(NewUop(i), NewDs(i))
                ELSE IF i \in FreedSlots(head, nr) THEN Blank
                ELSE IF i \in Done THEN Completed(rob[i], b(i))
                ELSE rob[i]
  BY <1>4
<1>6. Blank \in RobEntry
  <2>1. 0 \in PC
    BY ProgramFacts DEF PC
  <2> QED  BY <2>1 DEF Blank, RobEntry
<1>7. \A i \in NewSlots(tail, na) : Entry(NewUop(i), NewDs(i)) \in RobEntry
  BY NewUopType, NewEntry
<1>8. \A i \in Slots : Completed(rob[i], b(i)) \in RobEntry
  <2>1. TAKE i \in Slots
  <2>3. b(i) \in BOOLEAN /\ rob[i] \in RobEntry
    BY <1>2, <1>3
  <2> QED  BY <2>3, CompletedEntry
<1>9. \A i \in Slots : rob'[i] \in RobEntry
  BY <1>2, <1>5, <1>6, <1>7, <1>8
<1>10. rob' \in [Slots -> RobEntry]
  BY <1>4, <1>9
<1>11. \A i \in Slots : ~clr_rob /\ i \notin NewSlots(tail, na) \cup FreedSlots(head, nr) /\ i \in Done
         => \E c \in BOOLEAN : /\ rob'[i] = Completed(rob[i], c)
                               /\ Op(rob[i].pc) \notin {"br", "brl"} => ~c
  BY <1>3, <1>5, Zenon
<1> QED  BY <1>5, <1>10, <1>11

UnitStates == {"idle", "wait", "start", "run", "done"}
FpDivider == [st : {"idle", "round", "valid", "done"}, slot : Slots]

\* What a clock makes of the units.
LEMMA BufferUnits ==
    ASSUME TypeInv, NEW na, NEW nr, Fits(na, nr), NEW clr_rob, NEW clr_dq,
           Buffer(na, nr, clr_rob, clr_dq)
    PROVE  \E go \in Issues, fin \in Finishes :
              /\ \A i \in Slots : x'[i] = IF i \in NewSlots(tail, na) \ FoldSlots(na) THEN "wait"
                                         ELSE Executed(i, go, fin)
              /\ x' \in [Slots -> UnitStates]
              /\ fdiv' = Divider(go)
              /\ fdiv' \in FpDivider
<1>1. PICK go \in Issues, fin \in Finishes :
         /\ x' = [i \in Slots |-> IF i \in NewSlots(tail, na) \ FoldSlots(na) THEN "wait"
                                  ELSE Executed(i, go, fin)]
         /\ fdiv' = Divider(go)
  BY Zenon DEF Buffer, NewSlots, FoldSlots, NewUop
<1>2. x \in [Slots -> UnitStates] /\ fdiv \in FpDivider
  BY DEF TypeInv, TypeOK, UnitStates, FpDivider
<1>3. \A i \in Slots : Executed(i, go, fin) \in UnitStates
  BY <1>2 DEF Executed, UnitStates
<1>4. x' \in [Slots -> UnitStates]
  BY <1>1, <1>3 DEF UnitStates
<1>5. go \subseteq Slots
  BY DEF Issues, UpToOne, InUnit
<1>6. fdiv' \in FpDivider
  <2>1. 0 \in Slots
    BY CoreAssumption DEF Slots, R!Index
  <2>2. FpStart(go, "round") \in FpDivider
    <3> DEFINE f == {i \in go : Op(rob[i].pc) = "fdiv"}
               c == CHOOSE i \in f : TRUE
    <3>1. FpStart(go, "round") = IF f = {} THEN [st |-> "idle", slot |-> 0] ELSE [st |-> "round", slot |-> c]
      BY DEF FpStart
    <3>2. f # {} => c \in Slots
      BY <1>5
    <3> HIDE DEF f, c
    <3> QED  BY <2>1, <3>1, <3>2 DEF FpDivider
  <2>3. fdiv' = CASE fdiv.st = "round" -> [fdiv EXCEPT !.st = "valid"]
                  [] fdiv.st = "valid" -> [fdiv EXCEPT !.st = "done"]
                  [] OTHER -> FpStart(go, "round")
    BY <1>1, Zenon DEF Divider
  <2>4. CASE fdiv.st \in {"round", "valid"}
    BY <1>2, <2>3, <2>4 DEF FpDivider
  <2>5. CASE fdiv.st \notin {"round", "valid"}
    <3>1. fdiv' = FpStart(go, "round")
      BY <2>3, <2>5
    <3> QED  BY <2>2, <3>1
  <2> QED  BY <2>4, <2>5
<1> QED  BY <1>1, <1>4, <1>6

-----------------------------------------------------------------------------
(* Types.  The type invariant in three parts: the pipeline, the state      *)
(* machine and the test bench.                                             *)

PipelineType ==
    /\ {got_ack, drain, memq_empty, in_ds} \subseteq BOOLEAN
    /\ dq \in Seq(Uop) /\ Len(dq) <= DQ_ENTRIES
    /\ rob \in [Slots -> RobEntry]
    /\ head \in R!Ptr /\ tail \in R!Ptr /\ Occupancy <= ROB_ENTRIES
    /\ complete \subseteq Slots /\ inflight \subseteq Slots
    /\ x \in [Slots -> UnitStates]
    /\ fdiv \in FpDivider
    /\ fe \in FetchEngine
    /\ l1d \in {"idle", "flush", "done"}
    /\ flush_state \in {"FLUSH_IDLE", "WAIT_FOR_L1D_L1I", "GOT_L1D", "GOT_L1I"}

FsmType ==
    /\ state \in States
    /\ {ds_done, restart_valid, irq, l1i_flushed, l1d_flushed} \subseteq BOOLEAN
    /\ slot \in [has : BOOLEAN, null : BOOLEAN, take : BOOLEAN]
    /\ restart_pc \in PC
    /\ got \in {"none", "break", "ud"}
    /\ flush_req \in {"none", "line", "all"}

BenchType == retire_valid \in 0 .. 2 /\ arch \in Cursor /\ matched \in BOOLEAN

LEMMA TypeParts == TypeInv <=> PipelineType /\ FsmType /\ BenchType
<1>1. ASSUME TypeInv PROVE PipelineType /\ FsmType /\ BenchType
  BY <1>1 DEF TypeInv, TypeOK, PipelineType, FsmType, BenchType, Occupancy, FetchEngine, RobEntry, Cursor, UnitStates, FpDivider
<1>2. ASSUME PipelineType, FsmType, BenchType PROVE TypeInv
  <2>1. \A i \in 1 .. Len(dq) : dq[i] \in [pc : PC, pred : BOOLEAN]
    BY <1>2, ElementOfSeq DEF PipelineType, Uop
  <2> QED
    BY <1>2, <2>1 DEF TypeInv, TypeOK, PipelineType, FsmType, BenchType, Occupancy, FetchEngine, RobEntry, Cursor, UnitStates, FpDivider
<1> QED  BY <1>1, <1>2

\* A clock keeps the types of the pipeline.
LEMMA PipelineKeepsType ==
    ASSUME TypeInv, NEW na, NEW nr, Fits(na, nr), NEW clr_rob \in BOOLEAN, NEW clr_dq \in BOOLEAN,
           Pipeline(na, nr, clr_rob, clr_dq)
    PROVE  PipelineType'
<1>1. Decode(na, clr_dq) /\ Buffer(na, nr, clr_rob, clr_dq)
  BY DEF Pipeline
<1>2. PipelineType /\ FsmType
  BY TypeParts
<1>3. na \in 0 .. 2 /\ na <= Len(dq)
  BY DEF Fits
<1>4. dq' \in Seq(Uop) /\ Len(dq') <= DQ_ENTRIES
  BY <1>1, <1>3, DecodeQueue
<1>5. fe' \in FetchEngine
  BY <1>1, FetchType
<1>6. head' \in R!Ptr /\ tail' \in R!Ptr /\ Occupancy' <= ROB_ENTRIES
  BY <1>1, BufferPointers
<1>7. rob' \in [Slots -> RobEntry]
  BY <1>1, BufferRob
<1>8. x' \in [Slots -> UnitStates] /\ fdiv' \in FpDivider
  BY <1>1, BufferUnits
<1>9. NewSlots(tail, na) \subseteq Slots
  BY <1>1, BufferPointers
<1>10. /\ complete' = IF clr_rob THEN {} ELSE (complete \ (NewSlots(tail, na) \cup FreedSlots(head, nr)))
                                              \cup FoldSlots(na) \cup Done
       /\ inflight' = IF ds_done THEN inflight \ (Waiting \cup Done)
                      ELSE (inflight \ Done) \cup (NewSlots(tail, na) \ FoldSlots(na))
  BY <1>1, Zenon DEF Buffer, NewSlots, FreedSlots, FoldSlots, NewUop, HeadSlot, NextSlot
<1>11. complete' \subseteq Slots /\ inflight' \subseteq Slots
  BY <1>2, <1>9, <1>10 DEF PipelineType, Done, FoldSlots
<1>12. in_ds' \in BOOLEAN
  <2>1. in_ds \in BOOLEAN
    BY <1>2 DEF PipelineType
  <2>2. (Op(dq[na].pc) \in HasDelaySlot) \in BOOLEAN
    OBVIOUS
  <2>3. in_ds' = IF na >= 1 THEN Op(dq[na].pc) \in HasDelaySlot
                 ELSE IF clr_dq \/ clr_rob THEN FALSE ELSE in_ds
    BY <1>1 DEF Buffer
  <2> QED  BY <2>1, <2>2, <2>3, Zenon
<1>13. got_ack' \in BOOLEAN /\ drain' \in BOOLEAN /\ memq_empty' \in BOOLEAN
  <2>1. GotAck \in BOOLEAN
    BY DEF GotAck
  <2>2. (drain /\ InUnit("run", {"load"}) = {}) \in BOOLEAN
    OBVIOUS
  <2>3. ds_done \in BOOLEAN
    BY <1>2 DEF FsmType
  <2> QED  BY <2>1, <2>2, <2>3, Zenon DEF Pipeline
<1>14. l1d' \in {"idle", "flush", "done"}
  <2>1. l1d' \in (IF flush_req # "none" THEN {"flush"}
                  ELSE IF l1d = "flush" THEN {"flush", "done"} ELSE {"idle"})
    BY DEF Pipeline
  <2> QED  BY <2>1
<1>15. flush_state' \in {"FLUSH_IDLE", "WAIT_FOR_L1D_L1I", "GOT_L1D", "GOT_L1I"}
  <2>1. flush_state' = FlushState
    BY DEF Pipeline
  <2> QED  BY <2>1 DEF FlushState
<1> QED
  BY <1>4, <1>5, <1>6, <1>7, <1>8, <1>11, <1>12, <1>13, <1>14, <1>15 DEF PipelineType

-----------------------------------------------------------------------------
(* Every action is a clock of the pipeline; what the state machine asks of *)
(* it, and when the drain flag goes up and down, is the same for all.      *)

\* How many uops are allocated, how many retire, and whether the reorder buffer
\* and the decode queue are cleared.
Clock(na, nr, clr_rob, clr_dq) ==
    /\ clr_rob \in BOOLEAN /\ clr_dq \in BOOLEAN
    /\ Fits(na, nr)
    /\ Pipeline(na, nr, clr_rob, clr_dq)
    /\ clr_rob <=> state = "RAT"
    /\ clr_rob => clr_dq
    /\ na > 0 => state \in {"ACTIVE", "ALLOC_FOR_SERIALIZE", "ALLOC_FOR_MONITOR"}
    /\ ds_done => na = 0 /\ nr = 0
    /\ FreedSlots(head, nr) \subseteq complete
    /\ ds_done /\ ~ds_done' => state = "RAT"
    /\ ~ds_done /\ ds_done' => Occupancy >= 1
    /\ state' = "RAT" => state = "RAT" \/ (ds_done /\ Drained)

\* The flags read as numbers.
LEMMA Flags ==
    ASSUME TypeInv
    PROVE  /\ Occupancy \in Nat /\ Occupancy <= ROB_ENTRIES
           /\ ROB_ENTRIES \in Nat /\ ROB_ENTRIES >= 2
           /\ Len(dq) \in Nat
           /\ RobEmpty <=> Occupancy = 0
           /\ RobNextEmpty <=> Occupancy = 1
           /\ R!IsFull(head, tail) <=> Occupancy = ROB_ENTRIES
           /\ R!NextFull(head, R!Inc(tail)) <=> Occupancy = ROB_ENTRIES - 1
           /\ dq # <<>> <=> Len(dq) >= 1
<1>1. head \in R!Ptr /\ tail \in R!Ptr /\ R!Count(head, tail) <= ROB_ENTRIES /\ dq \in Seq(Uop)
  BY DEF TypeInv, TypeOK
<1>2. /\ R!Count(head, tail) \in Nat
      /\ R!IsEmpty(head, tail) <=> R!Count(head, tail) = 0
      /\ R!IsFull(head, tail) <=> R!Count(head, tail) = ROB_ENTRIES
      /\ R!NextEmpty(R!Inc(head), tail) <=> R!Count(head, tail) = 1
      /\ R!NextFull(head, R!Inc(tail)) <=> R!Count(head, tail) = ROB_ENTRIES - 1
  BY <1>1, CountFlags
<1>3. Len(dq) \in Nat /\ (dq # <<>> <=> Len(dq) >= 1)
  BY <1>1, EmptySeq
<1> QED  BY <1>1, <1>2, <1>3, CoreAssumption DEF Occupancy, RobEmpty, RobNextEmpty

\* Allocation in ACTIVE finds its uops and its slots.
LEMMA AllocFits ==
    ASSUME TypeInv, NEW na \in AllocCounts
    PROVE  na \in 0 .. 2 /\ na <= Len(dq) /\ Occupancy + na <= ROB_ENTRIES
<1>1. /\ na \in 0 .. 2 /\ (na = 1 => CanAlloc) /\ (na = 2 => CanAllocTwo)
  BY DEF AllocCounts
<1>2. CanAlloc => Len(dq) >= 1 /\ Occupancy # ROB_ENTRIES
  BY Flags DEF CanAlloc
<1>3. CanAllocTwo => Len(dq) >= 2 /\ Occupancy # ROB_ENTRIES /\ Occupancy # ROB_ENTRIES - 1
  BY <1>2, Flags DEF CanAllocTwo
<1> QED  BY <1>1, <1>2, <1>3, Flags

\* So does the allocation of a serializing uop, into an empty buffer.
LEMMA AllocAloneFits ==
    ASSUME TypeInv, NEW na \in AllocAlone, RobEmpty, dq # <<>>
    PROVE  na = 1 /\ na <= Len(dq) /\ Occupancy + na <= ROB_ENTRIES
<1>1. na = 1
  BY DEF AllocAlone
<1> QED  BY <1>1, Flags

\* Retirement takes completed uops off the buffer.
LEMMA RetireFits ==
    ASSUME TypeInv, CanRetire, NEW nr, nr = IF CanRetireTwo THEN 2 ELSE 1
    PROVE  /\ nr \in 1 .. 2 /\ nr <= Occupancy
           /\ FreedSlots(head, nr) \subseteq complete
           /\ FreedSlots(head, 1) \subseteq complete
<1>1. HeadSlot \in complete /\ Occupancy >= 1
  BY Flags DEF CanRetire, HeadComplete
<1>2. CanRetireTwo => NextSlot \in complete /\ Occupancy # 1
  BY Flags DEF CanRetireTwo
<1>3. nr \in 1 .. 2 /\ (nr = 2 => CanRetireTwo)
  OBVIOUS
<1>4. nr <= Occupancy
  BY <1>1, <1>2, <1>3, Flags
<1>5. FreedSlots(head, nr) \subseteq complete /\ FreedSlots(head, 1) \subseteq complete
  BY <1>1, <1>2, <1>3 DEF FreedSlots, HeadSlot, NextSlot
<1> QED  BY <1>3, <1>4, <1>5

LEMMA NothingFreed == FreedSlots(head, 0) = {}
BY DEF FreedSlots

\* Nothing retired, nothing allocated.
LEMMA FitsNothing ==
    ASSUME TypeInv
    PROVE  /\ Fits(0, 0) /\ FreedSlots(head, 0) \subseteq complete
           /\ ~(0 > 0) /\ FALSE \in BOOLEAN /\ TRUE \in BOOLEAN
BY Flags, NothingFreed DEF Fits, Occupancy

IsClock == \E na, nr, clr_rob, clr_dq : Clock(na, nr, clr_rob, clr_dq)

\* A clock outside the drain and the allocation states.
LEMMA PlainClock ==
    ASSUME TypeInv, NEW clr_dq \in BOOLEAN, Pipeline(0, 0, FALSE, clr_dq),
           state # "RAT", state' # "RAT", ds_done' = ds_done
    PROVE  IsClock
<1>1. Clock(0, 0, FALSE, clr_dq)
  BY FitsNothing, Zenon DEF Clock
<1> QED  BY <1>1 DEF IsClock

LEMMA NextIsClock ==
    ASSUME TypeInv, FsmShape, Next
    PROVE  IsClock
<1>1. CASE Interrupt
  <2>1. /\ state = "ACTIVE" /\ ~RobEmpty /\ Pipeline(0, 0, FALSE, FALSE)
        /\ state' = "EXCEPTION_DRAIN" /\ ds_done' = TRUE
    BY <1>1 DEF Interrupt, TakesIrq
  <2>2. ~ds_done /\ Occupancy >= 1
    BY <2>1, Flags DEF FsmShape
  <2>3. Clock(0, 0, FALSE, FALSE)
    BY <2>1, <2>2, FitsNothing, Zenon DEF Clock
  <2> QED  BY <2>3 DEF IsClock
<1>2. CASE Fault \/ FaultHalt
  <2>1. /\ state = "ACTIVE" /\ CanRetire /\ Pipeline(0, 1, FALSE, FALSE) /\ state' # "RAT"
    BY <1>2 DEF Fault, FaultHalt
  <2>2. ~ds_done
    BY <2>1 DEF FsmShape
  <2>3. Occupancy >= 1 /\ FreedSlots(head, 1) \subseteq complete
    BY <2>1, RetireFits, Flags DEF CanRetire
  <2>4. Fits(0, 1)
    BY <2>3, Flags DEF Fits, Occupancy
  <2>5. Clock(0, 1, FALSE, FALSE)
    BY <2>1, <2>2, <2>3, <2>4 DEF Clock
  <2> QED  BY <2>5 DEF IsClock
<1>3. CASE Graduate
  <2> DEFINE nr == IF CanRetireTwo THEN 2 ELSE 1
  <2>1. PICK na \in AllocCounts : Pipeline(na, nr, FALSE, FALSE)
    BY <1>3 DEF Graduate
  <2>2. state = "ACTIVE" /\ CanRetire /\ state' = state /\ ds_done' = ds_done
    BY <1>3 DEF Graduate
  <2>3. ~ds_done
    BY <2>2 DEF FsmShape
  <2>4. nr \in 1 .. 2 /\ nr <= Occupancy /\ FreedSlots(head, nr) \subseteq complete
    BY <2>2, RetireFits
  <2> HIDE DEF nr
  <2>5. Fits(na, nr)
    BY <2>4, AllocFits DEF Fits, Occupancy
  <2>6. Clock(na, nr, FALSE, FALSE)
    BY <2>1, <2>2, <2>3, <2>4, <2>5 DEF Clock
  <2> QED  BY <2>6 DEF IsClock
<1>4. CASE Allocate
  <2>1. PICK na \in AllocCounts : Pipeline(na, 0, FALSE, FALSE)
    BY <1>4 DEF Allocate
  <2>2. state = "ACTIVE" /\ state' = state /\ ds_done' = ds_done
    BY <1>4 DEF Allocate
  <2>3. ~ds_done
    BY <2>2 DEF FsmShape
  <2>4. Fits(na, 0)
    BY AllocFits, Flags DEF Fits, Occupancy
  <2>5. Clock(na, 0, FALSE, FALSE)
    BY <2>1, <2>2, <2>3, <2>4, NothingFreed DEF Clock
  <2> QED  BY <2>5 DEF IsClock
<1>5. CASE Serialize
  <2>1. MustSerialize /\ state = "ACTIVE" /\ Pipeline(0, 0, FALSE, FALSE) /\ ds_done' = ds_done
    BY <1>5 DEF Serialize
  <2>2. Op(dq[1].pc) \in {"mfc0", "break", "getcycle", "flushline", "monitor"}
    BY <2>1 DEF MustSerialize, Serializing, Monitors
  <2>3. state' # "RAT"
    BY <1>5, <2>2 DEF Serialize
  <2> QED  BY <2>1, <2>3, PlainClock
<1>6. CASE Drain
  <2> DEFINE ends == HeadComplete /\ ~ds_done /\ (slot.null \/ slot.has)
             nr == IF ends /\ (slot.null => slot.take) THEN 1 ELSE 0
  <2>1. /\ state = "DRAIN"
        /\ Pipeline(0, nr, FALSE, FALSE) /\ ds_done' = (ds_done \/ ends)
        /\ state' = IF ds_done /\ Drained THEN "RAT" ELSE "DRAIN"
    BY <1>6 DEF Drain
  <2>2. ends => Occupancy >= 1 /\ FreedSlots(head, 1) \subseteq complete
    BY <2>1, Flags DEF FsmShape, HeadIsLive, FreedSlots, HeadComplete, HeadSlot
  <2>3. nr \in 0 .. 1 /\ (nr = 1 => ends) /\ (ds_done => nr = 0)
    OBVIOUS
  <2>4. (ds_done' => ds_done \/ ends) /\ (ds_done => ds_done')
    BY <2>1
  <2> HIDE DEF nr, ends
  <2>5. Fits(0, nr)
    BY <2>2, <2>3, Flags DEF Fits, Occupancy
  <2>6. FreedSlots(head, nr) \subseteq complete
    BY <2>2, <2>3, NothingFreed
  <2>7. state' = "RAT" => ds_done /\ Drained
    BY <2>1
  <2>8. Clock(0, nr, FALSE, FALSE)
    BY <2>1, <2>2, <2>3, <2>4, <2>5, <2>6, <2>7, FitsNothing, Zenon DEF Clock
  <2> QED  BY <2>8 DEF IsClock
<1>7. CASE ExceptionDrain
  <2>1. /\ state = "EXCEPTION_DRAIN" /\ Pipeline(0, 0, FALSE, FALSE) /\ ds_done' = ds_done
        /\ state' = "RAT" => Drained
    BY <1>7 DEF ExceptionDrain
  <2>2. ds_done
    BY <2>1 DEF FsmShape
  <2>3. Clock(0, 0, FALSE, FALSE)
    BY <2>1, <2>2, FitsNothing, Zenon DEF Clock
  <2> QED  BY <2>3 DEF IsClock
<1>8. CASE Rat
  <2>1. /\ state = "RAT" /\ Pipeline(0, 0, TRUE, TRUE) /\ (ds_done' => ds_done)
    BY <1>8 DEF Rat
  <2>2. Clock(0, 0, TRUE, TRUE)
    BY <2>1, FitsNothing, Zenon DEF Clock
  <2> QED  BY <2>2 DEF IsClock
<1>9. CASE AllocForSerialize \/ AllocForMonitor
  <2>1. PICK na \in AllocAlone : Pipeline(na, 0, FALSE, FALSE)
    BY <1>9 DEF AllocForSerialize, AllocForMonitor
  <2>2. /\ state \in {"ALLOC_FOR_SERIALIZE", "ALLOC_FOR_MONITOR"} /\ ds_done' = ds_done
        /\ state' # "RAT"
    BY <1>9 DEF AllocForSerialize, AllocForMonitor
  <2>3. RobEmpty /\ dq # <<>> /\ ~ds_done
    BY <2>2 DEF FsmShape
  <2>4. Fits(na, 0)
    BY <2>3, AllocAloneFits, Flags DEF Fits, Occupancy
  <2>5. Clock(na, 0, FALSE, FALSE)
    BY <2>1, <2>2, <2>3, <2>4, NothingFreed DEF Clock
  <2> QED  BY <2>5 DEF IsClock
<1>10. CASE WaitForSerialize
  <2>1. /\ state = "WAIT_FOR_SERIALIZE_AND_RESTART" /\ Pipeline(0, 0, FALSE, HeadComplete)
        /\ ds_done' = ds_done /\ state' # "RAT"
    BY <1>10 DEF WaitForSerialize
  <2>2. HeadComplete \in BOOLEAN
    BY DEF HeadComplete
  <2> QED  BY <2>1, <2>2, PlainClock
<1>11. CASE WaitForMonitor
  <2> DEFINE nr == IF HeadComplete /\ GotAck THEN 1 ELSE 0
  <2>1. /\ state = "WAIT_FOR_MONITOR" /\ Pipeline(0, nr, FALSE, HeadComplete)
        /\ ds_done' = ds_done /\ state' # "RAT"
    BY <1>11 DEF WaitForMonitor
  <2>2. HeadComplete \in BOOLEAN
    BY DEF HeadComplete
  <2>3. nr \in 0 .. 1 /\ (nr = 1 => HeadComplete)
    OBVIOUS
  <2> HIDE DEF nr
  <2>4. ~ds_done /\ Occupancy >= 1
    BY <2>1, Flags DEF FsmShape, HeadIsLive
  <2>5. Fits(0, nr)
    BY <2>3, <2>4, Flags DEF Fits, Occupancy
  <2>6. FreedSlots(head, nr) \subseteq complete
    BY <2>3 DEF FreedSlots, HeadComplete, HeadSlot
  <2>7. Clock(0, nr, FALSE, HeadComplete)
    BY <2>1, <2>2, <2>3, <2>4, <2>5, <2>6, FitsNothing, Zenon DEF Clock
  <2> QED  BY <2>7 DEF IsClock
<1>12. CASE MonitorFlushCache \/ FlushForHalt
  <2>1. /\ state \in {"MONITOR_FLUSH_CACHE", "FLUSH_FOR_HALT"} /\ Pipeline(0, 0, FALSE, FALSE)
        /\ ds_done' = ds_done /\ state' # "RAT"
    BY <1>12 DEF MonitorFlushCache, FlushForHalt, FlushWait
  <2> QED  BY <2>1, PlainClock
<1>13. CASE HandleMonitor \/ WriteCpr0 \/ Halt \/ HaltWaitForRestart
  <2>1. /\ state # "RAT" /\ Pipeline(0, 0, FALSE, FALSE) /\ ds_done' = ds_done /\ state' # "RAT"
    BY <1>13 DEF HandleMonitor, WriteCpr0, Halt, HaltWaitForRestart
  <2> QED  BY <2>1, PlainClock
<1>14. CASE Resume
  <2>1. /\ state # "RAT" /\ Pipeline(0, 0, FALSE, TRUE) /\ ds_done' = ds_done /\ state' # "RAT"
    BY <1>14 DEF Resume
  <2> QED  BY <2>1, PlainClock
<1> QED
  BY <1>1, <1>2, <1>3, <1>4, <1>5, <1>6, <1>7, <1>8, <1>9, <1>10, <1>11, <1>12, <1>13, <1>14 DEF Next

\* The head of the buffer, the combined flags and the latched interrupt have
\* their types.
LEMMA CombinedTypes ==
    ASSUME TypeInv
    PROVE  /\ L1iFlushed \in BOOLEAN /\ L1dFlushed \in BOOLEAN
           /\ RobHead \in RobEntry /\ RobHead.take \in BOOLEAN
           /\ RobHead.pc \in PC /\ TargetPC(RobHead) \in PC
           /\ LatchIrq => irq' \in BOOLEAN
           /\ NoFlush => l1i_flushed' \in BOOLEAN /\ l1d_flushed' \in BOOLEAN /\ flush_req' = "none"
           /\ NoRestart => restart_valid' \in BOOLEAN /\ restart_pc' \in PC
<1>1. L1iFlushed \in BOOLEAN /\ L1dFlushed \in BOOLEAN
  BY DEF L1iFlushed, L1dFlushed
<1>2. rob \in [Slots -> RobEntry] /\ head \in R!Ptr /\ restart_pc \in PC
  BY DEF TypeInv, TypeOK, RobEntry
<1>3. RobHead \in RobEntry
  BY <1>2, PtrClosed DEF RobHead, HeadSlot
<1>4. RobHead.take \in BOOLEAN /\ RobHead.pc \in PC /\ TargetPC(RobHead) \in PC
  BY <1>3, TargetType DEF RobEntry
<1>5. LatchIrq => irq' \in BOOLEAN
  BY Zenon DEF LatchIrq
<1>6. NoFlush => l1i_flushed' \in BOOLEAN /\ l1d_flushed' \in BOOLEAN /\ flush_req' = "none"
  BY <1>1, Zenon DEF NoFlush
<1>7. NoRestart => restart_valid' \in BOOLEAN /\ restart_pc' \in PC
  BY <1>2 DEF NoRestart
<1> QED  BY <1>1, <1>3, <1>4, <1>5, <1>6, <1>7

\* Most clocks ask for no restart and no flush.
LEMMA QuietType ==
    ASSUME TypeInv, NoRestart, NoFlush, LatchIrq, UNCHANGED <<slot, got>>,
           ds_done' \in BOOLEAN, state' \in States
    PROVE  FsmType'
<1>1. FsmType
  BY TypeParts
<1>2. slot' = slot /\ got' = got
  OBVIOUS
<1> QED  BY <1>1, <1>2, CombinedTypes DEF FsmType

\* What retires leaves the test bench well typed.
LEMMA RetireType ==
    ASSUME TypeInv, NEW nr \in 0 .. 2, Retire(nr)
    PROVE  BenchType'
<1>1. arch \in Cursor
  BY TypeParts DEF BenchType
<1> DEFINE one == Executes(arch, RobHead.take)
           two == Executes(one, RobNextHead.take)
<1>2. one \in Cursor
  BY <1>1, FollowType
<1>3. two \in Cursor
  BY <1>2, FollowType
<1>4. /\ retire_valid' = nr
      /\ arch' = IF nr = 0 THEN arch ELSE IF nr = 1 THEN one ELSE two
  BY DEF Retire
<1>5. matched' \in BOOLEAN
  <2>1. (/\ nr >= 1 => RobHead.pc = arch.pc
         /\ nr = 2 => RobNextHead.pc = one.pc) \in BOOLEAN
    OBVIOUS
  <2> QED  BY <2>1, Zenon DEF Retire
<1> HIDE DEF one, two
<1> QED  BY <1>1, <1>2, <1>3, <1>4, <1>5 DEF BenchType

\* A clock keeps the types of the state machine and of the test bench.
LEMMA NextKeepsFsmType ==
    ASSUME TypeInv, FsmShape, Next
    PROVE  FsmType' /\ BenchType'
<1>0. FsmType /\ ds_done \in BOOLEAN /\ restart_pc \in PC /\ slot \in [has : BOOLEAN, null : BOOLEAN, take : BOOLEAN]
  BY TypeParts DEF FsmType
<1>1. CASE Interrupt
  <2>1. /\ Retire(0) /\ state' = "EXCEPTION_DRAIN" /\ ds_done' = TRUE /\ irq' = FALSE
        /\ restart_valid' = TRUE /\ restart_pc' = RobHead.pc /\ NoFlush /\ slot' = slot /\ got' = got
    BY <1>1 DEF Interrupt, RestartAt
  <2>2. FsmType'
    BY <1>0, <2>1, CombinedTypes DEF FsmType, States
  <2> QED  BY <2>1, <2>2, RetireType
<1>2. CASE Fault
  <2> DEFINE h == Op(RobHead.pc) \in HasDelaySlot
             n == Op(RobHead.pc) \in Nullifying
  <2>1. /\ Retire(1) /\ state' = "DRAIN" /\ ds_done' = ~h
        /\ slot' = [has |-> h, null |-> n, take |-> RobHead.take]
        /\ restart_valid' = TRUE /\ restart_pc' = TargetPC(RobHead) /\ NoFlush /\ LatchIrq /\ got' = got
    BY <1>2, Zenon DEF Fault, RestartAt
  <2>2. h \in BOOLEAN /\ n \in BOOLEAN /\ (~h) \in BOOLEAN
    OBVIOUS
  <2> HIDE DEF h, n
  <2>3. ds_done' \in BOOLEAN
    BY <2>1, <2>2
  <2>4. slot' \in [has : BOOLEAN, null : BOOLEAN, take : BOOLEAN]
    BY <2>1, <2>2, CombinedTypes
  <2>5. FsmType'
    BY <1>0, <2>1, <2>3, <2>4, CombinedTypes DEF FsmType, States
  <2> QED  BY <2>1, <2>5, RetireType
<1>3. CASE FaultHalt
  <2>1. /\ Retire(1) /\ state' = "WRITE_EPC" /\ ds_done' = ds_done
        /\ got' \in {"break", "ud"}
        /\ slot' = [has |-> FALSE, null |-> FALSE, take |-> RobHead.take]
        /\ restart_valid' = FALSE /\ restart_pc' = TargetPC(RobHead) /\ LatchIrq
        /\ flush_req' = "all" /\ l1i_flushed' = L1iFlushed /\ l1d_flushed' = L1dFlushed
    BY <1>3 DEF FaultHalt, Flush
  <2>2. FsmType'
    BY <1>0, <2>1, CombinedTypes DEF FsmType, States
  <2> QED  BY <2>1, <2>2, RetireType
<1>4. CASE Graduate
  <2>1. Retire(IF CanRetireTwo THEN 2 ELSE 1)
    BY <1>4 DEF Graduate
  <2>2. (IF CanRetireTwo THEN 2 ELSE 1) \in 0 .. 2
    OBVIOUS
  <2>3. FsmType'
    BY <1>0, <1>4, QuietType DEF Graduate, FsmType
  <2> QED  BY <2>1, <2>2, <2>3, RetireType
<1>5. CASE Allocate
  <2>1. Retire(0)
    BY <1>5 DEF Allocate
  <2>2. FsmType'
    BY <1>0, <1>5, QuietType DEF Allocate, FsmType
  <2> QED  BY <2>1, <2>2, RetireType
<1>6. CASE Serialize
  <2>1. MustSerialize /\ Retire(0)
    BY <1>6 DEF Serialize
  <2>2. Op(dq[1].pc) \in {"mfc0", "break", "getcycle", "flushline", "monitor"}
    BY <2>1 DEF MustSerialize, Serializing, Monitors
  <2>3. state' \in States /\ flush_req' \in {"none", "line", "all"}
    BY <1>6, <2>2 DEF Serialize, States
  <2>4. /\ slot' = slot /\ got' = got /\ ds_done' = ds_done /\ NoRestart /\ LatchIrq
        /\ l1d_flushed' = L1dFlushed
    BY <1>6 DEF Serialize
  <2>5. l1i_flushed' \in BOOLEAN
    BY <1>6, Zenon DEF Serialize
  <2>6. FsmType'
    BY <1>0, <2>3, <2>4, <2>5, CombinedTypes DEF FsmType
  <2> QED  BY <2>1, <2>6, RetireType
<1>7. CASE Drain
  <2> DEFINE ends == HeadComplete /\ ~ds_done /\ (slot.null \/ slot.has)
             nr == IF ends /\ (slot.null => slot.take) THEN 1 ELSE 0
  <2>1. Retire(nr) /\ nr \in 0 .. 2
    BY <1>7 DEF Drain
  <2>2. ds_done' \in BOOLEAN
    BY <1>7, Zenon DEF Drain
  <2>3. state' \in States
    BY <1>7 DEF Drain, States
  <2>4. FsmType'
    BY <1>7, <2>2, <2>3, QuietType DEF Drain
  <2> HIDE DEF nr
  <2> QED  BY <2>1, <2>4, RetireType
<1>8. CASE Rat
  <2>1. Retire(0)
    BY <1>8 DEF Rat
  <2>2. ds_done' \in BOOLEAN
    BY <1>8, Zenon DEF Rat
  <2>3. state' \in States
    BY <1>8 DEF Rat, States
  <2>4. FsmType'
    BY <1>8, <2>2, <2>3, QuietType DEF Rat
  <2> QED  BY <2>1, <2>4, RetireType
<1>9. CASE ExceptionDrain \/ AllocForSerialize \/ AllocForMonitor \/ HandleMonitor
  <2>1. Retire(0) /\ ds_done' = ds_done /\ NoRestart /\ NoFlush /\ LatchIrq /\ slot' = slot /\ got' = got
    BY <1>9 DEF ExceptionDrain, AllocForSerialize, AllocForMonitor, HandleMonitor
  <2>2. state' \in States
    BY <1>9 DEF ExceptionDrain, AllocForSerialize, AllocForMonitor, HandleMonitor, States
  <2>3. FsmType'
    BY <1>0, <2>1, <2>2, QuietType
  <2> QED  BY <2>1, <2>3, RetireType
<1>10. CASE WriteCpr0 \/ Halt \/ HaltWaitForRestart
  <2>1. Retire(0) /\ ds_done' = ds_done /\ NoRestart /\ NoFlush /\ LatchIrq /\ slot' = slot /\ got' = got
    BY <1>10 DEF WriteCpr0, Halt, HaltWaitForRestart
  <2>2. state' \in States
    BY <1>10 DEF WriteCpr0, Halt, HaltWaitForRestart, States
  <2>3. FsmType'
    BY <1>0, <2>1, <2>2, QuietType
  <2> QED  BY <2>1, <2>3, RetireType
<1>11. CASE WaitForSerialize \/ WaitForMonitor
  <2>1. /\ ds_done' = ds_done /\ NoFlush /\ LatchIrq /\ slot' = slot /\ got' = got
        /\ IF HeadComplete THEN RestartAt(TargetPC(RobHead)) ELSE NoRestart
    BY <1>11 DEF WaitForSerialize, WaitForMonitor
  <2>2. state' \in States
    BY <1>11 DEF WaitForSerialize, WaitForMonitor, States
  <2>3. restart_valid' \in BOOLEAN /\ restart_pc' \in PC
    BY <2>1, CombinedTypes DEF RestartAt
  <2>4. FsmType'
    BY <1>0, <2>1, <2>2, <2>3, CombinedTypes DEF FsmType
  <2>5. \E nr \in 0 .. 2 : Retire(nr)
    <3>1. 0 \in 0 .. 2 /\ 1 \in 0 .. 2
      OBVIOUS
    <3>2. CASE WaitForSerialize
      BY <3>1, <3>2 DEF WaitForSerialize
    <3>3. CASE WaitForMonitor
      <4> DEFINE nr == IF HeadComplete /\ GotAck THEN 1 ELSE 0
      <4>1. Retire(nr) /\ nr \in 0 .. 2
        BY <3>3 DEF WaitForMonitor
      <4> HIDE DEF nr
      <4> QED  BY <4>1
    <3> QED  BY <1>11, <3>2, <3>3
  <2> QED  BY <2>4, <2>5, RetireType
<1>12. CASE MonitorFlushCache \/ FlushForHalt
  <2>1. /\ ds_done' = ds_done /\ slot' = slot /\ got' = got /\ NoRestart /\ LatchIrq
        /\ flush_req' = "none" /\ Retire(0)
    BY <1>12 DEF MonitorFlushCache, FlushForHalt, FlushWait
  <2>2. state' \in States
    BY <1>12 DEF MonitorFlushCache, FlushForHalt, FlushWait, States
  <2>3. l1i_flushed' \in BOOLEAN /\ l1d_flushed' \in BOOLEAN
    <3>1. (l1i_flushed' = FALSE /\ l1d_flushed' = FALSE) \/ (l1i_flushed' = L1iFlushed /\ l1d_flushed' = L1dFlushed)
      BY <1>12, Zenon DEF MonitorFlushCache, FlushForHalt, FlushWait
    <3> QED  BY <3>1, CombinedTypes
  <2>4. FsmType'
    BY <1>0, <2>1, <2>2, <2>3, CombinedTypes DEF FsmType
  <2> QED  BY <2>1, <2>4, RetireType
<1>13. CASE Resume
  <2>1. /\ ds_done' = ds_done /\ slot' = slot /\ got' = "none" /\ state' = "HALT_WAIT_FOR_RESTART"
        /\ restart_valid' = TRUE /\ restart_pc' = EntryPC /\ NoFlush /\ LatchIrq
        /\ retire_valid' = 0 /\ matched' = TRUE /\ arch' = [pc |-> EntryPC, tgt |-> 0]
    BY <1>13 DEF Resume, RestartAt
  <2>2. EntryPC \in PC /\ 0 \in PC
    BY CoreAssumption, ProgramFacts DEF PC
  <2>3. FsmType'
    BY <1>0, <2>1, <2>2, CombinedTypes DEF FsmType, States
  <2> QED  BY <2>1, <2>2, <2>3 DEF BenchType, Cursor
<1> QED
  BY <1>1, <1>2, <1>3, <1>4, <1>5, <1>6, <1>7, <1>8, <1>9, <1>10, <1>11, <1>12, <1>13 DEF Next

-----------------------------------------------------------------------------
(* The shape of the state machine.                                         *)

\* Occupancy of the two queues after a clock.
LEMMA PipelineCounts ==
    ASSUME TypeInv, NEW na, NEW nr, Fits(na, nr), NEW clr_rob \in BOOLEAN, NEW clr_dq \in BOOLEAN,
           Pipeline(na, nr, clr_rob, clr_dq)
    PROVE  /\ Occupancy' = IF clr_rob THEN 0 ELSE Occupancy + na - nr
           /\ RobEmpty' <=> Occupancy' = 0
           /\ clr_dq => dq' = <<>>
           /\ ~clr_dq /\ Len(dq) > na => dq' # <<>>
<1>1. Decode(na, clr_dq) /\ Buffer(na, nr, clr_rob, clr_dq)
  BY DEF Pipeline
<1>2. na \in 0 .. 2 /\ na <= Len(dq) /\ dq \in Seq(Uop)
  BY DEF Fits, TypeInv
<1>3. /\ dq' \in Seq(Uop) /\ (clr_dq => dq' = <<>>)
      /\ ~clr_dq => Len(dq') >= Len(dq) - na
  BY <1>1, <1>2, DecodeQueue
<1>4. dq' = <<>> => Len(dq') = 0
  OBVIOUS
<1>5. ~clr_dq /\ Len(dq) > na => dq' # <<>>
  BY <1>2, <1>3, <1>4
<1> QED  BY <1>1, <1>3, <1>5, BufferPointers

\* A clock that allocates and retires nothing leaves the occupancy alone.
LEMMA PlainCounts ==
    ASSUME TypeInv, NEW clr_dq \in BOOLEAN, Pipeline(0, 0, FALSE, clr_dq)
    PROVE  /\ Occupancy' = Occupancy
           /\ RobEmpty' <=> RobEmpty
           /\ ~clr_dq /\ dq # <<>> => dq' # <<>>
<1>1. /\ Occupancy' = Occupancy + 0 - 0
      /\ RobEmpty' <=> Occupancy' = 0
      /\ ~clr_dq /\ Len(dq) > 0 => dq' # <<>>
  BY FitsNothing, PipelineCounts
<1> QED  BY <1>1, Flags

\* The shape is kept.
LEMMA NextKeepsShape ==
    ASSUME TypeInv, FsmShape, Next
    PROVE  FsmShape'
<1>1. CASE Interrupt
  BY <1>1 DEF Interrupt, FsmShape, HeadIsLive
<1>2. CASE Fault
  <2>1. /\ state = "ACTIVE" /\ CanRetire /\ RobHead.flt /\ Pipeline(0, 1, FALSE, FALSE)
        /\ state' = "DRAIN"
    BY <1>2 DEF Fault
  <2>2. ~ds_done' => Op(RobHead.pc) \in HasDelaySlot
    BY <1>2, Zenon DEF Fault
  <2>3. Occupancy >= 1
    BY <2>1, Flags DEF CanRetire
  <2>4. ~ds_done' => Occupancy # 1
    BY <2>1, <2>2, Flags DEF CanRetire
  <2>5. Fits(0, 1)
    BY <2>3, Flags DEF Fits, Occupancy
  <2>6. Occupancy' = Occupancy + 0 - 1 /\ (RobEmpty' <=> Occupancy' = 0)
    BY <2>1, <2>5, PipelineCounts
  <2>7. ~ds_done' => ~RobEmpty'
    BY <2>3, <2>4, <2>6, Flags
  <2> QED  BY <2>1, <2>7 DEF FsmShape, HeadIsLive
<1>3. CASE FaultHalt
  <2>1. state = "ACTIVE" /\ state' = "WRITE_EPC" /\ ds_done' = ds_done
    BY <1>3 DEF FaultHalt
  <2> QED  BY <2>1 DEF FsmShape, HeadIsLive
<1>4. CASE Graduate \/ Allocate
  <2>1. state = "ACTIVE" /\ state' = "ACTIVE" /\ ds_done' = ds_done
    BY <1>4 DEF Graduate, Allocate
  <2> QED  BY <2>1 DEF FsmShape, HeadIsLive
<1>5. CASE Serialize
  <2>1. /\ state = "ACTIVE" /\ ds_done' = ds_done /\ Pipeline(0, 0, FALSE, FALSE) /\ MustSerialize
    BY <1>5 DEF Serialize
  <2>2. Op(dq[1].pc) \in {"mfc0", "break", "getcycle", "flushline", "monitor"} /\ RobEmpty /\ dq # <<>>
    BY <2>1 DEF MustSerialize, Serializing, Monitors
  <2>3. state' \in {"ALLOC_FOR_SERIALIZE", "HANDLE_MONITOR", "MONITOR_FLUSH_CACHE"}
    BY <1>5, <2>2 DEF Serialize
  <2>4. RobEmpty' /\ dq' # <<>>
    BY <2>1, <2>2, PlainCounts
  <2> QED  BY <2>1, <2>3, <2>4 DEF FsmShape, HeadIsLive
<1>6. CASE Drain
  <2> DEFINE ends == HeadComplete /\ ~ds_done /\ (slot.null \/ slot.has)
             nr == IF ends /\ (slot.null => slot.take) THEN 1 ELSE 0
  <2>1. /\ state = "DRAIN" /\ Pipeline(0, nr, FALSE, FALSE)
        /\ state' = IF ds_done /\ Drained THEN "RAT" ELSE "DRAIN"
    BY <1>6 DEF Drain
  <2>2. (ds_done' <=> ds_done \/ ends)
    BY <1>6, Zenon DEF Drain
  <2>3. ~ends => nr = 0
    OBVIOUS
  <2> HIDE DEF nr, ends
  <2>4. ~ds_done' => ~RobEmpty /\ nr = 0
    BY <2>1, <2>2, <2>3 DEF FsmShape, HeadIsLive
  <2>5. ~ds_done' => ~RobEmpty'
    BY <2>1, <2>4, PlainCounts
  <2>6. state' = "RAT" => ds_done'
    BY <2>1, <2>2
  <2>7. state' \in {"RAT", "DRAIN"}
    BY <2>1
  <2> QED  BY <2>5, <2>6, <2>7 DEF FsmShape, HeadIsLive
<1>7. CASE ExceptionDrain
  <2>1. state = "EXCEPTION_DRAIN" /\ ds_done' = ds_done /\ state' \in {"RAT", "EXCEPTION_DRAIN"}
    BY <1>7 DEF ExceptionDrain
  <2> QED  BY <2>1 DEF FsmShape, HeadIsLive
<1>8. CASE Rat
  <2>1. /\ state = "RAT" /\ state' = IF GotAck THEN "ACTIVE" ELSE "RAT"
        /\ ds_done' <=> ds_done /\ ~GotAck
    BY <1>8, Zenon DEF Rat
  <2> QED  BY <2>1 DEF FsmShape, HeadIsLive
<1>9. CASE AllocForSerialize
  <2>1. PICK na \in AllocAlone :
           /\ Pipeline(na, 0, FALSE, FALSE)
           /\ state' = IF na = 1 THEN "WAIT_FOR_SERIALIZE_AND_RESTART" ELSE "ALLOC_FOR_SERIALIZE"
    BY <1>9 DEF AllocForSerialize
  <2>2. state = "ALLOC_FOR_SERIALIZE" /\ ds_done' = ds_done
    BY <1>9 DEF AllocForSerialize
  <2>3. RobEmpty /\ dq # <<>> /\ ~ds_done
    BY <2>2 DEF FsmShape
  <2>4. na = 1 /\ Fits(1, 0)
    BY <2>3, AllocAloneFits, Flags DEF Fits, Occupancy
  <2>5. Occupancy' = Occupancy + 1 - 0 /\ (RobEmpty' <=> Occupancy' = 0)
    BY <2>1, <2>4, PipelineCounts
  <2>6. ~RobEmpty'
    BY <2>5, Flags
  <2> QED  BY <2>1, <2>2, <2>3, <2>4, <2>6 DEF FsmShape, HeadIsLive
<1>10. CASE AllocForMonitor
  <2>1. PICK na \in AllocAlone : Pipeline(na, 0, FALSE, FALSE)
    BY <1>10 DEF AllocForMonitor
  <2>2. state = "ALLOC_FOR_MONITOR" /\ ds_done' = ds_done /\ state' = "WAIT_FOR_MONITOR"
    BY <1>10 DEF AllocForMonitor
  <2>3. RobEmpty /\ dq # <<>> /\ ~ds_done
    BY <2>2 DEF FsmShape
  <2>4. na = 1 /\ Fits(1, 0)
    BY <2>3, AllocAloneFits, Flags DEF Fits, Occupancy
  <2>5. Occupancy' = Occupancy + 1 - 0 /\ (RobEmpty' <=> Occupancy' = 0)
    BY <2>1, <2>4, PipelineCounts
  <2>6. ~RobEmpty'
    BY <2>5, Flags
  <2> QED  BY <2>2, <2>3, <2>6 DEF FsmShape, HeadIsLive
<1>11. CASE WaitForSerialize
  <2>1. /\ state = "WAIT_FOR_SERIALIZE_AND_RESTART" /\ ds_done' = ds_done
        /\ Pipeline(0, 0, FALSE, HeadComplete)
        /\ state' \in {"ACTIVE", "WAIT_FOR_SERIALIZE_AND_RESTART"}
    BY <1>11 DEF WaitForSerialize
  <2>2. ~RobEmpty /\ ~ds_done
    BY <2>1 DEF FsmShape, HeadIsLive
  <2>3. HeadComplete \in BOOLEAN
    BY DEF HeadComplete
  <2>4. ~RobEmpty'
    BY <2>1, <2>2, <2>3, PlainCounts
  <2> QED  BY <2>1, <2>2, <2>4 DEF FsmShape, HeadIsLive
<1>12. CASE WaitForMonitor
  <2> DEFINE nr == IF HeadComplete /\ GotAck THEN 1 ELSE 0
  <2>1. /\ state = "WAIT_FOR_MONITOR" /\ ds_done' = ds_done
        /\ Pipeline(0, nr, FALSE, HeadComplete)
        /\ state' = IF nr = 1 THEN "ACTIVE" ELSE "WAIT_FOR_MONITOR"
    BY <1>12 DEF WaitForMonitor
  <2>2. ~RobEmpty /\ ~ds_done
    BY <2>1 DEF FsmShape, HeadIsLive
  <2>3. HeadComplete \in BOOLEAN /\ nr \in {0, 1}
    BY DEF HeadComplete
  <2> HIDE DEF nr
  <2>4. nr = 0 => ~RobEmpty'
    BY <2>1, <2>2, <2>3, PlainCounts
  <2> QED  BY <2>1, <2>2, <2>3, <2>4 DEF FsmShape, HeadIsLive
<1>13. CASE MonitorFlushCache
  <2>1. /\ state = "MONITOR_FLUSH_CACHE" /\ ds_done' = ds_done /\ Pipeline(0, 0, FALSE, FALSE)
        /\ state' \in {"MONITOR_FLUSH_CACHE", "HANDLE_MONITOR"}
    BY <1>13 DEF MonitorFlushCache, FlushWait
  <2>2. RobEmpty /\ dq # <<>> /\ ~ds_done
    BY <2>1 DEF FsmShape
  <2>3. RobEmpty' /\ dq' # <<>>
    BY <2>1, <2>2, PlainCounts
  <2> QED  BY <2>1, <2>2, <2>3 DEF FsmShape, HeadIsLive
<1>14. CASE HandleMonitor
  <2>1. /\ state = "HANDLE_MONITOR" /\ ds_done' = ds_done /\ Pipeline(0, 0, FALSE, FALSE)
        /\ state' \in {"HANDLE_MONITOR", "ALLOC_FOR_MONITOR"}
    BY <1>14 DEF HandleMonitor
  <2>2. RobEmpty /\ dq # <<>> /\ ~ds_done
    BY <2>1 DEF FsmShape
  <2>3. RobEmpty' /\ dq' # <<>>
    BY <2>1, <2>2, PlainCounts
  <2> QED  BY <2>1, <2>2, <2>3 DEF FsmShape, HeadIsLive
<1>15. CASE WriteCpr0 \/ FlushForHalt \/ Halt \/ Resume \/ HaltWaitForRestart
  <2>1. /\ state \in {"WRITE_EPC", "WRITE_CAUSE", "FLUSH_FOR_HALT", "HALT", "HALT_WAIT_FOR_RESTART"}
        /\ ds_done' = ds_done
        /\ state' \in {"WRITE_CAUSE", "FLUSH_FOR_HALT", "HALT", "HALT_WAIT_FOR_RESTART", "ACTIVE"}
    BY <1>15 DEF WriteCpr0, FlushForHalt, FlushWait, Halt, Resume, HaltWaitForRestart
  <2> QED  BY <2>1 DEF FsmShape, HeadIsLive
<1> QED
  BY <1>1, <1>2, <1>3, <1>4, <1>5, <1>6, <1>7, <1>8, <1>9, <1>10, <1>11, <1>12, <1>13, <1>14, <1>15 DEF Next

\* The registers and queues have their types, and the states that read the head
\* of the reorder buffer find a uop there.
ShapeInv == TypeInv /\ FsmShape

LEMMA InitShape == Init => ShapeInv
<1> SUFFICES ASSUME Init PROVE ShapeInv
  OBVIOUS
<1>1. 0 \in PC /\ EntryPC \in PC /\ 0 \in R!Ptr /\ 0 \in Slots
  BY CoreAssumption, ProgramFacts DEF PC, R!Ptr, Slots, R!Index
<1>2. Occupancy = 0 /\ Occupancy <= ROB_ENTRIES
  BY CoreAssumption DEF Init, Occupancy, R!Count
<1>3. PipelineType
  <2>1. Blank \in RobEntry
    BY <1>1 DEF Blank, RobEntry
  <2>2. rob \in [Slots -> RobEntry] /\ x \in [Slots -> UnitStates]
    BY <2>1 DEF Init, UnitStates
  <2>3. fe \in FetchEngine
    BY <1>1 DEF Init, FetchEngine, FeStates
  <2>4. dq \in Seq(Uop) /\ Len(dq) <= DQ_ENTRIES
    BY CoreAssumption DEF Init
  <2>5. {got_ack, drain, memq_empty, in_ds} \subseteq BOOLEAN
    BY DEF Init
  <2>6. fdiv \in FpDivider
    BY <1>1 DEF Init, FpDivider
  <2>7. /\ head \in R!Ptr /\ tail \in R!Ptr /\ complete \subseteq Slots /\ inflight \subseteq Slots
        /\ l1d = "idle" /\ flush_state = "FLUSH_IDLE"
    BY <1>1 DEF Init
  <2> QED  BY <1>2, <2>2, <2>3, <2>4, <2>5, <2>6, <2>7 DEF PipelineType
<1>4. FsmType
  BY <1>1 DEF Init, FsmType, States
<1>5. BenchType
  BY <1>1 DEF Init, BenchType, Cursor
<1>6. FsmShape
  BY DEF Init, FsmShape, HeadIsLive
<1> QED  BY <1>3, <1>4, <1>5, <1>6, TypeParts DEF ShapeInv

LEMMA NextKeepsShapeInv ==
    ASSUME ShapeInv, Next
    PROVE  ShapeInv'
<1>1. PICK na, nr, clr_rob, clr_dq : Clock(na, nr, clr_rob, clr_dq)
  BY NextIsClock DEF ShapeInv, IsClock
<1>2. PipelineType'
  BY <1>1, PipelineKeepsType DEF ShapeInv, Clock
<1>3. FsmType' /\ BenchType'
  BY NextKeepsFsmType DEF ShapeInv
<1>4. TypeInv' <=> PipelineType' /\ FsmType' /\ BenchType'
  BY TypeParts, PTL
<1> QED  BY <1>2, <1>3, <1>4, NextKeepsShape DEF ShapeInv

LEMMA StutterKeepsShapeInv == ShapeInv /\ UNCHANGED vars => ShapeInv'
BY DEF ShapeInv, TypeInv, TypeOK, FsmShape, HeadIsLive, RobEmpty, vars, fsm

\* ShapeInv is inductive: the types, and what each state of the machine (r_state
\* in core.sv) leaves in the reorder buffer, whose head is live unless it is empty.
THEOREM ShapeInvariant == Spec => []ShapeInv
<1>1. ShapeInv /\ [Next]_vars => ShapeInv'
  BY NextKeepsShapeInv, StutterKeepsShapeInv
<1> QED  BY <1>1, InitShape, PTL DEF Spec

\* For every program and every size of the queues the registers of the core and
\* of the parts around it keep their types: neither the reorder buffer nor the
\* decode queue is overfilled, and no pointer runs away.
THEOREM TypeCorrect == Spec => []TypeOK
<1>1. ShapeInv => TypeOK
  BY DEF ShapeInv, TypeInv
<1> QED  BY <1>1, ShapeInvariant, PTL

\* For every program the delay slot in DRAIN, and the serializing uop or monitor
\* call in the waiting states, is in the reorder buffer when it is read.
THEOREM HeadLive == Spec => []HeadIsLive
<1>1. ShapeInv => HeadIsLive
  BY DEF ShapeInv, FsmShape
<1> QED  BY <1>1, ShapeInvariant, PTL

-----------------------------------------------------------------------------
(* The execution units.  The FP divider keeps its own copy of a slot that  *)
(* no drain waits for; what makes that good is that it is finished by the  *)
(* last clock in which a completion of a squashed uop is thrown away.      *)

\* While a drain goes on, after its first clock: queues and start registers are
\* empty, a divide is still counted in flight, and once the data cache has been
\* reported empty only divides are left.
Draining ==
    /\ \A i \in Slots : x[i] \in {"idle", "run", "done"}
    /\ \A i \in Slots : x[i] # "idle" /\ Op(rob[i].pc) = "div" => i \in inflight
    /\ memq_empty => \A i \in Slots : x[i] # "idle" => Op(rob[i].pc) = "div"

\* The divider works for one such uop, which is nowhere else.  Started in the
\* clock of a squash it is counted in flight no longer, but it has rounded before
\* memq_empty, two clocks late, can be seen, and it signals the completion in the
\* clock that clears the buffer at the latest.
DividerInv ==
    fdiv.st # "idle" =>
        /\ fdiv.slot \in Live /\ fdiv.slot \notin complete /\ x[fdiv.slot] = "idle"
        /\ ~ds_done => fdiv.slot \in inflight
        /\ fdiv.st = "round" => ~memq_empty
        /\ state = "RAT" => fdiv.st = "done"

\* The units work for live uops that have not completed; what a drain waits for
\* covers everything they may still hold, and its delayed flags are never left
\* over from an earlier drain.
UnitsInv ==
    /\ DividerInv
    /\ \A i \in Slots : x[i] # "idle" => i \in Live /\ i \notin complete
    /\ \A i \in Slots : x[i] = "run" => Op(rob[i].pc) \in {"load", "div"}
    /\ ~(ds_done /\ drain) => \A i \in Slots : x[i] # "idle" => i \in inflight
    /\ ds_done /\ ~drain => ~memq_empty
    /\ ds_done /\ drain => Draining
    /\ state = "RAT" => \A i \in Slots : x[i] = "idle"
    /\ ~ds_done /\ drain => RobEmpty /\ dq = <<>>
    /\ ~ds_done /\ memq_empty => RobEmpty

\* The only live slot of a buffer that holds one uop is its head.
LEMMA LiveHead ==
    ASSUME TypeInv
    PROVE  /\ Occupancy = 1 => \A i \in Live : i = HeadSlot
           /\ Occupancy >= 1 => HeadSlot \in Live
           /\ Occupancy = 0 => Live = {}
           /\ Live \subseteq Slots
<1>1. head \in R!Ptr /\ tail \in R!Ptr /\ R!Count(head, tail) <= ROB_ENTRIES
  BY DEF TypeInv, TypeOK
<1>2. R!Idx(head) \in Slots /\ Slots = 0 .. (ROB_ENTRIES - 1)
  BY <1>1, PtrClosed DEF Slots, R!Index
<1>3. Live = LiveBetween(head, tail)
  BY DEF Live, LiveBetween
<1>4. \A s : s \in Live <=> s \in Slots /\ Distance(head, s) < Occupancy
  BY <1>1, <1>3, LiveIff DEF Occupancy
<1>5. Distance(head, HeadSlot) = 0 /\ HeadSlot \in Slots
  BY <1>2, CoreAssumption DEF Distance, HeadSlot
<1>6. ASSUME NEW s \in Slots PROVE Distance(head, s) \in Nat /\ (Distance(head, s) < 1 => s = HeadSlot)
  BY <1>2, CoreAssumption DEF Distance, HeadSlot
<1> QED  BY <1>4, <1>5, <1>6, Flags

\* Only the kinds of uop a unit serves leave its queue or finish in it.
LEMMA IssueFacts ==
    ASSUME NEW go \in Issues, NEW fin \in Finishes
    PROVE  /\ \A i \in go : i \in Slots /\ x[i] = "wait"
           /\ \A i \in go : ds_done => Op(rob[i].pc) \in {"load", "fdiv"}
           /\ \A i \in fin : i \in Slots /\ x[i] = "run" /\ Op(rob[i].pc) \in {"load", "div"}
<1> DEFINE P == UpToOne(IF ds_done THEN {} ELSE InUnit("wait", SingleCycle \cup {"div"}))
           M == UpToOne(InUnit("wait", {"load"}))
           F == UpToOne(IF fdiv.st \in {"idle", "done"} THEN InUnit("wait", {"fdiv"}) ELSE {})
<1>0. Issues = {p \cup m \cup f : p \in P, m \in M, f \in F}
  BY DEF Issues
<1> HIDE DEF P, M, F
<1>1. PICK p \in P, m \in M, f \in F : go = p \cup m \cup f
  BY <1>0
<1>2. /\ p \subseteq (IF ds_done THEN {} ELSE InUnit("wait", SingleCycle \cup {"div"}))
      /\ m \subseteq InUnit("wait", {"load"})
      /\ f \subseteq InUnit("wait", {"fdiv"})
  BY <1>1 DEF UpToOne, P, M, F
<1>3. PICK a \in UpToOne(InUnit("run", {"load"})), b \in UpToOne(InUnit("run", {"div"})) : fin = a \cup b
  BY DEF Finishes
<1>4. a \subseteq InUnit("run", {"load"}) /\ b \subseteq InUnit("run", {"div"})
  BY <1>3 DEF UpToOne
<1>5. \A i \in go : i \in Slots /\ x[i] = "wait"
  BY <1>1, <1>2 DEF InUnit
<1>6. \A i \in go : ds_done => Op(rob[i].pc) \in {"load", "fdiv"}
  BY <1>1, <1>2 DEF InUnit
<1>7. \A i \in fin : i \in Slots /\ x[i] = "run" /\ Op(rob[i].pc) \in {"load", "div"}
  BY <1>3, <1>4 DEF InUnit
<1> QED  BY <1>5, <1>6, <1>7

\* What a clock leaves in a slot that is not being allocated.
LEMMA ExecutedFacts ==
    ASSUME TypeInv, NEW go \in Issues, NEW fin \in Finishes, NEW i \in Slots
    PROVE  LET y == Executed(i, go, fin)
           IN  /\ y # "idle" => x[i] # "idle" /\ x[i] # "done"
               /\ y = "run" => x[i] = "run" \/ Op(rob[i].pc) \in {"load", "div"}
               /\ ds_done => y \in {"idle", "run", "done"}
               /\ ds_done /\ y # "idle" /\ Op(rob[i].pc) = "div" => x[i] = "run"
               /\ ds_done /\ y # "idle" /\ x[i] \in {"idle", "run", "done"} => x[i] = "run"
<1>1. /\ i \in go => x[i] = "wait"
      /\ i \in go /\ ds_done => Op(rob[i].pc) \in {"load", "fdiv"}
      /\ i \in fin => x[i] = "run"
  BY IssueFacts
<1>2. x[i] \in UnitStates
  BY DEF TypeInv, TypeOK, UnitStates, FpDivider
<1>3. CASE i \in go
  <2>1. Executed(i, go, fin) = IF Op(rob[i].pc) = "fdiv" THEN "idle"
                               ELSE IF Op(rob[i].pc) = "load" THEN "run" ELSE "start"
    BY <1>3 DEF Executed
  <2> QED  BY <1>1, <1>3, <2>1
<1>4. CASE i \notin go
  <2>1. Executed(i, go, fin) =
          IF x[i] = "wait" /\ ds_done THEN "idle"
          ELSE IF x[i] = "start" /\ Op(rob[i].pc) = "div" THEN IF ds_done THEN "idle" ELSE "run"
          ELSE IF x[i] = "start" \/ i \in fin THEN "done"
          ELSE IF x[i] = "done" THEN "idle"
          ELSE x[i]
    BY <1>4 DEF Executed
  <2> QED  BY <1>1, <1>2, <1>4, <2>1 DEF UnitStates
<1> QED  BY <1>3, <1>4

\* What a clock makes of the divider: it goes on, or takes a uop that waited.
DividerGoesOn ==
    /\ fdiv.st \in {"round", "valid"}
    /\ fdiv'.slot = fdiv.slot
    /\ fdiv'.st = IF fdiv.st = "round" THEN "valid" ELSE "done"
DividerStarts(go, fin) ==
    /\ fdiv.st \in {"idle", "done"} /\ fdiv'.st = "round"
    /\ fdiv'.slot \in Slots /\ x[fdiv'.slot] = "wait"
    /\ Executed(fdiv'.slot, go, fin) = "idle"

LEMMA DividerSteps ==
    ASSUME TypeInv, NEW go \in Issues, NEW fin \in Finishes, fdiv' = Divider(go)
    PROVE  DividerGoesOn \/ DividerStarts(go, fin) \/ fdiv'.st = "idle"
<1> DEFINE f == {i \in go : Op(rob[i].pc) = "fdiv"}
           c == CHOOSE i \in f : TRUE
<1>1. fdiv \in [st : {"idle", "round", "valid", "done"}, slot : Slots]
  BY DEF TypeInv, TypeOK
<1>2. fdiv' = CASE fdiv.st = "round" -> [fdiv EXCEPT !.st = "valid"]
                [] fdiv.st = "valid" -> [fdiv EXCEPT !.st = "done"]
                [] OTHER -> FpStart(go, "round")
  BY DEF Divider
<1>3. CASE fdiv.st = "round"
  BY <1>1, <1>2, <1>3 DEF DividerGoesOn
<1>4. CASE fdiv.st = "valid"
  BY <1>1, <1>2, <1>4 DEF DividerGoesOn
<1>5. CASE fdiv.st \in {"idle", "done"}
  <2>1. fdiv' = IF f = {} THEN [st |-> "idle", slot |-> 0] ELSE [st |-> "round", slot |-> c]
    BY <1>2, <1>5 DEF FpStart
  <2>2. CASE f = {}
    BY <2>1, <2>2
  <2>3. CASE f # {}
    <3>1. c \in f
      BY <2>3
    <3> HIDE DEF c
    <3>2. c \in go /\ Op(rob[c].pc) = "fdiv" /\ fdiv' = [st |-> "round", slot |-> c]
      BY <2>1, <2>3, <3>1
    <3>3. c \in Slots /\ x[c] = "wait"
      BY <3>2, IssueFacts
    <3>4. Executed(c, go, fin) = "idle"
      BY <3>2 DEF Executed
    <3> QED  BY <1>5, <3>2, <3>3, <3>4 DEF DividerStarts
  <2> QED  BY <2>2, <2>3
<1> QED  BY <1>1, <1>3, <1>4, <1>5

\* The clock, in terms of the slots it allocates and frees.
LEMMA ClockBuffer ==
    ASSUME ShapeInv, NEW na, NEW nr, NEW clr_rob, NEW clr_dq, Clock(na, nr, clr_rob, clr_dq)
    PROVE  LET new == NewSlots(tail, na)
               freed == FreedSlots(head, nr)
           IN  /\ new \subseteq Slots /\ new \cap Live = {}
               /\ clr_rob => new = {}
               /\ ds_done => new = {}
               /\ freed \subseteq complete
               /\ Live' = IF clr_rob THEN {} ELSE (Live \ freed) \cup new
               /\ complete' = IF clr_rob THEN {} ELSE (complete \ (new \cup freed)) \cup FoldSlots(na) \cup Done
               /\ inflight' = IF ds_done THEN inflight \ (Waiting \cup Done)
                              ELSE (inflight \ Done) \cup (new \ FoldSlots(na))
               /\ FoldSlots(na) \subseteq new
               /\ \A i \in Slots : ~clr_rob /\ i \notin new \cup freed => rob'[i].pc = rob[i].pc
               /\ drain' = ds_done
               /\ memq_empty' <=> drain /\ InUnit("run", {"load"}) = {}
<1>1. /\ TypeInv /\ FsmShape /\ Fits(na, nr) /\ clr_rob \in BOOLEAN /\ clr_dq \in BOOLEAN
      /\ Decode(na, clr_dq) /\ Buffer(na, nr, clr_rob, clr_dq)
      /\ FreedSlots(head, nr) \subseteq complete
      /\ na > 0 => state \in {"ACTIVE", "ALLOC_FOR_SERIALIZE", "ALLOC_FOR_MONITOR"}
      /\ clr_rob <=> state = "RAT"
  BY DEF Clock, ShapeInv, Pipeline
<1>2. /\ NewSlots(tail, na) \subseteq Slots \ Live
      /\ Live' = IF clr_rob THEN {} ELSE (Live \ FreedSlots(head, nr)) \cup NewSlots(tail, na)
  BY <1>1, BufferPointers
<1>3. /\ complete' = IF clr_rob THEN {} ELSE (complete \ (NewSlots(tail, na) \cup FreedSlots(head, nr)))
                                             \cup FoldSlots(na) \cup Done
      /\ inflight' = IF ds_done THEN inflight \ (Waiting \cup Done)
                     ELSE (inflight \ Done) \cup (NewSlots(tail, na) \ FoldSlots(na))
  BY <1>1, Zenon DEF Buffer, NewSlots, FreedSlots, FoldSlots, NewUop, HeadSlot, NextSlot
<1>4. FoldSlots(na) \subseteq NewSlots(tail, na)
  BY DEF FoldSlots
<1>5. na \in 0 .. 2 /\ (na = 0 => NewSlots(tail, na) = {})
  BY <1>1 DEF Fits, NewSlots
<1>6. (clr_rob \/ ds_done) => NewSlots(tail, na) = {}
  BY <1>1, <1>5 DEF FsmShape
<1>7. ASSUME NEW i \in Slots, ~clr_rob, i \notin NewSlots(tail, na) \cup FreedSlots(head, nr)
      PROVE  rob'[i].pc = rob[i].pc
  <2>1. CASE i \notin Done
    BY <1>1, <1>7, <2>1, BufferRob
  <2>2. CASE i \in Done
    <3>1. PICK b \in BOOLEAN : /\ rob'[i] = Completed(rob[i], b)
                               /\ Op(rob[i].pc) \notin {"br", "brl"} => ~b
      BY <1>1, <1>7, <2>2, BufferRob
    <3>2. rob[i] \in RobEntry
      BY <1>1 DEF TypeInv, TypeOK, RobEntry
    <3> QED  BY <3>1, <3>2, CompletedEntry
  <2> QED  BY <2>1, <2>2
<1>8. drain' = ds_done /\ (memq_empty' <=> drain /\ InUnit("run", {"load"}) = {})
  BY Zenon DEF Clock, Pipeline
<1> QED  BY <1>1, <1>2, <1>3, <1>4, <1>6, <1>7, <1>8

\* The invariant of the units is kept by every clock.
LEMMA ClockKeepsUnits ==
    ASSUME ShapeInv, UnitsInv,
           NEW na, NEW nr, NEW clr_rob, NEW clr_dq, Clock(na, nr, clr_rob, clr_dq)
    PROVE  UnitsInv'
<1> DEFINE new == NewSlots(tail, na)
           freed == FreedSlots(head, nr)
           fold == FoldSlots(na)
<1>1. /\ TypeInv /\ FsmShape /\ Fits(na, nr) /\ clr_rob \in BOOLEAN /\ clr_dq \in BOOLEAN
      /\ Pipeline(na, nr, clr_rob, clr_dq)
      /\ Buffer(na, nr, clr_rob, clr_dq)
  BY DEF Clock, ShapeInv, Pipeline
<1>2. /\ new \subseteq Slots /\ new \cap Live = {}
      /\ (clr_rob => new = {}) /\ (ds_done => new = {})
      /\ freed \subseteq complete
      /\ Live' = IF clr_rob THEN {} ELSE (Live \ freed) \cup new
      /\ complete' = IF clr_rob THEN {} ELSE (complete \ (new \cup freed)) \cup fold \cup Done
      /\ inflight' = IF ds_done THEN inflight \ (Waiting \cup Done) ELSE (inflight \ Done) \cup (new \ fold)
      /\ fold \subseteq new
      /\ \A i \in Slots : ~clr_rob /\ i \notin new \cup freed => rob'[i].pc = rob[i].pc
      /\ drain' = ds_done
      /\ memq_empty' <=> drain /\ InUnit("run", {"load"}) = {}
  BY ClockBuffer
<1>3. /\ clr_rob <=> state = "RAT"
      /\ clr_rob => clr_dq
      /\ ds_done /\ ~ds_done' => state = "RAT"
      /\ ~ds_done /\ ds_done' => Occupancy >= 1
      /\ state' = "RAT" => state = "RAT" \/ (ds_done /\ Drained)
  BY DEF Clock
<1>4. PICK go \in Issues, fin \in Finishes :
         /\ \A i \in Slots : x'[i] = IF i \in new \ fold THEN "wait" ELSE Executed(i, go, fin)
         /\ fdiv' = Divider(go)
  BY <1>1, BufferUnits
<1> HIDE DEF new, freed, fold
<1>5. DividerInv
  BY DEF UnitsInv
<1>6. fdiv.slot \in Slots
  BY <1>1 DEF TypeInv, TypeOK
<1>7. /\ \A i \in Slots : x[i] \notin {"idle", "done"} => i \notin Done
      /\ fdiv.st \in {"round", "valid"} => fdiv.slot \notin Done
  BY <1>5, <1>6 DEF Done, DividerInv
<1>8. \A i \in Slots : /\ x[i] # "idle" => i \in Live /\ i \notin complete
                       /\ x[i] = "run" => Op(rob[i].pc) \in {"load", "div"}
                       /\ state = "RAT" => x[i] = "idle"
  BY DEF UnitsInv
\* A slot that stays busy was busy, is neither allocated nor freed, and keeps its uop.
<1>9. ASSUME NEW i \in Slots, x'[i] # "idle", i \notin new \ fold
      PROVE  /\ x'[i] = Executed(i, go, fin)
             /\ x[i] # "idle" /\ x[i] # "done"
             /\ ~clr_rob /\ i \in Live /\ i \notin complete /\ i \notin new \cup freed /\ i \notin Done
             /\ rob'[i].pc = rob[i].pc
  <2>1. x'[i] = Executed(i, go, fin)
    BY <1>4, <1>9
  <2>2. x[i] # "idle" /\ x[i] # "done"
    BY <1>1, <1>9, <2>1, ExecutedFacts
  <2>3. i \in Live /\ i \notin complete
    BY <1>8, <2>2
  <2>4. ~clr_rob
    BY <1>3, <2>2 DEF UnitsInv
  <2>5. i \notin new \cup freed
    BY <1>2, <2>3
  <2> QED  BY <1>2, <1>7, <2>1, <2>2, <2>3, <2>4, <2>5
<1>10. ASSUME NEW i \in Slots, x'[i] # "idle"
       PROVE  i \in Live' /\ i \notin complete'
  <2>1. CASE i \in new \ fold
    <3>1. i \notin Done
      BY <1>2, <1>5, <1>8, <2>1 DEF Done, DividerInv
    <3>2. ~clr_rob
      BY <1>2, <2>1
    <3> QED  BY <1>2, <2>1, <3>1, <3>2
  <2>2. CASE i \notin new \ fold
    BY <1>2, <1>9, <1>10, <2>2
  <2> QED  BY <2>1, <2>2
<1>11. ASSUME NEW i \in Slots, x'[i] = "run"
       PROVE  Op(rob'[i].pc) \in {"load", "div"}
  <2>1. i \notin new \ fold
    BY <1>4, <1>11
  <2>2. x'[i] = Executed(i, go, fin) /\ rob'[i].pc = rob[i].pc
    BY <1>9, <1>11, <2>1
  <2>3. x[i] = "run" \/ Op(rob[i].pc) \in {"load", "div"}
    BY <1>1, <1>11, <2>2, ExecutedFacts
  <2> QED  BY <1>8, <2>2, <2>3
<1>12. ASSUME ~(ds_done' /\ drain'), NEW i \in Slots, x'[i] # "idle"
       PROVE  i \in inflight'
  <2>1. CASE ~ds_done
    <3>1. CASE i \in new \ fold
      BY <1>2, <2>1, <3>1
    <3>2. CASE i \notin new \ fold
      <4>1. x[i] # "idle" /\ i \notin Done
        BY <1>9, <1>12, <3>2
      <4>2. i \in inflight
        BY <2>1, <4>1 DEF UnitsInv
      <4> QED  BY <1>2, <2>1, <4>1, <4>2
    <3> QED  BY <3>1, <3>2
  <2>2. CASE ds_done
    <3>1. state = "RAT"
      BY <1>2, <1>3, <1>12, <2>2
    <3>2. new = {} /\ clr_rob
      BY <1>2, <1>3, <2>2, <3>1
    <3> QED  BY <1>9, <1>12, <3>2
  <2> QED  BY <2>1, <2>2
<1>13. ds_done' /\ ~drain' => ~memq_empty'
  <2> SUFFICES ASSUME ds_done', ~drain' PROVE ~drain
    BY <1>2
  <2>1. ~ds_done
    BY <1>2
  <2>2. ~RobEmpty
    BY <1>1, <1>3, <2>1, Flags
  <2> QED  BY <2>1, <2>2 DEF UnitsInv
<1>14. ASSUME ds_done', drain'
       PROVE  Draining'
  <2>1. ds_done /\ new = {}
    BY <1>2, <1>14
  <2>2. \A i \in Slots : x'[i] \in {"idle", "run", "done"}
    BY <1>1, <1>4, <2>1, ExecutedFacts
  <2>3. ASSUME NEW i \in Slots, x'[i] # "idle", Op(rob'[i].pc) = "div"
        PROVE  i \in inflight'
    <3>1. x'[i] = Executed(i, go, fin) /\ rob'[i].pc = rob[i].pc /\ i \notin Done
      BY <1>9, <2>1, <2>3
    <3>2. x[i] = "run"
      BY <1>1, <2>1, <2>3, <3>1, ExecutedFacts
    <3>3. i \in inflight
      BY <2>1, <2>3, <3>1, <3>2 DEF UnitsInv, Draining
    <3>4. i \notin Waiting
      BY <3>2 DEF Waiting
    <3> QED  BY <1>2, <2>1, <3>1, <3>3, <3>4
  <2>4. ASSUME memq_empty', NEW i \in Slots, x'[i] # "idle"
        PROVE  Op(rob'[i].pc) = "div"
    <3>1. x'[i] = Executed(i, go, fin) /\ rob'[i].pc = rob[i].pc
      BY <1>9, <2>1, <2>4
    <3>2. drain /\ InUnit("run", {"load"}) = {}
      BY <1>2, <2>4
    <3>3. x[i] \in {"idle", "run", "done"}
      BY <2>1, <3>2 DEF UnitsInv, Draining
    <3>4. x[i] = "run"
      BY <1>1, <2>1, <2>4, <3>1, <3>3, ExecutedFacts
    <3>5. Op(rob[i].pc) # "load"
      BY <3>2, <3>4 DEF InUnit
    <3> QED  BY <1>8, <3>1, <3>4, <3>5
  <2> QED  BY <2>2, <2>3, <2>4 DEF Draining
<1>15. ASSUME state' = "RAT", NEW i \in Slots
       PROVE  x'[i] = "idle"
  <2>1. CASE state = "RAT"
    <3>1. ds_done /\ x[i] = "idle"
      BY <1>1, <2>1 DEF UnitsInv, FsmShape
    <3> QED  BY <1>2, <1>9, <3>1
  <2>2. CASE ds_done /\ Drained
    <3>1. drain /\ Draining /\ memq_empty /\ inflight = {}
      BY <2>2 DEF UnitsInv, Drained
    <3>2. x[i] = "idle"
      BY <3>1 DEF Draining
    <3> QED  BY <1>2, <1>9, <2>2, <3>2
  <2> QED  BY <1>3, <1>15, <2>1, <2>2
\* The divider goes on with a uop that nothing else touches.
<1>16. ASSUME DividerGoesOn
       PROVE  DividerInv'
  <2>1. /\ fdiv'.slot = fdiv.slot /\ fdiv.slot \in Live /\ fdiv.slot \notin complete
        /\ x[fdiv.slot] = "idle" /\ fdiv.slot \notin Done /\ state # "RAT"
        /\ ~ds_done => fdiv.slot \in inflight
        /\ fdiv.st = "round" => ~memq_empty
        /\ fdiv'.st = IF fdiv.st = "round" THEN "valid" ELSE "done"
    BY <1>5, <1>7, <1>16 DEF DividerGoesOn, DividerInv
  <2>2. ~clr_rob /\ fdiv.slot \notin new \cup freed
    BY <1>2, <1>3, <2>1
  <2>3. fdiv.slot \in Live' /\ fdiv.slot \notin complete'
    BY <1>2, <2>1, <2>2
  <2>4. x'[fdiv.slot] = "idle"
    BY <1>6, <1>9, <2>1, <2>2
  <2>5. ~ds_done' => fdiv.slot \in inflight'
    BY <1>2, <1>3, <2>1, <2>2
  <2>6. state' = "RAT" => fdiv'.st = "done"
    BY <1>3, <2>1 DEF Drained
  <2>7. fdiv'.st # "round"
    BY <2>1
  <2> QED  BY <2>1, <2>3, <2>4, <2>5, <2>6, <2>7 DEF DividerInv
\* A uop that waits is started only while memq_empty cannot be reported.
<1>17. ASSUME DividerStarts(go, fin)
       PROVE  DividerInv'
  <2> DEFINE i == fdiv'.slot
  <2>1. i \in Slots /\ x[i] = "wait" /\ Executed(i, go, fin) = "idle" /\ fdiv'.st = "round"
    BY <1>17 DEF DividerStarts
  <2> HIDE DEF i
  <2>2. i \in Live /\ i \notin complete /\ i \notin Done /\ state # "RAT"
    BY <1>7, <1>8, <2>1
  <2>3. ~clr_rob /\ i \notin new \cup freed
    BY <1>2, <1>3, <2>2
  <2>4. i \in Live' /\ i \notin complete' /\ x'[i] = "idle"
    BY <1>2, <1>4, <2>1, <2>2, <2>3
  <2>5. ~(ds_done /\ drain)
    BY <2>1 DEF UnitsInv, Draining
  <2>6. i \in inflight
    BY <2>1, <2>5 DEF UnitsInv
  <2>7. ~ds_done' => i \in inflight'
    BY <1>2, <1>3, <2>2, <2>3, <2>6
  <2>8. ~drain
    <3>1. Live # {} => ~RobEmpty
      BY <1>1, Flags, LiveHead
    <3> QED  BY <2>2, <2>5, <3>1 DEF UnitsInv
  <2>9. ~memq_empty'
    BY <1>2, <2>8
  <2>10. state' # "RAT"
    BY <1>3, <2>2, <2>5, <2>8 DEF UnitsInv, Drained
  <2> QED  BY <2>1, <2>4, <2>7, <2>9, <2>10 DEF DividerInv, i
<1>18. DividerInv'
  <2>1. DividerGoesOn \/ DividerStarts(go, fin) \/ fdiv'.st = "idle"
    BY <1>1, <1>4, DividerSteps
  <2> QED  BY <1>16, <1>17, <2>1 DEF DividerInv
<1>19. ASSUME clr_rob PROVE RobEmpty' /\ dq' = <<>>
  <2>1. /\ Occupancy' = IF clr_rob THEN 0 ELSE Occupancy + na - nr
        /\ RobEmpty' <=> Occupancy' = 0
        /\ clr_dq => dq' = <<>>
    BY <1>1, PipelineCounts
  <2> QED  BY <1>3, <1>19, <2>1
<1>20. ~ds_done' /\ drain' => RobEmpty' /\ dq' = <<>>
  BY <1>2, <1>3, <1>19
<1>21. ~ds_done' /\ memq_empty' => RobEmpty'
  <2> SUFFICES ASSUME ~ds_done', memq_empty' PROVE RobEmpty'
    OBVIOUS
  <2>1. CASE ds_done
    BY <1>3, <1>19, <2>1
  <2>2. CASE ~ds_done
    <3>1. RobEmpty /\ dq = <<>>
      BY <1>2, <2>2 DEF UnitsInv
    <3>2. na = 0 /\ nr = 0
      BY <1>1, <3>1, Flags DEF Fits, Occupancy
    <3>3. /\ Occupancy' = IF clr_rob THEN 0 ELSE Occupancy + na - nr
          /\ RobEmpty' <=> Occupancy' = 0
      BY <1>1, PipelineCounts
    <3> QED  BY <1>1, <3>1, <3>2, <3>3, Flags
  <2> QED  BY <2>1, <2>2
<1> QED
  BY <1>10, <1>11, <1>12, <1>13, <1>14, <1>15, <1>18, <1>20, <1>21 DEF UnitsInv

LEMMA InitUnits == Init => UnitsInv
BY DEF Init, UnitsInv, DividerInv

LEMMA StutterKeepsUnits == UnitsInv /\ UNCHANGED vars => UnitsInv'
BY DEF UnitsInv, DividerInv, Draining, Live, RobEmpty, vars, fsm

\* UnitsInv is inductive: the units work only for live uops that have not
\* completed, and what a drain waits for (r_inflight, memq_empty and the integer
\* divider in core.sv) covers everything the units may still hold, a divide that
\* was started as it was squashed included.
THEOREM UnitsInvariant == Spec => [](ShapeInv /\ UnitsInv)
<1>1. Init => ShapeInv /\ UnitsInv
  BY InitShape, InitUnits
<1>2. ASSUME ShapeInv, UnitsInv, Next PROVE ShapeInv' /\ UnitsInv'
  <2>1. PICK na, nr, clr_rob, clr_dq : Clock(na, nr, clr_rob, clr_dq)
    BY <1>2, NextIsClock DEF ShapeInv, IsClock
  <2> QED  BY <1>2, <2>1, NextKeepsShapeInv, ClockKeepsUnits
<1>3. ShapeInv /\ UnitsInv /\ [Next]_vars => (ShapeInv /\ UnitsInv)'
  BY <1>2, StutterKeepsShapeInv, StutterKeepsUnits
<1> QED  BY <1>1, <1>3, PTL DEF Spec

\* For every program: outside a drain the units, the FP divider among them, work
\* only for uops of the reorder buffer that have not completed, so no completion of a
\* squashed uop reaches a slot that was given to another one.
THEOREM NoStale == Spec => []NoStaleCompletion
<1>1. ShapeInv /\ UnitsInv => NoStaleCompletion
  <2> SUFFICES ASSUME UnitsInv, ~ds_done, NEW i \in Slots, Busy(i)
               PROVE  i \in Live \cap inflight /\ i \notin complete
    BY DEF NoStaleCompletion
  <2> QED  BY DEF Busy, UnitsInv, DividerInv
<1> QED  BY <1>1, UnitsInvariant, PTL

\* A uop that may retire has left its unit, in every state and also during a
\* drain.
THEOREM CompleteIsExecuted == Spec => []CompleteMeansExecuted
<1>1. ShapeInv /\ UnitsInv => CompleteMeansExecuted
  <2> SUFFICES ASSUME ShapeInv, UnitsInv, NEW i \in Live \cap complete
               PROVE  ~Busy(i)
    BY DEF CompleteMeansExecuted
  <2>1. i \in Slots
    BY DEF ShapeInv, TypeInv, TypeOK
  <2> QED  BY <2>1 DEF Busy, UnitsInv, DividerInv
<1> QED  BY <1>1, UnitsInvariant, PTL

-----------------------------------------------------------------------------
(***************************************************************************)
(* The flush handshake between the state machine, the two caches and the   *)
(* flush bookkeeping: when the host is called, or finds the core halted    *)
(* after a break, memory is complete and the pipeline empty.               *)
(***************************************************************************)

(* Where the request for a flush of the instruction cache can be: nowhere, *)
(* waiting in the fetch engine, being served, or reported as done.         *)

FeQuiet == ~fe.flush /\ ~fe.done /\ fe.st # "FLUSH_CACHE"
FePending == fe.flush /\ ~fe.done /\ fe.st # "FLUSH_CACHE"
FeInCache == ~fe.flush /\ ~fe.done /\ fe.st = "FLUSH_CACHE"
FeReported == ~fe.flush /\ fe.done /\ fe.st # "FLUSH_CACHE"

\* The fields of the four outcomes of a clock of the fetch engine.
LEMMA OutcomeFields ==
    ASSUME NEW m, NEW next
    PROVE  /\ next = Idling(m) => next.st = fe.st /\ (next.flush <=> NextFlush) /\ ~next.done
           /\ next = Restarted => next.st = "ACTIVE" /\ (next.flush <=> NextFlush) /\ ~next.done
           /\ next = Flushing => next.st = "FLUSH_CACHE" /\ ~next.flush /\ ~next.done
           /\ next = Flushed(m) => next.st = "IDLE" /\ (next.flush <=> NextFlush) /\ next.done
BY DEF Idling, Restarted, Flushing, Flushed

\* How the request moves on.
LEMMA FetchFlush ==
    ASSUME TypeInv, NEW na, NEW clr_dq, Decode(na, clr_dq)
    PROVE  /\ FeQuiet /\ flush_req # "all" => FeQuiet'
           /\ FeQuiet /\ flush_req = "all" => FePending' \/ FeInCache'
           /\ FePending /\ flush_req # "all" => FePending' \/ FeInCache'
           /\ FeInCache /\ flush_req # "all" => FeInCache' \/ FeReported'
           /\ FeReported /\ flush_req # "all" => FeQuiet'
<1>1. PICK m : FetchStep(m, fe')
  BY FetchCases DEF Decode
<1>2. /\ fe' = Idling(m) => fe'.st = fe.st /\ (fe'.flush <=> NextFlush) /\ ~fe'.done
      /\ fe' = Restarted => fe'.st = "ACTIVE" /\ (fe'.flush <=> NextFlush) /\ ~fe'.done
      /\ fe' = Flushing => fe'.st = "FLUSH_CACHE" /\ ~fe'.flush /\ ~fe'.done
      /\ fe' = Flushed(m) => fe'.st = "IDLE" /\ (fe'.flush <=> NextFlush) /\ fe'.done
  BY OutcomeFields
<1>3. NextFlush <=> flush_req = "all" \/ fe.flush
  BY DEF NextFlush
<1> QED
  BY <1>1, <1>2, <1>3 DEF FetchStep, FeQuiet, FePending, FeInCache, FeReported

\* The same for the data cache and the bookkeeping.
LEMMA CacheFlush ==
    ASSUME NEW na, NEW nr, NEW clr_rob, NEW clr_dq, Pipeline(na, nr, clr_rob, clr_dq)
    PROVE  /\ flush_req # "none" => l1d' = "flush"
           /\ flush_req = "none" /\ l1d = "flush" => l1d' \in {"flush", "done"}
           /\ flush_req = "none" /\ l1d # "flush" => l1d' = "idle"
           /\ flush_state' = FlushState
           /\ Decode(na, clr_dq)
BY DEF Pipeline

-----------------------------------------------------------------------------
(* The phases of a flush.                                                  *)

\* The state machine asks for a flush (or, with "none", no flush is anywhere).
Asked(what) ==
    /\ flush_req = what /\ l1d = "idle" /\ ~l1d_flushed /\ FeQuiet
    /\ l1i_flushed <=> what = "line"
    /\ flush_state = "FLUSH_IDLE"

\* A line is being flushed from the data cache; the instruction cache counts as
\* flushed already.
FlushingLine ==
    /\ flush_req = "none" /\ l1d \in {"flush", "done"} /\ ~l1d_flushed /\ FeQuiet
    /\ l1i_flushed
    /\ flush_state = "FLUSH_IDLE"

\* Both caches are being flushed: each has the request, or has reported and been
\* recorded by the state machine and by the bookkeeping alike, never both.
FlushingAll ==
    /\ flush_req = "none"
    /\ \/ l1d \in {"flush", "done"} /\ ~l1d_flushed
       \/ l1d = "idle" /\ l1d_flushed
    /\ \/ (FePending \/ FeInCache \/ FeReported) /\ ~l1i_flushed
       \/ FeQuiet /\ l1i_flushed
    /\ ~l1d_flushed /\ ~l1i_flushed => flush_state = "WAIT_FOR_L1D_L1I"
    /\ l1d_flushed => flush_state = "GOT_L1D" /\ ~l1i_flushed
    /\ l1i_flushed => flush_state = "GOT_L1I"

\* No cache can have reported two clocks after the request.
FlushingEarly == FlushingAll /\ ~fe.done /\ ~l1i_flushed /\ l1d = "flush"

FlushInv ==
    /\ state \notin {"MONITOR_FLUSH_CACHE", "WRITE_EPC", "WRITE_CAUSE", "FLUSH_FOR_HALT"} => Asked("none")
    /\ state = "WRITE_EPC" => Asked("all")
    /\ state = "WRITE_CAUSE" => FlushingEarly
    /\ state = "FLUSH_FOR_HALT" => FlushingAll
    /\ state = "MONITOR_FLUSH_CACHE" => Asked("all") \/ Asked("line") \/ FlushingAll \/ FlushingLine

\* The completions the state machine sees in this clock, kept for the next.
Kept == (l1i_flushed' <=> l1i_flushed \/ fe.done) /\ (l1d_flushed' <=> l1d_flushed \/ l1d = "done")

LEMMA KeptFlags == (NoFlush => Kept /\ flush_req' = "none") /\ (\A what : Flush(what) => Kept /\ flush_req' = what)
BY Zenon DEF NoFlush, Flush, Kept, L1iFlushed, L1dFlushed

\* No flush comes from nowhere.
LEMMA QuietClock ==
    ASSUME TypeInv, Asked("none"), NEW na, NEW nr, NEW clr_rob, NEW clr_dq, Pipeline(na, nr, clr_rob, clr_dq)
    PROVE  /\ l1d' = "idle" /\ FeQuiet' /\ flush_state' = "FLUSH_IDLE"
           /\ Kept => ~l1i_flushed' /\ ~l1d_flushed'
<1>1. /\ flush_req = "none" /\ l1d = "idle" /\ ~l1d_flushed /\ FeQuiet /\ ~l1i_flushed
      /\ flush_state = "FLUSH_IDLE"
  BY DEF Asked
<1>2. l1d' = "idle" /\ flush_state' = FlushState /\ Decode(na, clr_dq)
  BY <1>1, CacheFlush
<1>3. FeQuiet'
  BY <1>1, <1>2, FetchFlush
<1>4. FlushState = "FLUSH_IDLE"
  BY <1>1 DEF FlushState
<1> QED  BY <1>1, <1>2, <1>3, <1>4 DEF Kept, FeQuiet

\* A full flush starts.
LEMMA AskedAllClock ==
    ASSUME TypeInv, Asked("all"), NEW na, NEW nr, NEW clr_rob, NEW clr_dq,
           Pipeline(na, nr, clr_rob, clr_dq), Kept, flush_req' = "none"
    PROVE  FlushingEarly'
<1>1. /\ flush_req = "all" /\ l1d = "idle" /\ ~l1d_flushed /\ FeQuiet /\ ~l1i_flushed
      /\ flush_state = "FLUSH_IDLE"
  BY DEF Asked
<1>2. l1d' = "flush" /\ flush_state' = FlushState /\ Decode(na, clr_dq)
  BY <1>1, CacheFlush
<1>3. FePending' \/ FeInCache'
  BY <1>1, <1>2, FetchFlush
<1>4. FlushState = "WAIT_FOR_L1D_L1I"
  BY <1>1 DEF FlushState
<1>5. ~l1i_flushed' /\ ~l1d_flushed'
  BY <1>1 DEF Kept, FeQuiet
<1> QED  BY <1>2, <1>3, <1>4, <1>5 DEF FlushingEarly, FlushingAll, FePending, FeInCache

\* A line flush starts.
LEMMA AskedLineClock ==
    ASSUME TypeInv, Asked("line"), NEW na, NEW nr, NEW clr_rob, NEW clr_dq,
           Pipeline(na, nr, clr_rob, clr_dq), Kept, flush_req' = "none"
    PROVE  FlushingLine'
<1>1. /\ flush_req = "line" /\ l1d = "idle" /\ ~l1d_flushed /\ FeQuiet /\ l1i_flushed
      /\ flush_state = "FLUSH_IDLE"
  BY DEF Asked
<1>2. l1d' = "flush" /\ flush_state' = FlushState /\ Decode(na, clr_dq)
  BY <1>1, CacheFlush
<1>3. FeQuiet'
  BY <1>1, <1>2, FetchFlush
<1>4. FlushState = "FLUSH_IDLE"
  BY <1>1 DEF FlushState
<1>5. l1i_flushed' /\ ~l1d_flushed'
  BY <1>1 DEF Kept
<1> QED  BY <1>2, <1>3, <1>4, <1>5 DEF FlushingLine

\* Both completions of a flush are in.
Finished == (l1i_flushed \/ fe.done) /\ (l1d_flushed \/ l1d = "done")

\* A line flush goes on, or has finished and leaves nothing behind.
LEMMA LineClock ==
    ASSUME TypeInv, FlushingLine, NEW na, NEW nr, NEW clr_rob, NEW clr_dq,
           Pipeline(na, nr, clr_rob, clr_dq), flush_req' = "none"
    PROVE  /\ ~Finished /\ Kept => FlushingLine'
           /\ Finished => l1d' = "idle" /\ FeQuiet' /\ flush_state' = "FLUSH_IDLE"
<1>1. /\ flush_req = "none" /\ l1d \in {"flush", "done"} /\ ~l1d_flushed /\ FeQuiet /\ l1i_flushed
      /\ flush_state = "FLUSH_IDLE"
  BY DEF FlushingLine
<1>2. /\ l1d = "flush" => l1d' \in {"flush", "done"}
      /\ l1d = "done" => l1d' = "idle"
      /\ flush_state' = FlushState /\ Decode(na, clr_dq)
  BY <1>1, CacheFlush
<1>3. FeQuiet'
  BY <1>1, <1>2, FetchFlush
<1>4. FlushState = "FLUSH_IDLE"
  BY <1>1 DEF FlushState
<1>5. Finished <=> l1d = "done"
  BY <1>1 DEF Finished
<1> QED  BY <1>1, <1>2, <1>3, <1>4, <1>5 DEF FlushingLine, Kept

\* So does a full flush: the caches report in any order, or in the same clock.
LEMMA AllClock ==
    ASSUME TypeInv, FlushingAll, NEW na, NEW nr, NEW clr_rob, NEW clr_dq,
           Pipeline(na, nr, clr_rob, clr_dq), flush_req' = "none"
    PROVE  /\ ~Finished /\ Kept => FlushingAll'
           /\ Finished => l1d' = "idle" /\ FeQuiet' /\ flush_state' = "FLUSH_IDLE"
<1>1. /\ flush_req = "none"
      /\ \/ l1d \in {"flush", "done"} /\ ~l1d_flushed
         \/ l1d = "idle" /\ l1d_flushed
      /\ \/ (FePending \/ FeInCache \/ FeReported) /\ ~l1i_flushed
         \/ FeQuiet /\ l1i_flushed
  BY DEF FlushingAll
<1>2. /\ l1d = "flush" => l1d' \in {"flush", "done"}
      /\ l1d # "flush" => l1d' = "idle"
      /\ flush_state' = FlushState /\ Decode(na, clr_dq)
  BY <1>1, CacheFlush
<1>3. /\ FeQuiet => FeQuiet'
      /\ FePending => FePending' \/ FeInCache'
      /\ FeInCache => FeInCache' \/ FeReported'
      /\ FeReported => FeQuiet'
  BY <1>1, <1>2, FetchFlush
<1>4. fe.done <=> FeReported
  BY <1>1 DEF FePending, FeInCache, FeReported, FeQuiet
<1>5. /\ flush_state # "FLUSH_IDLE"
      /\ flush_state = "GOT_L1D" <=> l1d_flushed
      /\ flush_state = "GOT_L1I" <=> l1i_flushed
  BY DEF FlushingAll
<1> DEFINE d == l1d_flushed \/ l1d = "done"
           i == l1i_flushed \/ fe.done
<1>6. FlushState = IF d /\ i THEN "FLUSH_IDLE" ELSE IF d THEN "GOT_L1D"
                   ELSE IF i THEN "GOT_L1I" ELSE "WAIT_FOR_L1D_L1I"
  BY <1>5 DEF FlushState
<1>7. Finished <=> d /\ i
  BY DEF Finished
<1>8. ASSUME Finished PROVE l1d' = "idle" /\ FeQuiet' /\ flush_state' = "FLUSH_IDLE"
  BY <1>1, <1>2, <1>3, <1>4, <1>6, <1>7, <1>8
<1>9. ASSUME ~Finished, Kept PROVE FlushingAll'
  <2>1. (l1i_flushed' <=> i) /\ (l1d_flushed' <=> d) /\ ~(d /\ i)
    BY <1>7, <1>9 DEF Kept
  <2>2. \/ l1d' \in {"flush", "done"} /\ ~l1d_flushed'
        \/ l1d' = "idle" /\ l1d_flushed'
    BY <1>1, <1>2, <2>1
  <2>3. \/ (FePending' \/ FeInCache' \/ FeReported') /\ ~l1i_flushed'
        \/ FeQuiet' /\ l1i_flushed'
    BY <1>1, <1>3, <1>4, <2>1
  <2> QED  BY <1>2, <1>6, <2>1, <2>2, <2>3 DEF FlushingAll
<1> QED  BY <1>8, <1>9

\* A clock in which no flush is on and none is asked for.
LEMMA QuietStep ==
    ASSUME TypeInv, Asked("none"), NEW na, NEW nr, NEW clr_rob, NEW clr_dq,
           Pipeline(na, nr, clr_rob, clr_dq), NoFlush
    PROVE  Asked("none")'
<1>1. Kept /\ flush_req' = "none"
  BY KeptFlags
<1>2. l1d' = "idle" /\ FeQuiet' /\ flush_state' = "FLUSH_IDLE" /\ ~l1i_flushed' /\ ~l1d_flushed'
  BY <1>1, QuietClock
<1> QED  BY <1>1, <1>2 DEF Asked

\* The two states that wait for a flush, once both caches have reported.
LEMMA WaitFacts ==
    ASSUME NEW from, NEW to, FlushWait(from, to)
    PROVE  /\ state = from /\ Pipeline(0, 0, FALSE, FALSE) /\ flush_req' = "none"
           /\ Finished => state' = to /\ ~l1i_flushed' /\ ~l1d_flushed'
           /\ ~Finished => state' = from /\ Kept
<1>1. Finished <=> L1iFlushed /\ L1dFlushed
  BY DEF Finished, L1iFlushed, L1dFlushed
<1>2. state = from /\ Pipeline(0, 0, FALSE, FALSE) /\ flush_req' = "none"
  BY DEF FlushWait
<1>3. L1iFlushed /\ L1dFlushed => state' = to /\ ~l1i_flushed' /\ ~l1d_flushed'
  BY Zenon DEF FlushWait
<1>4. ~(L1iFlushed /\ L1dFlushed)
        => state' = from /\ l1i_flushed' = L1iFlushed /\ l1d_flushed' = L1dFlushed
  BY Zenon DEF FlushWait
<1>5. l1i_flushed' = L1iFlushed /\ l1d_flushed' = L1dFlushed => Kept
  BY Zenon DEF Kept, L1iFlushed, L1dFlushed
<1> QED  BY <1>1, <1>2, <1>3, <1>4, <1>5

\* The flush invariant is kept, action by action.
LEMMA NextKeepsFlush ==
    ASSUME ShapeInv, FlushInv, Next
    PROVE  FlushInv'
<1> DEFINE Flushes == {"MONITOR_FLUSH_CACHE", "WRITE_EPC", "WRITE_CAUSE", "FLUSH_FOR_HALT"}
<1>0. TypeInv
  BY DEF ShapeInv
<1>1. CASE \/ Interrupt \/ Fault \/ Graduate \/ Allocate \/ Drain \/ ExceptionDrain \/ Rat
           \/ AllocForSerialize \/ AllocForMonitor \/ WaitForSerialize \/ WaitForMonitor
           \/ HandleMonitor \/ Halt \/ Resume \/ HaltWaitForRestart
  <2>1. state \notin Flushes /\ state' \notin Flushes /\ NoFlush
    BY <1>1 DEF Interrupt, TakesIrq, Fault, Graduate, Allocate, Drain, ExceptionDrain, Rat,
                AllocForSerialize, AllocForMonitor, WaitForSerialize, WaitForMonitor,
                HandleMonitor, Halt, Resume, HaltWaitForRestart
  <2>2. Asked("none")
    BY <2>1 DEF FlushInv
  <2>3. PICK na, nr, clr_rob, clr_dq : Pipeline(na, nr, clr_rob, clr_dq)
    BY NextIsClock DEF ShapeInv, IsClock, Clock
  <2>4. Asked("none")'
    BY <1>0, <2>1, <2>2, <2>3, QuietStep
  <2> QED  BY <2>1, <2>4 DEF FlushInv
<1>2. CASE FaultHalt
  <2>1. state = "ACTIVE" /\ state' = "WRITE_EPC" /\ Flush("all") /\ Pipeline(0, 1, FALSE, FALSE)
    BY <1>2 DEF FaultHalt
  <2>2. Asked("none") /\ Kept /\ flush_req' = "all"
    BY <2>1, KeptFlags DEF FlushInv
  <2>3. l1d' = "idle" /\ FeQuiet' /\ flush_state' = "FLUSH_IDLE" /\ ~l1i_flushed' /\ ~l1d_flushed'
    BY <1>0, <2>1, <2>2, QuietClock
  <2>4. Asked("all")'
    BY <2>2, <2>3 DEF Asked
  <2> QED  BY <2>1, <2>4 DEF FlushInv
<1>3. CASE Serialize
  <2> DEFINE op == Op(dq[1].pc)
  <2>1. state = "ACTIVE" /\ Pipeline(0, 0, FALSE, FALSE) /\ MustSerialize
    BY <1>3 DEF Serialize
  <2>2. op \in {"mfc0", "break", "getcycle", "flushline", "monitor"}
    BY <2>1 DEF MustSerialize, Serializing, Monitors
  <2>3. /\ state' = IF op \in {"mfc0", "break"} THEN "ALLOC_FOR_SERIALIZE"
                    ELSE IF op = "getcycle" THEN "HANDLE_MONITOR" ELSE "MONITOR_FLUSH_CACHE"
        /\ flush_req' = IF op = "monitor" THEN "all" ELSE IF op = "flushline" THEN "line" ELSE "none"
    BY <1>3, <2>2 DEF Serialize
  <2>4. /\ l1i_flushed' <=> L1iFlushed \/ op = "flushline"
        /\ l1d_flushed' <=> L1dFlushed
    BY <1>3, Zenon DEF Serialize
  <2>5. Asked("none")
    BY <2>1 DEF FlushInv
  <2>6. l1d' = "idle" /\ FeQuiet' /\ flush_state' = "FLUSH_IDLE"
    BY <1>0, <2>1, <2>5, QuietClock
  <2>7. ~L1iFlushed /\ ~L1dFlushed
    BY <2>5 DEF Asked, FeQuiet, L1iFlushed, L1dFlushed
  <2> HIDE DEF op
  <2>8. CASE op = "monitor"
    BY <2>3, <2>4, <2>6, <2>7, <2>8 DEF Asked, FlushInv
  <2>9. CASE op = "flushline"
    BY <2>3, <2>4, <2>6, <2>7, <2>9 DEF Asked, FlushInv
  <2>10. CASE op \in {"mfc0", "break", "getcycle"}
    BY <2>3, <2>4, <2>6, <2>7, <2>10 DEF Asked, FlushInv
  <2> QED  BY <2>2, <2>8, <2>9, <2>10
<1>4. CASE WriteCpr0
  <2>1. /\ state \in {"WRITE_EPC", "WRITE_CAUSE"} /\ Pipeline(0, 0, FALSE, FALSE) /\ NoFlush
        /\ state' = IF state = "WRITE_EPC" THEN "WRITE_CAUSE" ELSE "FLUSH_FOR_HALT"
    BY <1>4 DEF WriteCpr0
  <2>2. Kept /\ flush_req' = "none"
    BY <2>1, KeptFlags
  <2>3. CASE state = "WRITE_EPC"
    <3>1. FlushingEarly'
      BY <1>0, <2>1, <2>2, <2>3, AskedAllClock DEF FlushInv
    <3> QED  BY <2>1, <2>3, <3>1 DEF FlushInv
  <2>4. CASE state = "WRITE_CAUSE"
    <3>1. FlushingAll /\ ~Finished
      BY <2>4 DEF FlushInv, FlushingEarly, Finished
    <3>2. FlushingAll'
      BY <1>0, <2>1, <2>2, <3>1, AllClock
    <3> QED  BY <2>1, <2>4, <3>2 DEF FlushInv
  <2> QED  BY <2>1, <2>3, <2>4
<1>5. CASE FlushForHalt
  <2>1. /\ state = "FLUSH_FOR_HALT" /\ Pipeline(0, 0, FALSE, FALSE) /\ flush_req' = "none"
        /\ Finished => state' = "HALT" /\ ~l1i_flushed' /\ ~l1d_flushed'
        /\ ~Finished => state' = "FLUSH_FOR_HALT" /\ Kept
    BY <1>5, WaitFacts DEF FlushForHalt
  <2>2. FlushingAll
    BY <2>1 DEF FlushInv
  <2>3. /\ ~Finished /\ Kept => FlushingAll'
        /\ Finished => l1d' = "idle" /\ FeQuiet' /\ flush_state' = "FLUSH_IDLE"
    BY <1>0, <2>1, <2>2, AllClock
  <2>4. Finished => Asked("none")'
    BY <2>1, <2>3 DEF Asked
  <2> QED  BY <2>1, <2>3, <2>4 DEF FlushInv
<1>6. CASE MonitorFlushCache
  <2>1. /\ state = "MONITOR_FLUSH_CACHE" /\ Pipeline(0, 0, FALSE, FALSE) /\ flush_req' = "none"
        /\ Finished => state' = "HANDLE_MONITOR" /\ ~l1i_flushed' /\ ~l1d_flushed'
        /\ ~Finished => state' = "MONITOR_FLUSH_CACHE" /\ Kept
    BY <1>6, WaitFacts DEF MonitorFlushCache
  <2>2. ASSUME Asked("all") \/ Asked("line")
        PROVE  state' = "MONITOR_FLUSH_CACHE" /\ (FlushingAll' \/ FlushingLine')
    <3>1. ~Finished
      BY <2>2 DEF Asked, FeQuiet, Finished
    <3>2. CASE Asked("all")
      BY <1>0, <2>1, <3>1, <3>2, AskedAllClock DEF FlushingEarly
    <3>3. CASE Asked("line")
      BY <1>0, <2>1, <3>1, <3>3, AskedLineClock
    <3> QED  BY <2>1, <2>2, <3>1, <3>2, <3>3
  <2>3. ASSUME FlushingAll \/ FlushingLine
        PROVE  /\ ~Finished /\ Kept => FlushingAll' \/ FlushingLine'
               /\ Finished => l1d' = "idle" /\ FeQuiet' /\ flush_state' = "FLUSH_IDLE"
    BY <1>0, <2>1, <2>3, AllClock, LineClock
  <2>4. ASSUME FlushingAll \/ FlushingLine, Finished PROVE Asked("none")'
    BY <2>1, <2>3, <2>4 DEF Asked
  <2>5. Asked("all") \/ Asked("line") \/ FlushingAll \/ FlushingLine
    BY <2>1 DEF FlushInv
  <2> QED  BY <2>1, <2>2, <2>3, <2>4, <2>5 DEF FlushInv
<1> QED  BY <1>1, <1>2, <1>3, <1>4, <1>5, <1>6 DEF Next

-----------------------------------------------------------------------------
(* Breaks.  A break is allocated alone and completes with a fault, so the  *)
(* buffer is empty once it has retired, and stays empty until the host     *)
(* resumes the core.                                                       *)

Stopped == {"WRITE_EPC", "WRITE_CAUSE", "FLUSH_FOR_HALT", "HALT"}

BreakInv ==
    /\ state \in Stopped /\ got # "ud" => RobEmpty
    /\ state = "HALT_WAIT_FOR_RESTART" => RobEmpty
    /\ \A i \in Live : Op(rob[i].pc) = "break" =>
          /\ Occupancy = 1
          /\ i \in complete => rob[i].flt
          /\ state = "ACTIVE" => i \in complete /\ dq = <<>>

\* What becomes of a break that is in the buffer.
LEMMA OldBreak ==
    ASSUME ShapeInv, UnitsInv, BreakInv, NEW na, NEW nr, Fits(na, nr),
           NEW clr_rob \in BOOLEAN, NEW clr_dq \in BOOLEAN, Pipeline(na, nr, clr_rob, clr_dq),
           NEW i \in Live', i \notin NewSlots(tail, na), Op(rob'[i].pc) = "break"
    PROVE  /\ i \in Live /\ i = HeadSlot /\ Op(rob[i].pc) = "break" /\ nr = 0
           /\ Occupancy = 1 /\ Occupancy' = Occupancy + na
           /\ i \in complete => i \in complete'
           /\ i \in complete' => rob'[i].flt
<1>1. TypeInv /\ Buffer(na, nr, clr_rob, clr_dq)
  BY DEF ShapeInv, Pipeline
<1>2. /\ Occupancy' = IF clr_rob THEN 0 ELSE Occupancy + na - nr
      /\ Live' = IF clr_rob THEN {} ELSE (Live \ FreedSlots(head, nr)) \cup NewSlots(tail, na)
      /\ NewSlots(tail, na) \subseteq Slots \ Live
      /\ Live \subseteq Slots
  BY <1>1, BufferPointers
<1>3. ~clr_rob /\ i \in Live /\ i \notin FreedSlots(head, nr) /\ i \in Slots
  BY <1>2
<1>4. complete' = (complete \ (NewSlots(tail, na) \cup FreedSlots(head, nr))) \cup FoldSlots(na) \cup Done
  BY <1>1, <1>3, Zenon DEF Buffer, NewSlots, FreedSlots, FoldSlots, NewUop, HeadSlot, NextSlot
<1>5. rob[i] \in RobEntry
  BY <1>1, <1>3 DEF TypeInv, TypeOK, RobEntry
<1>6. /\ i \notin Done => rob'[i] = rob[i]
      /\ i \in Done => \E b \in BOOLEAN : rob'[i] = Completed(rob[i], b)
  BY <1>1, <1>3, BufferRob
<1>7. rob'[i].pc = rob[i].pc
  BY <1>5, <1>6, CompletedEntry
<1>8. Op(rob[i].pc) = "break" /\ Occupancy = 1 /\ (i \in complete => rob[i].flt)
  BY <1>3, <1>7 DEF BreakInv
<1>9. i = HeadSlot
  BY <1>1, <1>3, <1>8, LiveHead
<1>10. nr = 0
  BY <1>3, <1>9 DEF FreedSlots, HeadSlot, Fits
<1>11. i \in complete' => rob'[i].flt
  <2>1. CASE i \in Done
    <3>1. PICK b \in BOOLEAN : rob'[i] = Completed(rob[i], b)
      BY <1>6, <2>1
    <3>2. rob'[i].flt = Faulted(rob[i], b)
      BY <1>5, <3>1, CompletedEntry
    <3>3. Faulted(rob[i], b)
      BY <1>8 DEF Faulted
    <3> QED  BY <3>2, <3>3
  <2>2. CASE i \notin Done
    <3>1. i \in complete' => i \in complete
      BY <1>4, <2>2 DEF FoldSlots
    <3> QED  BY <1>6, <1>8, <2>2, <3>1
  <2> QED  BY <2>1, <2>2
<1>12. i \in complete => i \in complete'
  BY <1>3, <1>4
<1>13. Occupancy' = Occupancy + na
  BY <1>1, <1>2, <1>3, <1>10, Flags DEF Fits
<1> QED  BY <1>3, <1>8, <1>9, <1>10, <1>11, <1>12, <1>13

\* A clock that allocates nothing.
BreaksKept ==
    \A i \in Live' : Op(rob'[i].pc) = "break" =>
        /\ i = HeadSlot /\ Occupancy' = 1
        /\ i \in complete => i \in complete'
        /\ i \in complete' => rob'[i].flt

LEMMA IdleBreak ==
    ASSUME ShapeInv, UnitsInv, BreakInv, NEW clr_rob \in BOOLEAN, NEW clr_dq \in BOOLEAN,
           NEW nr \in 0 .. 1, nr <= Occupancy, Pipeline(0, nr, clr_rob, clr_dq)
    PROVE  /\ BreaksKept
           /\ nr = 1 => \A i \in Live' : Op(rob'[i].pc) # "break"
<1>1. Fits(0, nr) /\ NewSlots(tail, 0) = {}
  BY Flags DEF ShapeInv, Fits, Occupancy, NewSlots
<1>2. ASSUME NEW i \in Live', Op(rob'[i].pc) = "break"
      PROVE  /\ i = HeadSlot /\ nr = 0 /\ Occupancy = 1 /\ Occupancy' = Occupancy + 0
             /\ i \in complete => i \in complete'
             /\ i \in complete' => rob'[i].flt
  BY <1>1, <1>2, OldBreak
<1> QED  BY <1>2, Flags DEF BreaksKept

LEMMA NoRetireBreak ==
    ASSUME ShapeInv, UnitsInv, BreakInv, NEW clr_rob \in BOOLEAN, NEW clr_dq \in BOOLEAN,
           Pipeline(0, 0, clr_rob, clr_dq)
    PROVE  BreaksKept
<1>1. 0 \in 0 .. 1 /\ 0 <= Occupancy
  BY Flags DEF ShapeInv
<1> HIDE DEF BreaksKept
<1> QED  BY <1>1, IdleBreak

LEMMA OneRetiresBreak ==
    ASSUME ShapeInv, UnitsInv, BreakInv, 1 <= Occupancy, Pipeline(0, 1, FALSE, FALSE)
    PROVE  \A i \in Live' : Op(rob'[i].pc) # "break"
<1>1. 1 \in 0 .. 1 /\ FALSE \in BOOLEAN
  OBVIOUS
<1> HIDE DEF BreaksKept
<1> QED  BY <1>1, IdleBreak

\* Allocation in ACTIVE takes no serializing uop.
LEMMA AllocatedNotBreak ==
    ASSUME TypeInv, NEW na \in AllocCounts, NEW i \in NewSlots(tail, na)
    PROVE  Op(NewUop(i).pc) # "break"
<1>1. na \in 0 .. 2 /\ (na = 1 => CanAlloc) /\ (na = 2 => CanAllocTwo)
  BY DEF AllocCounts
<1>2. /\ na >= 1 => Op(dq[1].pc) \notin Serializing
      /\ na = 2 => Op(dq[2].pc) \notin Serializing
  BY <1>1 DEF CanAlloc, CanAllocTwo
<1>3. NewUop(i) = dq[1] \/ (na = 2 /\ NewUop(i) = dq[2])
  BY <1>1 DEF NewUop, NewSlots
<1>4. na >= 1
  BY <1>1 DEF NewSlots
<1> QED  BY <1>2, <1>3, <1>4 DEF Serializing

\* With a break in the buffer, ACTIVE can only take an interrupt or halt.
LEMMA BreakStops ==
    ASSUME ShapeInv, BreakInv, state = "ACTIVE", NEW i \in Live, Op(rob[i].pc) = "break"
    PROVE  CanRetire /\ RobHead.flt /\ i = HeadSlot /\ Op(RobHead.pc) = "break"
<1>1. TypeInv
  BY DEF ShapeInv
<1>2. Occupancy = 1 /\ i \in complete /\ rob[i].flt
  BY DEF BreakInv
<1>3. i = HeadSlot
  BY <1>1, <1>2, LiveHead
<1>4. ~RobEmpty
  BY <1>1, <1>2, Flags
<1> QED  BY <1>2, <1>3, <1>4 DEF CanRetire, HeadComplete, RobHead, HasDelaySlot

\* So no break is in the buffer after a clock of Graduate or Allocate.
LEMMA NoBreakAllocated ==
    ASSUME ShapeInv, UnitsInv, BreakInv, state = "ACTIVE", ~CanRetire \/ ~RobHead.flt,
           NEW na \in AllocCounts, NEW nr, Fits(na, nr), Pipeline(na, nr, FALSE, FALSE),
           NEW i \in Live'
    PROVE  Op(rob'[i].pc) # "break"
<1>1. TypeInv /\ Buffer(na, nr, FALSE, FALSE) /\ FALSE \in BOOLEAN
  BY DEF ShapeInv, Pipeline
<1>2. CASE i \in NewSlots(tail, na)
  <2>1. i \in Slots
    BY <1>1, <1>2, BufferPointers
  <2>2. rob'[i] = Entry(NewUop(i), NewDs(i))
    BY <1>1, <1>2, <2>1, BufferRob
  <2>3. NewUop(i) \in Uop /\ NewDs(i) \in BOOLEAN
    BY <1>1, <1>2, NewUopType
  <2>4. rob'[i].pc = NewUop(i).pc
    BY <2>2, <2>3, NewEntry
  <2> QED  BY <1>1, <1>2, <2>4, AllocatedNotBreak
<1>3. CASE i \notin NewSlots(tail, na)
  <2>1. Op(rob'[i].pc) = "break" => i \in Live /\ Op(rob[i].pc) = "break"
    BY <1>1, <1>3, OldBreak
  <2> QED  BY <2>1, BreakStops
<1> QED  BY <1>2, <1>3

\* The uop of a serializing allocation is alone and not complete.
LEMMA AloneBreak ==
    ASSUME ShapeInv, UnitsInv, BreakInv, Occupancy = 0, Fits(1, 0),
           Pipeline(1, 0, FALSE, FALSE), NEW i \in Live', Op(rob'[i].pc) = "break"
    PROVE  Occupancy' = 1 /\ i \notin complete'
<1>1. TypeInv /\ Buffer(1, 0, FALSE, FALSE) /\ FALSE \in BOOLEAN
  BY DEF ShapeInv, Pipeline
<1>2. Occupancy' = Occupancy + 1 - 0
  BY <1>1, BufferPointers
<1>3. Live = {}
  BY <1>1, LiveHead
<1>4. NewSlots(tail, 1) \subseteq Slots \ Live
  BY <1>1, BufferPointers
<1>5. i \in NewSlots(tail, 1)
  <2>1. Live' = (Live \ FreedSlots(head, 0)) \cup NewSlots(tail, 1)
    BY <1>1, BufferPointers
  <2> QED  BY <1>3, <2>1
<1>6. rob'[i].pc = NewUop(i).pc
  <2>1. rob'[i] = Entry(NewUop(i), NewDs(i))
    BY <1>1, <1>4, <1>5, BufferRob
  <2>2. NewUop(i) \in Uop /\ NewDs(i) \in BOOLEAN
    BY <1>1, <1>5, NewUopType
  <2> QED  BY <2>1, <2>2, NewEntry
<1>7. i \notin FoldSlots(1)
  BY <1>6 DEF FoldSlots, Folded
<1>8. i \notin Done
  BY <1>3, <1>4, <1>5 DEF Done, UnitsInv, DividerInv
<1>9. complete' = (complete \ (NewSlots(tail, 1) \cup FreedSlots(head, 0))) \cup FoldSlots(1) \cup Done
  BY <1>1, Zenon DEF Buffer, NewSlots, FreedSlots, FoldSlots, NewUop, HeadSlot, NextSlot
<1> QED  BY <1>2, <1>5, <1>7, <1>8, <1>9

\* A clock without allocation or retirement keeps the invariant, if it stops in
\* no new state.
LEMMA PlainBreak ==
    ASSUME ShapeInv, UnitsInv, BreakInv, NEW clr_dq \in BOOLEAN,
           Pipeline(0, 0, FALSE, clr_dq), state' # "ACTIVE", got' = got,
           state' \in Stopped => state \in Stopped,
           state' = "HALT_WAIT_FOR_RESTART" => RobEmpty
    PROVE  BreakInv'
<1>1. BreaksKept
  BY NoRetireBreak
<1>2. RobEmpty' <=> RobEmpty
  BY PlainCounts DEF ShapeInv
<1>3. /\ state' \in Stopped /\ got' # "ud" => RobEmpty'
      /\ state' = "HALT_WAIT_FOR_RESTART" => RobEmpty'
  BY <1>2 DEF BreakInv
<1> QED  BY <1>1, <1>3 DEF BreakInv, BreaksKept, Stopped

LEMMA NextKeepsBreak ==
    ASSUME ShapeInv, UnitsInv, BreakInv, Next
    PROVE  BreakInv'
<1>0. TypeInv /\ FsmShape /\ FALSE \in BOOLEAN /\ TRUE \in BOOLEAN
  BY DEF ShapeInv
<1>1. CASE \/ Interrupt \/ Serialize \/ ExceptionDrain \/ MonitorFlushCache \/ HandleMonitor
           \/ WriteCpr0 \/ FlushForHalt \/ Halt
  <2>1. Pipeline(0, 0, FALSE, FALSE) /\ got' = got
    BY <1>1 DEF Interrupt, Serialize, ExceptionDrain, MonitorFlushCache, HandleMonitor,
                WriteCpr0, FlushForHalt, FlushWait, Halt
  <2>2. CASE Serialize
    <3>1. Op(dq[1].pc) \in {"mfc0", "break", "getcycle", "flushline", "monitor"}
      BY <2>2 DEF Serialize, MustSerialize, Serializing, Monitors
    <3>2. state' \in {"ALLOC_FOR_SERIALIZE", "HANDLE_MONITOR", "MONITOR_FLUSH_CACHE"}
      BY <2>2, <3>1 DEF Serialize
    <3> QED  BY <1>0, <2>1, <3>2, PlainBreak DEF Stopped
  <2>3. CASE Interrupt \/ ExceptionDrain \/ MonitorFlushCache \/ HandleMonitor
             \/ WriteCpr0 \/ FlushForHalt \/ Halt
    <3>1. /\ state' \notin {"ACTIVE", "HALT_WAIT_FOR_RESTART"}
          /\ state' \in Stopped => state \in Stopped
      BY <2>3 DEF Interrupt, ExceptionDrain, MonitorFlushCache, HandleMonitor,
                  WriteCpr0, FlushForHalt, FlushWait, Halt, Stopped
    <3> QED  BY <1>0, <2>1, <3>1, PlainBreak
  <2> QED  BY <1>1, <2>2, <2>3
<1>2. CASE Fault
  <2>1. state' = "DRAIN" /\ Pipeline(0, 1, FALSE, FALSE) /\ CanRetire
    BY <1>2 DEF Fault
  <2>2. 1 <= Occupancy
    BY <1>0, <2>1, Flags DEF CanRetire
  <2>3. \A i \in Live' : Op(rob'[i].pc) # "break"
    BY <1>0, <2>1, <2>2, OneRetiresBreak
  <2> QED  BY <2>1, <2>3 DEF BreakInv, Stopped
<1>3. CASE FaultHalt
  <2>1. /\ state = "ACTIVE" /\ state' = "WRITE_EPC" /\ Pipeline(0, 1, FALSE, FALSE) /\ CanRetire
        /\ Op(RobHead.pc) # "break" => got' = "ud"
    BY <1>3 DEF FaultHalt
  <2>2. 1 <= Occupancy
    BY <1>0, <2>1, Flags DEF CanRetire
  <2>3. \A i \in Live' : Op(rob'[i].pc) # "break"
    BY <1>0, <2>1, <2>2, OneRetiresBreak
  <2>4. HeadSlot \in Live
    BY <1>0, <2>2, LiveHead
  <2>5. got' # "ud" => Occupancy = 1
    BY <2>1, <2>4 DEF BreakInv, RobHead
  <2>6. Fits(0, 1)
    BY <1>0, <2>2, Flags DEF Fits, Occupancy
  <2>7. Occupancy' = Occupancy + 0 - 1 /\ (RobEmpty' <=> Occupancy' = 0)
    BY <1>0, <2>1, <2>6, PipelineCounts
  <2>8. got' # "ud" => RobEmpty'
    BY <2>5, <2>7
  <2> QED  BY <2>1, <2>3, <2>8 DEF BreakInv
<1>4. CASE Graduate
  <2>1. state = "ACTIVE" /\ state' = "ACTIVE" /\ ~RobHead.flt /\ CanRetire
    BY <1>4 DEF Graduate
  <2>2. PICK na \in AllocCounts : Pipeline(na, IF CanRetireTwo THEN 2 ELSE 1, FALSE, FALSE)
    BY <1>4 DEF Graduate
  <2> DEFINE nr == IF CanRetireTwo THEN 2 ELSE 1
  <2>3. Fits(na, nr)
    BY <1>0, <2>1, AllocFits, RetireFits DEF Fits, Occupancy
  <2>4. \A i \in Live' : Op(rob'[i].pc) # "break"
    BY <2>1, <2>2, <2>3, NoBreakAllocated
  <2> QED  BY <2>1, <2>4 DEF BreakInv, Stopped
<1>5. CASE Allocate
  <2>1. state = "ACTIVE" /\ state' = "ACTIVE" /\ ~CanRetire
    BY <1>5 DEF Allocate
  <2>2. PICK na \in AllocCounts : Pipeline(na, 0, FALSE, FALSE)
    BY <1>5 DEF Allocate
  <2>3. Fits(na, 0)
    BY <1>0, AllocFits, Flags DEF Fits, Occupancy
  <2>4. \A i \in Live' : Op(rob'[i].pc) # "break"
    BY <2>1, <2>2, <2>3, NoBreakAllocated
  <2> QED  BY <2>1, <2>4 DEF BreakInv, Stopped
<1>6. CASE Drain
  <2> DEFINE ends == HeadComplete /\ ~ds_done /\ (slot.null \/ slot.has)
             nr == IF ends /\ (slot.null => slot.take) THEN 1 ELSE 0
  <2>1. /\ state = "DRAIN" /\ Pipeline(0, nr, FALSE, FALSE)
        /\ state' \in {"DRAIN", "RAT"}
    BY <1>6 DEF Drain
  <2>2. nr \in 0 .. 1 /\ (nr = 1 => ~ds_done)
    OBVIOUS
  <2> HIDE DEF nr, ends
  <2>3. nr <= Occupancy
    BY <1>0, <2>1, <2>2, Flags DEF FsmShape, HeadIsLive
  <2>4. BreaksKept
    BY <1>0, <2>1, <2>2, <2>3, IdleBreak
  <2> QED  BY <2>1, <2>4 DEF BreakInv, BreaksKept, Stopped
<1>7. CASE Rat
  <2>1. Pipeline(0, 0, TRUE, TRUE) /\ state' \in {"ACTIVE", "RAT"}
    BY <1>7 DEF Rat
  <2>2. Buffer(0, 0, TRUE, TRUE) /\ Fits(0, 0)
    BY <1>0, <2>1, FitsNothing DEF Pipeline
  <2>3. Live' = {}
    BY <1>0, <2>2, BufferPointers
  <2> QED  BY <2>1, <2>3 DEF BreakInv, Stopped
<1>8. CASE AllocForSerialize \/ AllocForMonitor
  <2>1. RobEmpty /\ dq # <<>> /\ state' # "ACTIVE" /\ state' \notin Stopped
        /\ state' # "HALT_WAIT_FOR_RESTART"
    BY <1>0, <1>8 DEF AllocForSerialize, AllocForMonitor, FsmShape, Stopped
  <2>2. PICK na \in AllocAlone : Pipeline(na, 0, FALSE, FALSE)
    BY <1>8 DEF AllocForSerialize, AllocForMonitor
  <2>3. na = 1 /\ Occupancy = 0 /\ Fits(1, 0)
    BY <1>0, <2>1, <2>2, AllocAloneFits, Flags DEF Fits, Occupancy
  <2>4. \A i \in Live' : Op(rob'[i].pc) = "break" => Occupancy' = 1 /\ i \notin complete'
    BY <2>2, <2>3, AloneBreak
  <2> QED  BY <2>1, <2>4 DEF BreakInv
<1>9. CASE WaitForSerialize
  <2> DEFINE clr == HeadComplete
  <2>0. clr \in BOOLEAN
    BY DEF HeadComplete
  <2>1. /\ Pipeline(0, 0, FALSE, clr) /\ clr \in BOOLEAN
        /\ state' \in {"ACTIVE", "WAIT_FOR_SERIALIZE_AND_RESTART"}
        /\ state' = "ACTIVE" => clr
    BY <1>9, <2>0 DEF WaitForSerialize
  <2>2. clr <=> HeadSlot \in complete
    BY DEF HeadComplete
  <2> HIDE DEF clr
  <2>3. BreaksKept
    BY <1>0, <2>1, NoRetireBreak
  <2>4. clr => dq' = <<>>
    BY <1>0, <2>1, FitsNothing, PipelineCounts
  <2> QED  BY <2>1, <2>2, <2>3, <2>4 DEF BreakInv, BreaksKept, Stopped
<1>10. CASE WaitForMonitor
  <2> DEFINE clr == HeadComplete
             nr == IF HeadComplete /\ GotAck THEN 1 ELSE 0
  <2>0. clr \in BOOLEAN
    BY DEF HeadComplete
  <2>4. /\ Pipeline(0, nr, FALSE, clr) /\ state = "WAIT_FOR_MONITOR"
        /\ state' = IF nr = 1 THEN "ACTIVE" ELSE "WAIT_FOR_MONITOR"
    BY <1>10, Zenon DEF WaitForMonitor
  <2>5. nr \in 0 .. 1
    OBVIOUS
  <2>1. /\ Pipeline(0, nr, FALSE, clr) /\ clr \in BOOLEAN /\ nr \in 0 .. 1
        /\ state' = IF nr = 1 THEN "ACTIVE" ELSE "WAIT_FOR_MONITOR"
        /\ state = "WAIT_FOR_MONITOR"
    BY <2>0, <2>4, <2>5
  <2> HIDE DEF clr, nr
  <2>2. nr <= Occupancy
    BY <1>0, <2>1, Flags DEF FsmShape, HeadIsLive
  <2>3. BreaksKept /\ (nr = 1 => \A i \in Live' : Op(rob'[i].pc) # "break")
    BY <1>0, <2>1, <2>2, IdleBreak
  <2> QED  BY <2>1, <2>3 DEF BreakInv, BreaksKept, Stopped
<1>11. CASE Resume
  <2>1. /\ Pipeline(0, 0, FALSE, TRUE) /\ state = "HALT" /\ got # "ud"
        /\ state' = "HALT_WAIT_FOR_RESTART"
    BY <1>11 DEF Resume
  <2>2. BreaksKept
    BY <1>0, <2>1, NoRetireBreak
  <2>3. RobEmpty'
    BY <1>0, <2>1, PlainCounts DEF BreakInv, Stopped
  <2> QED  BY <2>1, <2>2, <2>3 DEF BreakInv, BreaksKept, Stopped
<1>12. CASE HaltWaitForRestart
  <2>1. /\ Pipeline(0, 0, FALSE, FALSE) /\ state = "HALT_WAIT_FOR_RESTART"
        /\ state' \in {"ACTIVE", "HALT_WAIT_FOR_RESTART"}
    BY <1>12 DEF HaltWaitForRestart
  <2>2. RobEmpty'
    BY <1>0, <2>1, PlainCounts DEF BreakInv
  <2>3. BreaksKept
    BY <1>0, <2>1, NoRetireBreak
  <2>4. Occupancy' = 0
    <3>1. Fits(0, 0) /\ (RobEmpty' <=> Occupancy' = 0)
      BY <1>0, <2>1, FitsNothing, PipelineCounts
    <3> QED  BY <2>2, <3>1
  <2> QED  BY <2>1, <2>2, <2>3, <2>4 DEF BreakInv, BreaksKept, Stopped
<1> QED  BY <1>1, <1>2, <1>3, <1>4, <1>5, <1>6, <1>7, <1>8, <1>9, <1>10, <1>11, <1>12 DEF Next

-----------------------------------------------------------------------------
HostInv == ShapeInv /\ UnitsInv /\ FlushInv /\ BreakInv

LEMMA InitHost == Init => HostInv
<1> SUFFICES ASSUME Init PROVE HostInv
  OBVIOUS
<1>1. ShapeInv /\ UnitsInv
  BY InitShape, InitUnits
<1>2. FlushInv
  BY DEF Init, FlushInv, Asked, FeQuiet
<1>3. RobEmpty /\ Live = {}
  <2>1. Occupancy = 0
    BY CoreAssumption DEF Init, Occupancy, R!Count
  <2> QED  BY <1>1, <2>1, Flags, LiveHead DEF ShapeInv
<1>4. BreakInv
  BY <1>3 DEF Init, BreakInv, Stopped
<1> QED  BY <1>1, <1>2, <1>4 DEF HostInv

LEMMA StutterKeepsHost == HostInv /\ UNCHANGED vars => HostInv'
<1> SUFFICES ASSUME HostInv, UNCHANGED vars PROVE HostInv'
  OBVIOUS
<1>1. ShapeInv' /\ UnitsInv'
  BY StutterKeepsShapeInv, StutterKeepsUnits DEF HostInv
<1>2. FlushInv'
  BY DEF HostInv, FlushInv, Asked, FlushingLine, FlushingAll, FlushingEarly, FeQuiet, FePending,
         FeInCache, FeReported, vars, fsm
<1>3. BreakInv'
  BY DEF HostInv, BreakInv, Live, Occupancy, RobEmpty, vars, fsm
<1> QED  BY <1>1, <1>2, <1>3 DEF HostInv

\* The inductive invariant behind what the host sees: the shape of the queues, the
\* work of the units, the phases of a flush and the solitude of a break.
THEOREM HostInvariant == Spec => []HostInv
<1>1. ASSUME HostInv, Next PROVE HostInv'
  <2>1. ShapeInv /\ UnitsInv /\ FlushInv /\ BreakInv
    BY <1>1 DEF HostInv
  <2>2. PICK na, nr, clr_rob, clr_dq : Clock(na, nr, clr_rob, clr_dq)
    BY <1>1, <2>1, NextIsClock DEF ShapeInv, IsClock
  <2>3. ShapeInv' /\ UnitsInv'
    BY <1>1, <2>1, <2>2, NextKeepsShapeInv, ClockKeepsUnits
  <2>4. FlushInv' /\ BreakInv'
    BY <1>1, <2>1, NextKeepsFlush, NextKeepsBreak
  <2> QED  BY <2>3, <2>4 DEF HostInv
<1>2. HostInv /\ [Next]_vars => HostInv'
  BY <1>1, StutterKeepsHost
<1> QED  BY <1>2, InitHost, PTL DEF Spec

\* For every program: when the host is called, or finds the
\* core halted after reset or a break, both caches have finished the flush asked
\* for, no completion is left over for a later flush, and the pipeline is empty.
THEOREM HostSees == Spec => []HostSeesMemory
<1>1. ASSUME HostInv PROVE HostSeesMemory
  <2> SUFFICES ASSUME state \in {"HANDLE_MONITOR", "HALT"}, got # "ud"
               PROVE  /\ l1d = "idle" /\ fe.st # "FLUSH_CACHE" /\ ~fe.flush /\ flush_req = "none"
                      /\ ~l1i_flushed /\ ~l1d_flushed /\ flush_state = "FLUSH_IDLE"
                      /\ RobEmpty /\ \A i \in Slots : ~Busy(i)
    BY DEF HostSeesMemory
  <2>1. Asked("none")
    BY <1>1 DEF HostInv, FlushInv
  <2>2. RobEmpty
    BY <1>1 DEF HostInv, ShapeInv, FsmShape, BreakInv, Stopped
  <2>3. Live = {}
    BY <1>1, <2>2, Flags, LiveHead DEF HostInv, ShapeInv
  <2>4. \A i \in Slots : ~Busy(i)
    BY <1>1, <2>3 DEF HostInv, UnitsInv, DividerInv, Busy
  <2> QED  BY <2>1, <2>2, <2>4 DEF Asked, FeQuiet
<1> QED  BY <1>1, HostInvariant, PTL
=============================================================================
