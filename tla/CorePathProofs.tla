--------------------------- MODULE CorePathProofs ---------------------------
(***************************************************************************)
(* Proofs about the path: the uops in flight are the predicted path from   *)
(* the architectural position on, and the uops that retire are the ones    *)
(* the instruction-set simulator executes.                                 *)
(***************************************************************************)
EXTENDS CoreProofs, WellFoundedInduction

-----------------------------------------------------------------------------
(* Programs and cursors.                                                   *)

Plain(op) == op \notin HasDelaySlot \cup Serializing

(***************************************************************************)
(* What the architecture asks of a program: the delay slot of a branch     *)
(* holds neither a branch nor a serializing instruction (the run           *)
(* core_slot_hang shows the latter).  0 is no target.                      *)
(***************************************************************************)
SlotsPlain ==
    \A b \in 1 .. Len(Program) : Program[b].op \in HasDelaySlot =>
        Program[b].tgt # 0 /\ Plain(Op(b + 1))

\* A position at which nothing is pending.
Fresh(pc) == [pc |-> pc, tgt |-> 0]

\* A branch is pending only at a delay slot.
Slotted(c) == c.tgt # 0 => Plain(Op(c.pc))

\* Conditional branches that are likely, and jumps, are predicted taken.
Predicted(u) == Op(u.pc) \in {"brl", "j"} => u.pred

LEMMA BranchFacts ==
    ASSUME SlotsPlain, NEW pc \in PC, Op(pc) \in HasDelaySlot
    PROVE  /\ pc \in 1 .. Len(Program) /\ Tgt(pc) # 0
           /\ Plus(pc, 1) = pc + 1 /\ Plain(Op(Plus(pc, 1)))
           /\ Plus(Plus(pc, 1), 1) = Plus(pc, 2)
<1>1. Len(Program) \in Nat
  BY ProgramFacts
<1>2. pc \in 1 .. Len(Program)
  BY DEF Op, HasDelaySlot
<1>3. Tgt(pc) # 0 /\ Plain(Op(pc + 1))
  BY <1>2 DEF SlotsPlain, Op, Tgt
<1>4. Plus(pc, 1) = pc + 1 /\ Plus(Plus(pc, 1), 1) = Plus(pc, 2)
  BY <1>1, <1>2 DEF Plus
<1> QED  BY <1>2, <1>3, <1>4

\* One step along the path.
LEMMA FollowFacts ==
    ASSUME SlotsPlain, NEW c \in Cursor, NEW t
    PROVE  /\ Follow(c, t) \in Cursor
           /\ Slotted(Follow(c, t))
           /\ Follow(c, t).tgt # 0 => Op(c.pc) \in HasDelaySlot
           /\ c.tgt # 0 => Follow(c, t) = Fresh(c.tgt)
           /\ c.tgt = 0 /\ Op(c.pc) \notin HasDelaySlot => Follow(c, t) = Fresh(Plus(c.pc, 1))
<1>1. Follow(c, t) \in Cursor /\ c.pc \in PC
  BY FollowType DEF Cursor
<1>2. c.tgt # 0 => Follow(c, t) = Fresh(c.tgt)
  BY DEF Follow, Fresh
<1>3. c.tgt = 0 /\ Op(c.pc) \notin HasDelaySlot => Follow(c, t) = Fresh(Plus(c.pc, 1))
  BY DEF Follow, Fresh, HasDelaySlot, Nullifying
<1>4. ASSUME Follow(c, t).tgt # 0
      PROVE  Op(c.pc) \in HasDelaySlot /\ Follow(c, t).pc = Plus(c.pc, 1)
  <2>1. c.tgt = 0
    BY <1>2, <1>4 DEF Fresh
  <2>2. CASE Op(c.pc) \in HasDelaySlot /\ t
    BY <2>1, <2>2 DEF Follow
  <2>3. CASE ~(Op(c.pc) \in HasDelaySlot /\ t)
    BY <1>4, <2>1, <2>3 DEF Follow
  <2> QED  BY <2>2, <2>3
<1>5. Slotted(Follow(c, t))
  BY <1>1, <1>4, BranchFacts DEF Slotted
<1> QED  BY <1>1, <1>2, <1>3, <1>4, <1>5

-----------------------------------------------------------------------------
(* The uops in flight, oldest first, and what a clock does to them.        *)

Depth == Occupancy + Len(dq)
InFlight(k) == IF k <= Occupancy THEN rob[R!At(head, k - 1)] ELSE dq[k - Occupancy]

LEMMA RingMoves ==
    ASSUME NEW h \in R!Ptr, NEW t \in R!Ptr, NEW a \in 0 .. 2, NEW n \in 0 .. 2,
           R!Count(h, t) + a <= ROB_ENTRIES, n <= R!Count(h, t)
    PROVE  /\ \A k \in 0 .. (R!Count(h, t) - n - 1) :
                 /\ R!At(R!Move(h, n), k) = R!At(h, k + n)
                 /\ R!At(h, k + n) \in LiveBetween(h, t) \ (NewSlots(t, a) \cup FreedSlots(h, n))
           /\ a >= 1 => R!At(R!Move(h, n), R!Count(h, t) - n) = R!Idx(t)
           /\ a = 2 => R!At(R!Move(h, n), R!Count(h, t) - n + 1) = R!Idx(R!Inc(t))
<1>1. R!Count(h, t) \in Nat /\ R!Count(h, t) <= ROB_ENTRIES
  BY CountFlags, CoreAssumption
<1>2. ASSUME NEW k \in 0 .. (R!Count(h, t) - n - 1)
      PROVE  /\ R!At(R!Move(h, n), k) = R!At(h, k + n)
             /\ R!At(h, k + n) \in LiveBetween(h, t)
             /\ R!At(h, k + n) \notin FreedSlots(h, n)
  <2>0. k \in Nat /\ k + n < ROB_ENTRIES
    BY <1>1, CoreAssumption
  <2>4. n \in {0, 1, 2} /\ h \in 0 .. (2 * ROB_ENTRIES - 1)
    BY DEF R!Ptr
  <2>1. R!At(R!Move(h, n), k) = R!At(h, k + n)
    <3>0. CASE n = 0
      BY <2>0, <3>0 DEF R!Move
    <3>1. CASE n = 1
      BY <2>0, <2>4, <3>1, CoreAssumption DEF R!At, R!Move, R!Inc, R!Idx
    <3>2. CASE n = 2
      BY <2>0, <2>4, <3>2, CoreAssumption DEF R!At, R!Move, R!Inc, R!Inc2, R!Idx
    <3> QED  BY <2>4, <3>0, <3>1, <3>2
  <2>2. R!At(h, k + n) \in LiveBetween(h, t)
    BY <1>1 DEF LiveBetween
  <2>3. R!At(h, k + n) \notin FreedSlots(h, n)
    <3>0. CASE n = 0
      BY <3>0 DEF FreedSlots
    <3>1. CASE n = 1
      <4>1. FreedSlots(h, n) = {R!Idx(h)}
        BY <3>1 DEF FreedSlots
      <4>2. R!At(h, k + 1) # R!Idx(h)
        BY <2>0, <2>4, <3>1, CoreAssumption DEF R!At, R!Idx
      <4> QED  BY <3>1, <4>1, <4>2
    <3>2. CASE n = 2
      <4>1. FreedSlots(h, n) = {R!Idx(h), R!Idx(R!Inc(h))}
        BY <3>2 DEF FreedSlots
      <4>2. R!At(h, k + 2) # R!Idx(h)
        BY <2>0, <2>4, <3>2, CoreAssumption DEF R!At, R!Idx
      <4>3. R!At(h, k + 2) # R!Idx(R!Inc(h))
        BY <2>0, <2>4, <3>2, CoreAssumption DEF R!At, R!Idx, R!Inc
      <4> QED  BY <3>2, <4>1, <4>2, <4>3
    <3> QED  BY <2>4, <3>0, <3>1, <3>2
  <2> QED  BY <2>1, <2>2, <2>3
<1>3. NewSlots(t, a) \cap LiveBetween(h, t) = {}
  BY NewAndFreed
<1>6. /\ n \in {0, 1, 2} /\ ROB_ENTRIES \in Nat /\ ROB_ENTRIES >= 2
      /\ h \in 0 .. (2 * ROB_ENTRIES - 1) /\ t \in 0 .. (2 * ROB_ENTRIES - 1)
  BY CoreAssumption DEF R!Ptr
<1>4. a >= 1 => R!At(R!Move(h, n), R!Count(h, t) - n) = R!Idx(t)
  <2>0. CASE n = 0
    BY <1>6, <2>0 DEF R!At, R!Move, R!Idx, R!Count
  <2>1. CASE n = 1
    BY <1>6, <2>1 DEF R!At, R!Move, R!Inc, R!Idx, R!Count
  <2>2. CASE n = 2
    BY <1>6, <2>2 DEF R!At, R!Move, R!Inc, R!Inc2, R!Idx, R!Count
  <2> QED  BY <1>6, <2>0, <2>1, <2>2
<1>5. a = 2 => R!At(R!Move(h, n), R!Count(h, t) - n + 1) = R!Idx(R!Inc(t))
  <2>0. CASE n = 0
    BY <1>6, <2>0 DEF R!At, R!Move, R!Inc, R!Idx, R!Count
  <2>1. CASE n = 1
    BY <1>6, <2>1 DEF R!At, R!Move, R!Inc, R!Idx, R!Count
  <2>2. CASE n = 2
    BY <1>6, <2>2 DEF R!At, R!Move, R!Inc, R!Inc2, R!Idx, R!Count
  <2> QED  BY <1>6, <2>0, <2>1, <2>2
<1> QED  BY <1>2, <1>3, <1>4, <1>5

\* The decode queue, element by element.
LEMMA DecodeElements ==
    ASSUME TypeInv, NEW na \in 0 .. 2, na <= Len(dq), NEW ins \in Offers,
           dq' = SubSeq(dq, na + 1, Len(dq)) \o SubSeq(ins, 1, Accepted(ins))
    PROVE  /\ Len(dq') = Len(dq) - na + Accepted(ins)
           /\ \A j \in 1 .. (Len(dq) - na) : dq'[j] = dq[j + na]
           /\ \A j \in 1 .. Accepted(ins) : dq'[Len(dq) - na + j] = ins[j]
<1>1. dq \in Seq(Uop) /\ Len(dq) \in Nat
  BY DEF TypeInv
<1>2. /\ ins \in Seq(Uop) /\ Len(ins) \in 0 .. 2
      /\ Accepted(ins) \in 0 .. 2 /\ Accepted(ins) <= Len(ins)
  BY OffersType, AcceptedFits
<1> DEFINE s == SubSeq(dq, na + 1, Len(dq))
           u == SubSeq(ins, 1, Accepted(ins))
<1>3. /\ s \in Seq(Uop) /\ Len(s) = Len(dq) - na
      /\ \A j \in 1 .. Len(s) : s[j] = dq[j + na]
  <2>1. \A i \in (na + 1) .. Len(dq) : dq[i] \in Uop
    BY <1>1, ElementOfSeq
  <2>2. /\ s \in Seq(Uop) /\ Len(s) = (IF na + 1 <= Len(dq) THEN Len(dq) - (na + 1) + 1 ELSE 0)
        /\ \A j \in 1 .. (Len(dq) - (na + 1) + 1) : s[j] = dq[na + 1 + j - 1]
    <3>1. na + 1 \in Int /\ Len(dq) \in Int
      BY <1>1
    <3> QED  BY <2>1, <3>1, SubSeqProperties
  <2> HIDE DEF s
  <2>3. Len(s) = Len(dq) - na
    BY <1>1, <2>2
  <2>4. ASSUME NEW j \in 1 .. Len(s) PROVE s[j] = dq[j + na]
    <3>1. s[j] = dq[na + 1 + j - 1]
      BY <1>1, <2>2, <2>3
    <3>2. na + 1 + j - 1 = j + na
      BY <1>1, <2>3
    <3> QED  BY <3>1, <3>2
  <2> QED  BY <2>2, <2>3, <2>4
<1>4. /\ u \in Seq(Uop) /\ Len(u) = Accepted(ins)
      /\ \A j \in 1 .. Len(u) : u[j] = ins[j]
  <2>1. \A i \in 1 .. Accepted(ins) : ins[i] \in Uop
    BY <1>2, ElementOfSeq
  <2>2. /\ u \in Seq(Uop) /\ Len(u) = (IF 1 <= Accepted(ins) THEN Accepted(ins) - 1 + 1 ELSE 0)
        /\ \A j \in 1 .. (Accepted(ins) - 1 + 1) : u[j] = ins[1 + j - 1]
    <3>1. 1 \in Int /\ Accepted(ins) \in Int
      BY <1>2
    <3> QED  BY <2>1, <3>1, SubSeqProperties
  <2> HIDE DEF u
  <2>3. Len(u) = Accepted(ins)
    BY <1>2, <2>2
  <2>4. ASSUME NEW j \in 1 .. Len(u) PROVE u[j] = ins[j]
    <3>1. u[j] = ins[1 + j - 1]
      BY <1>2, <2>2, <2>3
    <3>2. 1 + j - 1 = j
      BY <1>2, <2>3
    <3> QED  BY <3>1, <3>2
  <2> QED  BY <2>2, <2>3, <2>4
<1>5. dq' = s \o u
  OBVIOUS
<1> HIDE DEF s, u
<1>6. /\ Len(s \o u) = Len(s) + Len(u)
      /\ \A j \in 1 .. (Len(s) + Len(u)) : (s \o u)[j] = IF j <= Len(s) THEN s[j] ELSE u[j - Len(s)]
  BY <1>3, <1>4, ConcatProperties
<1>7. Len(s) \in Nat /\ Len(u) \in Nat
  BY <1>1, <1>2, <1>3, <1>4
<1>8. Len(dq') = Len(dq) - na + Accepted(ins)
  BY <1>3, <1>4, <1>5, <1>6
<1>9. ASSUME NEW j \in 1 .. (Len(dq) - na) PROVE dq'[j] = dq[j + na]
  <2>1. j \in 1 .. Len(s) /\ j \in 1 .. (Len(s) + Len(u)) /\ j <= Len(s)
    BY <1>1, <1>3, <1>7
  <2> QED  BY <1>3, <1>5, <1>6, <2>1
<1>10. ASSUME NEW j \in 1 .. Accepted(ins) PROVE dq'[Len(dq) - na + j] = ins[j]
  <2> DEFINE m == Len(dq) - na + j
  <2>1. m \in 1 .. (Len(s) + Len(u)) /\ ~(m <= Len(s)) /\ m - Len(s) = j /\ j \in 1 .. Len(u)
    <3>1. Len(s) = Len(dq) - na /\ Len(u) = Accepted(ins) /\ j \in 1 .. Len(u)
      BY <1>3, <1>4
    <3> QED  BY <1>7, <3>1
  <2> HIDE DEF m
  <2>2. dq'[m] = ins[j]
    BY <1>4, <1>5, <1>6, <2>1
  <2> QED  BY <2>2 DEF m
<1> QED  BY <1>8, <1>9, <1>10

\* A uop that stays in the buffer keeps what it was allocated with.
LEMMA EntryKept ==
    ASSUME TypeInv, NEW na, NEW nr, Fits(na, nr), NEW clr_dq, Buffer(na, nr, FALSE, clr_dq),
           NEW i \in Slots, i \notin NewSlots(tail, na) \cup FreedSlots(head, nr)
    PROVE  rob'[i].pc = rob[i].pc /\ rob'[i].pred = rob[i].pred /\ rob'[i].ds = rob[i].ds
<1>1. /\ i \notin Done => rob'[i] = rob[i]
      /\ i \in Done => \E b \in BOOLEAN : rob'[i] = Completed(rob[i], b)
  <2>1. FALSE \in BOOLEAN
    OBVIOUS
  <2> QED  BY <2>1, BufferRob
<1>2. rob[i] \in RobEntry
  BY DEF TypeInv, TypeOK, RobEntry
<1> QED  BY <1>1, <1>2, CompletedEntry

\* What is written into the slots of an allocation.
LEMMA EntryWritten ==
    ASSUME TypeInv, NEW na, NEW nr, Fits(na, nr), NEW clr_dq, Buffer(na, nr, FALSE, clr_dq)
    PROVE  /\ na >= 1 => LET e == rob'[R!Idx(tail)]
                         IN  e.pc = dq[1].pc /\ e.pred = dq[1].pred /\ e.ds = in_ds
           /\ na = 2 => LET e == rob'[R!Idx(R!Inc(tail))]
                        IN  /\ e.pc = dq[2].pc /\ e.pred = dq[2].pred
                            /\ e.ds <=> Op(dq[1].pc) \in HasDelaySlot
<1>1. FALSE \in BOOLEAN /\ na \in 0 .. 2 /\ tail \in R!Ptr /\ head \in R!Ptr
  BY DEF Fits, TypeInv, TypeOK
<1>2. /\ NewSlots(tail, na) \subseteq Slots
      /\ na = 2 => R!Idx(tail) # R!Idx(R!Inc(tail))
  BY <1>1, NewAndFreed DEF Fits
<1>3. ASSUME NEW i \in NewSlots(tail, na)
      PROVE  /\ rob'[i].pc = NewUop(i).pc /\ rob'[i].pred = NewUop(i).pred
             /\ rob'[i].ds = NewDs(i)
  <2>1. rob'[i] = Entry(NewUop(i), NewDs(i))
    BY <1>1, <1>2, <1>3, BufferRob
  <2>2. NewUop(i) \in Uop /\ NewDs(i) \in BOOLEAN
    BY <1>3, NewUopType
  <2> QED  BY <2>1, <2>2, NewEntry
<1>4. ASSUME na >= 1
      PROVE  LET e == rob'[R!Idx(tail)] IN e.pc = dq[1].pc /\ e.pred = dq[1].pred /\ e.ds = in_ds
  <2>1. R!Idx(tail) \in NewSlots(tail, na)
    BY <1>4 DEF NewSlots
  <2>2. NewUop(R!Idx(tail)) = dq[1] /\ NewDs(R!Idx(tail)) = in_ds
    BY DEF NewUop, NewDs
  <2> QED  BY <1>3, <2>1, <2>2
<1>5. ASSUME na = 2
      PROVE  LET e == rob'[R!Idx(R!Inc(tail))]
             IN  e.pc = dq[2].pc /\ e.pred = dq[2].pred /\ (e.ds <=> Op(dq[1].pc) \in HasDelaySlot)
  <2> DEFINE i == R!Idx(R!Inc(tail))
  <2>1. i \in NewSlots(tail, na) /\ i # R!Idx(tail)
    BY <1>2, <1>5 DEF NewSlots
  <2> HIDE DEF i
  <2>2. NewUop(i) = dq[2]
    BY <2>1 DEF NewUop
  <2>3. NewDs(i) <=> Op(dq[1].pc) \in HasDelaySlot
    BY <2>1, Zenon DEF NewDs
  <2>4. rob'[i].pc = dq[2].pc /\ rob'[i].pred = dq[2].pred /\ (rob'[i].ds <=> Op(dq[1].pc) \in HasDelaySlot)
    BY <1>3, <2>1, <2>2, <2>3
  <2> QED  BY <2>4 DEF i
<1> QED  BY <1>4, <1>5

\* The uops in flight move up by the number retired, and the accepted ones follow.
Shifted(na, nr, ins) ==
    /\ Occupancy' = Occupancy + na - nr
    /\ Depth' = Depth - nr + Accepted(ins)
    /\ \A k \in 1 .. (Depth - nr) : /\ InFlight(k)'.pc = InFlight(k + nr).pc
                                    /\ InFlight(k)'.pred = InFlight(k + nr).pred
    /\ \A k, j : k = Depth - nr + j /\ j \in 1 .. Accepted(ins) => InFlight(k)' = ins[j]
    /\ \A k \in 1 .. (Occupancy - nr) : InFlight(k)'.ds = InFlight(k + nr).ds
    /\ \A k : na >= 1 /\ k = Occupancy - nr + 1 => InFlight(k)'.ds = in_ds
    /\ \A k : na = 2 /\ k = Occupancy - nr + 2
              => (InFlight(k)'.ds <=> Op(dq[1].pc) \in HasDelaySlot)

LEMMA UopsMove ==
    ASSUME ShapeInv, NEW na, NEW nr, Fits(na, nr), NEW ins \in Offers, Buffer(na, nr, FALSE, FALSE),
           dq' = SubSeq(dq, na + 1, Len(dq)) \o SubSeq(ins, 1, Accepted(ins))
    PROVE  Shifted(na, nr, ins)
<1>1. /\ TypeInv /\ FALSE \in BOOLEAN /\ na \in 0 .. 2 /\ nr \in 0 .. 2 /\ na <= Len(dq)
      /\ head \in R!Ptr /\ tail \in R!Ptr /\ Occupancy + na <= ROB_ENTRIES /\ nr <= Occupancy
  BY DEF ShapeInv, TypeInv, TypeOK, Fits, Occupancy
<1>2. Occupancy \in Nat /\ Len(dq) \in Nat /\ Accepted(ins) \in 0 .. 2
  BY <1>1, Flags, AcceptedFits
<1>3. Occupancy' = Occupancy + na - nr
  BY <1>1, BufferPointers
<1>4. /\ Len(dq') = Len(dq) - na + Accepted(ins)
      /\ \A j \in 1 .. (Len(dq) - na) : dq'[j] = dq[j + na]
      /\ \A j \in 1 .. Accepted(ins) : dq'[Len(dq) - na + j] = ins[j]
  BY <1>1, DecodeElements
<1>5. head' = R!Move(head, nr)
  BY DEF Buffer
<1>6. /\ \A k \in 0 .. (Occupancy - nr - 1) :
            /\ R!At(head', k) = R!At(head, k + nr)
            /\ R!At(head, k + nr) \in Live \ (NewSlots(tail, na) \cup FreedSlots(head, nr))
      /\ na >= 1 => R!At(head', Occupancy - nr) = R!Idx(tail)
      /\ na = 2 => R!At(head', Occupancy - nr + 1) = R!Idx(R!Inc(tail))
  <2>1. Live = LiveBetween(head, tail)
    BY DEF Live, LiveBetween
  <2>2. R!Count(head, tail) + na <= ROB_ENTRIES /\ nr <= R!Count(head, tail)
    BY <1>1 DEF Occupancy
  <2> QED  BY <1>1, <1>5, <2>1, <2>2, RingMoves DEF Occupancy
<1>7. Live \subseteq Slots
  BY <1>1, LiveHead
<1>8. Depth' = Depth - nr + Accepted(ins)
  BY <1>1, <1>2, <1>3, <1>4 DEF Depth
<1>9. ASSUME NEW k \in 1 .. (Occupancy - nr)
      PROVE  /\ InFlight(k)'.pc = InFlight(k + nr).pc /\ InFlight(k)'.pred = InFlight(k + nr).pred
             /\ InFlight(k)'.ds = InFlight(k + nr).ds
  <2> DEFINE i == R!At(head, k + nr - 1)
  <2>1. /\ k - 1 \in 0 .. (Occupancy - nr - 1) /\ k - 1 + nr = k + nr - 1
        /\ k <= Occupancy' /\ k + nr <= Occupancy
    BY <1>1, <1>2, <1>3
  <2>2. R!At(head', k - 1) = i /\ i \in Slots /\ i \notin NewSlots(tail, na) \cup FreedSlots(head, nr)
    BY <1>6, <1>7, <2>1
  <2>3. InFlight(k)' = rob'[i] /\ InFlight(k + nr) = rob[i]
    BY <1>1, <1>2, <1>3, <2>1, <2>2 DEF InFlight
  <2> HIDE DEF i
  <2> QED  BY <1>1, <2>2, <2>3, EntryKept
<1>10. ASSUME NEW k, na >= 1, k = Occupancy - nr + 1
       PROVE  /\ InFlight(k)'.pc = dq[1].pc /\ InFlight(k)'.pred = dq[1].pred
              /\ InFlight(k)'.ds = in_ds
              /\ InFlight(Occupancy + 1) = dq[1]
  <2>1. k <= Occupancy' /\ k - 1 = Occupancy - nr
    BY <1>1, <1>2, <1>3, <1>10
  <2>2. InFlight(k)' = rob'[R!Idx(tail)]
    BY <1>1, <1>2, <1>3, <1>6, <1>10, <2>1 DEF InFlight
  <2>3. ~(Occupancy + 1 <= Occupancy) /\ Occupancy + 1 - Occupancy = 1
    BY <1>2
  <2>4. InFlight(Occupancy + 1) = dq[1]
    BY <1>2, <2>3 DEF InFlight
  <2> QED  BY <1>1, <1>10, <2>2, <2>4, EntryWritten
<1>11. ASSUME NEW k, na = 2, k = Occupancy - nr + 2
       PROVE  /\ InFlight(k)'.pc = dq[2].pc /\ InFlight(k)'.pred = dq[2].pred
              /\ InFlight(k)'.ds <=> Op(dq[1].pc) \in HasDelaySlot
              /\ InFlight(Occupancy + 2) = dq[2]
  <2>1. k <= Occupancy' /\ k - 1 = Occupancy - nr + 1
    BY <1>1, <1>2, <1>3, <1>11
  <2>2. InFlight(k)' = rob'[R!Idx(R!Inc(tail))]
    BY <1>1, <1>2, <1>3, <1>6, <1>11, <2>1 DEF InFlight
  <2>3. ~(Occupancy + 2 <= Occupancy) /\ Occupancy + 2 - Occupancy = 2
    BY <1>2
  <2>4. InFlight(Occupancy + 2) = dq[2]
    BY <1>2, <2>3 DEF InFlight
  <2> QED  BY <1>1, <1>11, <2>2, <2>4, EntryWritten
<1>12. ASSUME NEW k \in (Occupancy - nr + na + 1) .. (Depth - nr)
       PROVE  InFlight(k)' = InFlight(k + nr)
  <2> DEFINE j == k - Occupancy'
  <2>1. /\ ~(k <= Occupancy') /\ ~(k + nr <= Occupancy)
        /\ j \in 1 .. (Len(dq) - na) /\ j + na = k + nr - Occupancy
    BY <1>1, <1>2, <1>3 DEF Depth
  <2>4. InFlight(k)' = dq'[j]
    BY <2>1, Zenon DEF InFlight
  <2>3. ~(k + nr <= Occupancy)
    BY <2>1
  <2>5. InFlight(k + nr) = dq[k + nr - Occupancy]
    BY <1>1, <1>2, <2>3 DEF InFlight
  <2>2. InFlight(k)' = dq'[j] /\ InFlight(k + nr) = dq[k + nr - Occupancy]
    BY <2>4, <2>5
  <2> HIDE DEF j
  <2> QED  BY <1>4, <2>1, <2>2
<1>13. ASSUME NEW k, NEW j \in 1 .. Accepted(ins), k = Depth - nr + j PROVE InFlight(k)' = ins[j]
  <2>1. ~(k <= Occupancy') /\ k - Occupancy' = Len(dq) - na + j /\ k \in Int
    BY <1>1, <1>2, <1>3, <1>13 DEF Depth
  <2>2. InFlight(k)' = dq'[Len(dq) - na + j]
    BY <1>1, <1>2, <1>3, <2>1 DEF InFlight
  <2> QED  BY <1>4, <2>2
<1>14. ASSUME NEW k \in 1 .. (Depth - nr)
       PROVE  InFlight(k)'.pc = InFlight(k + nr).pc /\ InFlight(k)'.pred = InFlight(k + nr).pred
  <2>1. \/ k \in 1 .. (Occupancy - nr)
        \/ na >= 1 /\ k = Occupancy - nr + 1 /\ k + nr = Occupancy + 1
        \/ na = 2 /\ k = Occupancy - nr + 2 /\ k + nr = Occupancy + 2
        \/ k \in (Occupancy - nr + na + 1) .. (Depth - nr)
    BY <1>1, <1>2 DEF Depth
  <2> QED  BY <1>9, <1>10, <1>11, <1>12, <2>1
<1> QED  BY <1>3, <1>8, <1>9, <1>10, <1>11, <1>13, <1>14 DEF Shifted

-----------------------------------------------------------------------------
(* The fetch engine and its restart handshake.                             *)

FetchCursor == [pc |-> fe.pc, tgt |-> fe.tgt]

\* What the fetch queue shows continues the path from the cursor.
LEMMA OffersOnPath ==
    ASSUME TypeInv, NEW ins \in Offers
    PROVE  /\ fe.st # "ACTIVE" \/ fe.gap # 0 => ins = <<>>
           /\ Len(ins) >= 1 => ins[1].pc = fe.pc /\ Predicted(ins[1])
           /\ Len(ins) = 2 => ins[2].pc = Follow(FetchCursor, ins[1].pred).pc /\ Predicted(ins[2])
<1> DEFINE one == {[pc |-> fe.pc, pred |-> p] : p \in Predictions(fe.pc)}
           nxt(u) == Follow(FetchCursor, u.pred).pc
<1>1. \A pc : \A p \in Predictions(pc) : Op(pc) \in {"brl", "j"} => p
  <2>1. ASSUME NEW pc, NEW p \in Predictions(pc), Op(pc) \in {"brl", "j"} PROVE p
    <3>1. Predictions(pc) = {Op(pc) \in {"brl", "j"}}
      BY <2>1 DEF Predictions
    <3>2. p = (Op(pc) \in {"brl", "j"})
      BY <3>1
    <3> QED  BY <2>1, <3>2
  <2> QED  BY <2>1
<1>2. \A u \in one : u.pc = fe.pc /\ Predicted(u)
  BY <1>1 DEF Predicted
<1>3. \A u \in one : \A p \in Predictions(nxt(u)) : Predicted([pc |-> nxt(u), pred |-> p])
  BY <1>1 DEF Predicted
<1>4. fe.st # "ACTIVE" \/ fe.gap # 0 => ins = <<>>
  BY DEF Offers
<1> HIDE DEF nxt, one
<1>5. \/ ins = <<>>
      \/ \E u \in one : ins = <<u>>
      \/ \E u \in one : \E p \in Predictions(nxt(u)) : ins = <<u, [pc |-> nxt(u), pred |-> p]>>
  BY DEF Offers, one, nxt, FetchCursor
<1>6. CASE ins = <<>>
  BY <1>4, <1>6
<1>7. ASSUME NEW u \in one, ins = <<u>>
      PROVE  Len(ins) = 1 /\ ins[1].pc = fe.pc /\ Predicted(ins[1])
  BY <1>2, <1>7
<1>8. ASSUME NEW u \in one, NEW p \in Predictions(nxt(u)), ins = <<u, [pc |-> nxt(u), pred |-> p]>>
      PROVE  /\ ins[1].pc = fe.pc /\ Predicted(ins[1])
             /\ ins[2].pc = Follow(FetchCursor, ins[1].pred).pc /\ Predicted(ins[2])
  <2> DEFINE v == [pc |-> nxt(u), pred |-> p]
  <2>1. v.pc = nxt(u) /\ Predicted(v)
    BY <1>3
  <2>2. ins = <<u, v>>
    BY <1>8
  <2> HIDE DEF v
  <2>3. ins[1] = u /\ ins[2] = v
    BY <2>2
  <2> QED  BY <1>2, <2>1, <2>3 DEF nxt
<1> QED  BY <1>4, <1>5, <1>6, <1>7, <1>8

\* The engine jumps to the restart, or stays at its cursor m.
Jumps == fe'.st = "ACTIVE" /\ fe'.pc = restart_pc /\ fe'.tgt = 0 /\ ~fe'.req /\ fe'.ack /\ fe'.gap = 2
Stays(m) ==
    /\ fe'.st = fe.st /\ fe'.pc = m.pc /\ fe'.tgt = m.tgt
    /\ fe'.req <=> NextReq
    /\ ~fe'.ack
    /\ fe'.gap # 0 => fe.gap # 0

LEMMA FetchProtocol ==
    ASSUME TypeInv, NEW m, FetchStep(m, fe')
    PROVE  /\ fe'.ack => Jumps /\ NextReq
           /\ ~NextReq => ~fe'.req
           /\ fe.st = "ACTIVE" /\ ~NextFlush => (Jumps /\ NextReq) \/ (Stays(m) /\ (~NextReq \/ fe.gap = 0))
           /\ fe.st = "IDLE" => (Jumps /\ NextReq) \/ (Stays(m) /\ ~NextReq)
           /\ fe'.done => fe'.st = "IDLE"
<1>1. fe.st \in {"IDLE", "ACTIVE", "FLUSH_CACHE"} /\ fe.gap \in 0 .. 2
  BY DEF TypeInv, TypeOK, FeStates
<1>2. fe' = Restarted => Jumps /\ ~fe'.done
  BY DEF Restarted, Jumps
<1>3. fe' = Idling(m) => Stays(m) /\ ~fe'.done
  BY <1>1 DEF Idling, Stays
<1>4. fe' = Flushing \/ fe' = Flushed(m) => ~fe'.ack /\ (fe'.req <=> NextReq) /\ (fe'.done => fe'.st = "IDLE")
  BY DEF Flushing, Flushed
<1> HIDE DEF Jumps
<1>5. FetchStep(m, fe')
  OBVIOUS
<1>6. Stays(m) => ~fe'.ack /\ (fe'.req <=> NextReq)
  BY DEF Stays
<1>7. Jumps => ~fe'.req
  BY DEF Jumps
<1> QED  BY <1>1, <1>2, <1>3, <1>4, <1>5, <1>6, <1>7 DEF FetchStep

\* Outside ACTIVE no instruction is acknowledged, so the cursor does not move.
LEMMA IdleFetch ==
    ASSUME TypeInv, NEW na, NEW nr, NEW clr_rob, NEW clr_dq, Pipeline(na, nr, clr_rob, clr_dq),
           state # "ACTIVE"
    PROVE  /\ FetchStep(FetchCursor, fe')
           /\ got_ack' <=> got_ack \/ fe.ack
<1>1. PICK ins \in Offers : fe' \in Fetch(ins, 0)
  BY DEF Pipeline, Decode
<1>2. FetchStep(Moved(ins, 0), fe')
  BY <1>1, FetchCases
<1>3. Moved(ins, 0) = FetchCursor
  BY DEF Moved, FetchCursor
<1>4. got_ack' <=> got_ack \/ fe.ack
  BY Zenon DEF Pipeline, GotAck
<1> QED  BY <1>2, <1>3, <1>4

\* The acknowledgement comes with the jump.
AckInv == fe.ack => fe.st = "ACTIVE" /\ fe.gap = 2 /\ ~fe.req

LEMMA NextKeepsAck == ASSUME ShapeInv, Next PROVE AckInv'
<1>1. PICK na, nr, clr_rob, clr_dq : Clock(na, nr, clr_rob, clr_dq)
  BY NextIsClock DEF ShapeInv, IsClock
<1>2. PICK m : FetchStep(m, fe')
  BY <1>1, FetchCases DEF Clock, Pipeline, Decode, ShapeInv
<1>3. fe'.ack => Jumps
  BY <1>2, FetchProtocol DEF ShapeInv
<1> QED  BY <1>3 DEF AckInv, Jumps

\* A restart that has been asked for in this clock, that waits, or that has been
\* served.  An acknowledgement that is older than the request comes only while
\* the engine cannot keep the request waiting.
Recovering ==
    /\ fe.st = "ACTIVE"
    /\ \/ restart_valid /\ ~got_ack
       \/ ~restart_valid /\ fe.req /\ ~got_ack /\ ~fe.ack
       \/ ~restart_valid /\ ~fe.req /\ FetchCursor = Fresh(restart_pc)

LEMMA RecoveryClock ==
    ASSUME TypeInv, AckInv, Recovering, ~NextFlush, state # "ACTIVE", NoRestart,
           NEW na, NEW nr, NEW clr_rob, NEW clr_dq, Pipeline(na, nr, clr_rob, clr_dq)
    PROVE  Recovering' /\ ~restart_valid'
<1>1. ~restart_valid' /\ restart_pc' = restart_pc
  BY DEF NoRestart
<1>2. /\ (Jumps /\ NextReq) \/ (Stays(FetchCursor) /\ (~NextReq \/ fe.gap = 0))
      /\ got_ack' <=> got_ack \/ fe.ack
  BY IdleFetch, FetchProtocol DEF Recovering
<1>3. CASE Jumps
  BY <1>1, <1>3 DEF Jumps, Recovering, FetchCursor, Fresh
<1>4. CASE Stays(FetchCursor) /\ ~NextReq
  <2>1. /\ ~restart_valid /\ ~fe.req /\ FetchCursor = Fresh(restart_pc) /\ fe.st = "ACTIVE"
    BY <1>4 DEF Recovering, NextReq
  <2>2. fe'.pc = fe.pc /\ fe'.tgt = fe.tgt /\ fe'.st = "ACTIVE" /\ ~fe'.req
    BY <1>4, <2>1 DEF Stays, FetchCursor
  <2> QED  BY <1>1, <2>1, <2>2 DEF Recovering, FetchCursor, Fresh
<1>5. CASE Stays(FetchCursor) /\ NextReq /\ fe.gap = 0
  <2>1. ~got_ack /\ ~fe.ack /\ fe.st = "ACTIVE"
    BY <1>5 DEF Recovering, NextReq, AckInv
  <2> QED  BY <1>1, <1>2, <1>5, <2>1 DEF Stays, Recovering
<1> QED  BY <1>2, <1>3, <1>4, <1>5

-----------------------------------------------------------------------------
(* What a completed entry says about its branch.                           *)

Conditional == {"br", "brl"}

EntryOK(e, done) ==
    /\ e.flt => \/ Op(e.pc) \in {"ii", "break"} \cup Monitors
                \/ Op(e.pc) \in Conditional /\ e.take # e.pred
    /\ done /\ ~e.flt /\ Op(e.pc) \in Conditional => e.take = e.pred
    /\ Op(e.pc) = "j" => done /\ e.take
    /\ Predicted(e)

EntryInv ==
    /\ \A i \in Live : EntryOK(rob[i], i \in complete)
    /\ \A k \in 1 .. Len(dq) : Predicted(dq[k])

\* A new entry, complete if it is folded.
LEMMA NewEntryOK ==
    ASSUME NEW u \in Uop, Predicted(u), NEW ds \in BOOLEAN, NEW done, done <=> Op(u.pc) \in Folded
    PROVE  EntryOK(Entry(u, ds), done)
<1>1. /\ Entry(u, ds).pc = u.pc /\ Entry(u, ds).pred = u.pred
  BY NewEntry
<1>2. (Entry(u, ds).flt <=> Op(u.pc) = "ii") /\ (Entry(u, ds).take <=> Op(u.pc) = "j")
  BY Zenon DEF Entry
<1> DEFINE e == Entry(u, ds)
<1> HIDE DEF e
<1>3. /\ e.pc = u.pc /\ e.pred = u.pred
      /\ e.flt <=> Op(u.pc) = "ii"
      /\ e.take <=> Op(u.pc) = "j"
  BY <1>1, <1>2 DEF e
<1>4. EntryOK(e, done)
  BY <1>3 DEF EntryOK, Predicted, Folded, Conditional
<1> QED  BY <1>4 DEF e

\* An entry that completes.
LEMMA CompletedEntryOK ==
    ASSUME NEW e \in RobEntry, NEW b \in BOOLEAN, EntryOK(e, FALSE)
    PROVE  EntryOK(Completed(e, b), TRUE)
<1>1. /\ Completed(e, b).pc = e.pc /\ Completed(e, b).pred = e.pred
      /\ Completed(e, b).flt = Faulted(e, b) /\ Completed(e, b).take = b
  BY CompletedEntry
<1>2. Faulted(e, b) <=> \/ Op(e.pc) \in Conditional /\ b # e.pred
                        \/ Op(e.pc) \in {"break"} \cup Monitors
  BY DEF Faulted, Conditional
<1>3. Op(e.pc) # "j" /\ Predicted(e)
  BY DEF EntryOK
<1> DEFINE c == Completed(e, b)
<1> HIDE DEF c
<1>4. c.pc = e.pc /\ c.pred = e.pred /\ c.take = b /\ (c.flt <=> Faulted(e, b))
  BY <1>1 DEF c
<1>5. EntryOK(c, TRUE)
  BY <1>2, <1>3, <1>4 DEF EntryOK, Predicted
<1> QED  BY <1>5 DEF c

LEMMA ClockKeepsEntries ==
    ASSUME ShapeInv, UnitsInv, EntryInv,
           NEW na, NEW nr, NEW clr_rob, NEW clr_dq, Clock(na, nr, clr_rob, clr_dq)
    PROVE  EntryInv'
<1> DEFINE new == NewSlots(tail, na)
           freed == FreedSlots(head, nr)
<1>1. /\ TypeInv /\ Fits(na, nr) /\ clr_rob \in BOOLEAN /\ clr_dq \in BOOLEAN
      /\ Decode(na, clr_dq) /\ Buffer(na, nr, clr_rob, clr_dq)
      /\ na \in 0 .. 2 /\ na <= Len(dq)
  BY DEF Clock, ShapeInv, Pipeline, Fits
<1>2. /\ new \subseteq Slots /\ new \cap Live = {}
      /\ Live' = IF clr_rob THEN {} ELSE (Live \ freed) \cup new
      /\ complete' = IF clr_rob THEN {} ELSE (complete \ (new \cup freed)) \cup FoldSlots(na) \cup Done
      /\ FoldSlots(na) \subseteq new
  BY ClockBuffer
<1>3. Live \subseteq Slots /\ dq \in Seq(Uop) /\ Len(dq) \in Nat
  BY <1>1, LiveHead DEF TypeInv
<1>4. \A i \in Done : i \in Live /\ i \notin complete
  BY DEF Done, UnitsInv, DividerInv
<1>5. \A i \in new : Predicted(NewUop(i))
  BY <1>1, <1>3 DEF EntryInv, NewUop, NewSlots
<1> HIDE DEF new, freed
<1>6. ASSUME NEW i \in Live' PROVE EntryOK(rob'[i], i \in complete')
  <2>1. ~clr_rob /\ i \in (Live \ freed) \cup new /\ i \in Slots
    BY <1>2, <1>3, <1>6
  <2>2. CASE i \in new
    <3>1. rob'[i] = Entry(NewUop(i), NewDs(i)) /\ NewUop(i) \in Uop /\ NewDs(i) \in BOOLEAN
      BY <1>1, <2>1, <2>2, BufferRob, NewUopType DEF new
    <3>2. i \in FoldSlots(na) <=> Op(NewUop(i).pc) \in Folded
      BY <2>2 DEF FoldSlots, new
    <3>3. i \notin Done
      BY <1>2, <1>4, <2>2
    <3>4. i \in complete' <=> Op(NewUop(i).pc) \in Folded
      <4>1. complete' = (complete \ (new \cup freed)) \cup FoldSlots(na) \cup Done
        BY <1>2, <2>1
      <4> QED  BY <2>2, <3>2, <3>3, <4>1
    <3> DEFINE done == i \in complete'
    <3>5. done <=> Op(NewUop(i).pc) \in Folded
      BY <3>4
    <3>6. Predicted(NewUop(i))
      BY <1>5, <2>2
    <3> HIDE DEF done
    <3>7. EntryOK(Entry(NewUop(i), NewDs(i)), done)
      BY <3>1, <3>5, <3>6, NewEntryOK
    <3> QED  BY <3>1, <3>7 DEF done
  <2>3. CASE i \notin new /\ i \notin Done
    <3>1. rob'[i] = rob[i]
      BY <1>1, <2>1, <2>3, BufferRob DEF new, freed
    <3>2. i \in complete' <=> i \in complete
      BY <1>2, <2>1, <2>3
    <3>3. EntryOK(rob[i], i \in complete)
      BY <2>1, <2>3 DEF EntryInv
    <3> QED  BY <3>1, <3>2, <3>3 DEF EntryOK
  <2>4. CASE i \notin new /\ i \in Done
    <3>1. PICK b \in BOOLEAN : rob'[i] = Completed(rob[i], b)
      BY <1>1, <2>1, <2>4, BufferRob DEF new, freed
    <3>2. i \in complete' /\ i \notin complete /\ i \in Live
      BY <1>2, <1>4, <2>1, <2>4
    <3>3. EntryOK(rob[i], FALSE)
      BY <3>2 DEF EntryInv, EntryOK
    <3>4. rob[i] \in RobEntry
      BY <1>1, <2>1 DEF TypeInv, TypeOK, RobEntry
    <3>5. EntryOK(rob'[i], TRUE)
      BY <3>1, <3>3, <3>4, CompletedEntryOK
    <3> QED  BY <3>2, <3>5 DEF EntryOK
  <2> QED  BY <2>2, <2>3, <2>4
<1>7. ASSUME NEW k \in 1 .. Len(dq') PROVE Predicted(dq'[k])
  <2>1. PICK ins \in Offers :
           dq' = IF clr_dq THEN <<>> ELSE SubSeq(dq, na + 1, Len(dq)) \o SubSeq(ins, 1, Accepted(ins))
    BY <1>1 DEF Decode
  <2>2. CASE clr_dq
    BY <1>7, <2>1, <2>2
  <2>3. CASE ~clr_dq
    <3>1. /\ Len(dq') = Len(dq) - na + Accepted(ins)
          /\ \A j \in 1 .. (Len(dq) - na) : dq'[j] = dq[j + na]
          /\ \A j \in 1 .. Accepted(ins) : dq'[Len(dq) - na + j] = ins[j]
      BY <1>1, <2>1, <2>3, DecodeElements
    <3>2. /\ Len(ins) \in 0 .. 2 /\ Accepted(ins) \in 0 .. 2 /\ Accepted(ins) <= Len(ins)
          /\ Len(ins) >= 1 => Predicted(ins[1])
          /\ Len(ins) = 2 => Predicted(ins[2])
      BY <1>1, OffersType, AcceptedFits, OffersOnPath
    <3>3. CASE k <= Len(dq) - na
      <4>1. k \in 1 .. (Len(dq) - na) /\ k + na \in 1 .. Len(dq)
        BY <1>1, <1>3, <1>7, <3>3
      <4> QED  BY <3>1, <4>1 DEF EntryInv
    <3>4. CASE ~(k <= Len(dq) - na)
      <4> DEFINE j == k - (Len(dq) - na)
      <4>1. j \in 1 .. Accepted(ins) /\ Len(dq) - na + j = k
        BY <1>1, <1>3, <1>7, <3>1, <3>2, <3>4
      <4> HIDE DEF j
      <4>2. dq'[k] = ins[j] /\ (j = 1 \/ j = 2)
        BY <3>1, <3>2, <4>1
      <4> QED  BY <3>2, <4>1, <4>2
    <3> QED  BY <3>3, <3>4
  <2> QED  BY <1>1, <2>2, <2>3
<1> QED  BY <1>6, <1>7 DEF EntryInv

-----------------------------------------------------------------------------
(* The path.                                                               *)

\* p leads from the architectural position through the uops in flight to the
\* cursor of the fetch engine; the uop after a pending branch is marked as its
\* delay slot.
IsPath(p) ==
    /\ p \in [0 .. Depth -> Cursor]
    /\ p[0] = arch
    /\ \A k \in 1 .. Depth : InFlight(k).pc = p[k - 1].pc /\ p[k] = Follow(p[k - 1], InFlight(k).pred)
    /\ p[Depth] = FetchCursor
    /\ \A k \in 0 .. Depth : Slotted(p[k])
    /\ \A k \in 0 .. (Occupancy - 1) : p[k].tgt # 0 => InFlight(k + 1).ds
    /\ p[Occupancy].tgt # 0 => in_ds

\* The fetch engine while the core is in ACTIVE: a request left over from a
\* serializing uop finds it in the clocks after the same restart, with nothing
\* delivered yet.
ActiveFetch ==
    /\ fe.st = "ACTIVE"
    /\ NextReq => fe.gap # 0
    /\ fe.gap # 0 => dq = <<>>

LEMMA ActiveFetchClock ==
    ASSUME ShapeInv, state = "ACTIVE", ActiveFetch, ~NextFlush,
           NEW na, NEW nr, Fits(na, nr), Pipeline(na, nr, FALSE, FALSE)
    PROVE  /\ fe'.st = "ACTIVE" /\ ~fe'.req
           /\ fe'.gap # 0 => dq' = <<>>
           /\ fe.gap = 0 => ~fe'.ack
           /\ \E ins \in Offers :
                 /\ dq' = SubSeq(dq, na + 1, Len(dq)) \o SubSeq(ins, 1, Accepted(ins))
                 /\ (NextReq => FetchCursor = Fresh(restart_pc)) => FetchCursor' = Moved(ins, Accepted(ins))
<1>1. PICK ins \in Offers : /\ dq' = SubSeq(dq, na + 1, Len(dq)) \o SubSeq(ins, 1, Accepted(ins))
                            /\ fe' \in Fetch(ins, Accepted(ins))
  BY DEF Pipeline, Decode
<1>2. TypeInv /\ na \in 0 .. 2 /\ na <= Len(dq)
  BY DEF ShapeInv, Fits
<1> DEFINE m == Moved(ins, Accepted(ins))
<1>3. FetchStep(m, fe')
  BY <1>1, <1>2, FetchCases
<1>4. (Jumps /\ NextReq) \/ (Stays(m) /\ (~NextReq \/ fe.gap = 0))
  BY <1>2, <1>3, FetchProtocol DEF ActiveFetch
<1>5. (Jumps /\ NextReq /\ fe.gap # 0) \/ (Stays(m) /\ ~NextReq)
  BY <1>4 DEF ActiveFetch
<1>6. ASSUME fe.gap # 0 PROVE dq' = <<>> /\ Accepted(ins) = 0 /\ m = FetchCursor
  <2>1. ins = <<>> /\ dq = <<>>
    BY <1>2, <1>6, OffersOnPath DEF ActiveFetch
  <2>2. Len(ins) = 0 /\ Len(dq) = 0
    BY <2>1
  <2>3. Accepted(ins) = 0
    BY <2>2 DEF Accepted
  <2>4. Len(dq') = 0
    <3>1. Len(dq') = Len(dq) - na + Accepted(ins)
      BY <1>1, <1>2, DecodeElements
    <3> QED  BY <1>2, <2>2, <2>3, <3>1
  <2>5. dq' \in Seq(Uop)
    <3>1. Decode(na, FALSE) /\ FALSE \in BOOLEAN
      BY DEF Pipeline
    <3> QED  BY <1>2, <3>1, DecodeQueue
  <2>6. dq' = <<>>
    BY <2>4, <2>5, EmptySeq
  <2> QED  BY <2>3, <2>6 DEF Moved, FetchCursor
<1>7. ASSUME NextReq => FetchCursor = Fresh(restart_pc) PROVE FetchCursor' = m
  <2>1. CASE Jumps /\ NextReq /\ fe.gap # 0
    <3>1. FetchCursor' = Fresh(restart_pc)
      BY <2>1 DEF Jumps, FetchCursor, Fresh
    <3> QED  BY <1>6, <1>7, <2>1, <3>1
  <2>2. CASE Stays(m)
    <3>1. m \in Cursor
      <4>1. FetchCursor \in Cursor
        BY <1>2 DEF TypeInv, TypeOK, FetchCursor, Cursor
      <4> QED  BY <4>1, FollowType DEF Moved, FetchCursor
    <3>2. m = [pc |-> m.pc, tgt |-> m.tgt]
      BY <3>1 DEF Cursor
    <3>3. fe'.pc = m.pc /\ fe'.tgt = m.tgt
      BY <2>2 DEF Stays
    <3> HIDE DEF m
    <3> QED  BY <3>2, <3>3 DEF FetchCursor
  <2> QED  BY <1>5, <2>1, <2>2
<1>8. fe'.st = "ACTIVE" /\ ~fe'.req /\ (fe'.gap # 0 => fe.gap # 0) /\ (fe.gap = 0 => ~fe'.ack)
  BY <1>5 DEF Jumps, Stays, ActiveFetch
<1> QED  BY <1>1, <1>6, <1>7, <1>8

LEMMA PathMoves ==
    ASSUME SlotsPlain, ShapeInv, NEW p, IsPath(p), NEW na, NEW nr, Fits(na, nr),
           Buffer(na, nr, FALSE, FALSE), NEW ins \in Offers,
           dq' = SubSeq(dq, na + 1, Len(dq)) \o SubSeq(ins, 1, Accepted(ins)),
           FetchCursor' = Moved(ins, Accepted(ins)), arch' = p[nr]
    PROVE  \E q : IsPath(q)'
<1> DEFINE n == Accepted(ins)
           c1 == Follow(p[Depth], ins[1].pred)
           c2 == Follow(c1, ins[2].pred)
           d == Depth - nr
<1>1. /\ TypeInv /\ na \in 0 .. 2 /\ nr \in 0 .. 2 /\ na <= Len(dq)
      /\ Occupancy \in Nat /\ nr <= Occupancy /\ Len(dq) \in Nat
      /\ n \in 0 .. 2 /\ n <= Len(ins) /\ Len(ins) \in 0 .. 2
  BY Flags, AcceptedFits, OffersType DEF ShapeInv, Fits, Occupancy
<1>2. Shifted(na, nr, ins)
  BY UopsMove
<1>23. Occupancy' = Occupancy + na - nr /\ Depth' = Depth - nr + n
  BY <1>2 DEF Shifted
<1>3. Depth \in Nat /\ Depth = Occupancy + Len(dq) /\ Depth' \in Nat
  BY <1>1, <1>23 DEF Depth
<1>4. /\ p \in [0 .. Depth -> Cursor] /\ p[0] = arch /\ p[Depth] = FetchCursor
      /\ \A k \in 1 .. Depth : InFlight(k).pc = p[k - 1].pc /\ p[k] = Follow(p[k - 1], InFlight(k).pred)
      /\ \A k \in 0 .. Depth : Slotted(p[k])
  BY DEF IsPath
<1>5. /\ Len(ins) >= 1 => ins[1].pc = p[Depth].pc
      /\ Len(ins) = 2 => ins[2].pc = c1.pc
  <2>1. /\ Len(ins) >= 1 => ins[1].pc = fe.pc
        /\ Len(ins) = 2 => ins[2].pc = Follow(FetchCursor, ins[1].pred).pc
    BY <1>1, OffersOnPath
  <2> QED  BY <1>4, <2>1 DEF FetchCursor
<1>6. FetchCursor' = IF n = 0 THEN p[Depth] ELSE IF n = 1 THEN c1 ELSE c2
  BY <1>4 DEF Moved, FetchCursor
<1>7. p[Depth] \in Cursor /\ c1 \in Cursor /\ c2 \in Cursor /\ Slotted(c1) /\ Slotted(c2)
  BY <1>3, <1>4, FollowFacts
<1>8. /\ Len(dq) >= 1 => InFlight(Occupancy + 1) = dq[1]
      /\ Len(dq) >= 2 => InFlight(Occupancy + 2) = dq[2]
  BY <1>1 DEF InFlight
<1> HIDE DEF c1, c2, n
<1>9. PICK q : q = [k \in 0 .. (d + n) |-> IF k <= d THEN p[k + nr] ELSE IF k = d + 1 THEN c1 ELSE c2]
  OBVIOUS
<1>19. d \in Nat /\ d + nr = Depth /\ Depth' = d + n
  BY <1>1, <1>23, <1>3
<1> HIDE DEF d
<1>20. ASSUME NEW k \in 0 .. d PROVE q[k] = p[k + nr] /\ q[k] \in Cursor
  <2>1. k \in 0 .. (d + n) /\ k <= d /\ k + nr \in 0 .. Depth
    BY <1>1, <1>3, <1>19
  <2>2. q[k] = p[k + nr]
    BY <1>9, <2>1
  <2> QED  BY <1>4, <2>1, <2>2
<1>21. /\ n >= 1 => q[d + 1] = c1
       /\ n = 2 => q[d + 2] = c2
  <2>1. /\ n >= 1 => d + 1 \in 0 .. (d + n) /\ ~(d + 1 <= d)
        /\ n = 2 => d + 2 \in 0 .. (d + n) /\ ~(d + 2 <= d) /\ ~(d + 2 = d + 1)
    BY <1>1, <1>19
  <2> QED  BY <1>9, <2>1
<1>22. ASSUME NEW k \in 0 .. Depth'
       PROVE  \/ k \in 0 .. d
              \/ n >= 1 /\ k = d + 1
              \/ n = 2 /\ k = d + 2
  BY <1>1, <1>19
<1>10. q \in [0 .. Depth' -> Cursor]
  <2>1. \A k \in 0 .. Depth' : q[k] \in Cursor
    BY <1>7, <1>20, <1>21, <1>22
  <2> QED  BY <1>9, <1>19, <2>1
<1>11. q[0] = arch'
  BY <1>1, <1>19, <1>20
<1>12. ASSUME NEW k \in 1 .. Depth'
       PROVE  InFlight(k)'.pc = q[k - 1].pc /\ q[k] = Follow(q[k - 1], InFlight(k)'.pred)
  <2>1. CASE k \in 0 .. d
    <3>1. /\ k \in 1 .. (Depth - nr) /\ k - 1 \in 0 .. d
          /\ k + nr \in 1 .. Depth /\ k - 1 + nr = (k + nr) - 1
      BY <1>1, <1>3, <1>19, <2>1
    <3>2. q[k - 1] = p[(k + nr) - 1] /\ q[k] = p[k + nr]
      BY <1>20, <2>1, <3>1
    <3>3. InFlight(k)'.pc = InFlight(k + nr).pc /\ InFlight(k)'.pred = InFlight(k + nr).pred
      BY <1>2, <3>1 DEF Shifted
    <3>4. PICK j \in 1 .. Depth : j = k + nr
      BY <3>1
    <3>5. InFlight(j).pc = p[j - 1].pc /\ p[j] = Follow(p[j - 1], InFlight(j).pred)
      BY <1>4
    <3>6. InFlight(k)'.pc = InFlight(j).pc /\ InFlight(k)'.pred = InFlight(j).pred
      BY <3>3, <3>4
    <3>7. q[k - 1] = p[j - 1] /\ q[k] = p[j]
      BY <3>2, <3>4
    <3> QED  BY <3>5, <3>6, <3>7
  <2>2. CASE n >= 1 /\ k = d + 1
    <3>0. d = Depth - nr
      BY DEF d
    <3>1. 1 \in 1 .. n /\ k = Depth - nr + 1 /\ k - 1 = d /\ d \in 0 .. d
      BY <1>1, <1>19, <2>2, <3>0
    <3>2. InFlight(k)' = ins[1]
      BY <1>2, <3>1 DEF Shifted, n
    <3>3. q[k - 1] = p[Depth] /\ q[k] = c1
      BY <1>19, <1>20, <1>21, <2>2, <3>1
    <3>4. ins[1].pc = p[Depth].pc
      BY <1>1, <1>5, <2>2
    <3> QED  BY <3>2, <3>3, <3>4 DEF c1
  <2>3. CASE n = 2 /\ k = d + 2
    <3>0. d = Depth - nr
      BY DEF d
    <3>1. 2 \in 1 .. n /\ k = Depth - nr + 2 /\ k - 1 = d + 1
      BY <1>1, <1>19, <2>3, <3>0
    <3>2. InFlight(k)' = ins[2]
      BY <1>2, <3>1 DEF Shifted, n
    <3>3. q[k - 1] = c1 /\ q[k] = c2
      BY <1>21, <2>3, <3>1
    <3>4. ins[2].pc = c1.pc
      BY <1>1, <1>5, <2>3
    <3> QED  BY <3>2, <3>3, <3>4 DEF c2
  <2>4. k \in 0 .. Depth'
    BY <1>3
  <2> QED  BY <1>22, <2>1, <2>2, <2>3, <2>4
<1>13. q[Depth'] = FetchCursor'
  <2>1. CASE n = 0
    <3>1. Depth' = d /\ d \in 0 .. d
      BY <1>19, <2>1
    <3> QED  BY <1>6, <1>19, <1>20, <2>1, <3>1
  <2>2. CASE n = 1
    <3>1. n >= 1 /\ n # 0
      BY <2>2
    <3> QED  BY <1>6, <1>19, <1>21, <2>2, <3>1
  <2>3. CASE n = 2
    <3>1. n >= 1 /\ n # 0 /\ n # 1
      BY <2>3
    <3> QED  BY <1>6, <1>19, <1>21, <2>3, <3>1
  <2> QED  BY <1>1, <2>1, <2>2, <2>3
<1>14. ASSUME NEW k \in 0 .. Depth' PROVE Slotted(q[k])
  <2>1. CASE k \in 0 .. d
    <3>1. k + nr \in 0 .. Depth
      BY <1>1, <1>3, <1>19, <2>1
    <3> QED  BY <1>4, <1>20, <2>1, <3>1
  <2> QED  BY <1>7, <1>21, <1>22, <2>1
<1>15. /\ na >= 1 /\ p[Occupancy + 1].tgt # 0 => Op(dq[1].pc) \in HasDelaySlot
       /\ na = 2 /\ p[Occupancy + 2].tgt # 0 => Op(dq[2].pc) \in HasDelaySlot
  <2>1. ASSUME NEW k \in 1 .. Depth, p[k].tgt # 0 PROVE Op(InFlight(k).pc) \in HasDelaySlot
    <3>0. k - 1 \in 0 .. Depth
      BY <1>3
    <3>1. p[k - 1] \in Cursor
      BY <1>4, <3>0
    <3>2. InFlight(k).pc = p[k - 1].pc /\ p[k] = Follow(p[k - 1], InFlight(k).pred)
      BY <1>4, <2>1
    <3>3. Follow(p[k - 1], InFlight(k).pred).tgt # 0 => Op(p[k - 1].pc) \in HasDelaySlot
      BY <3>1, FollowFacts
    <3> QED  BY <2>1, <3>2, <3>3
  <2>2. /\ na >= 1 => Occupancy + 1 \in 1 .. Depth /\ Len(dq) >= 1
        /\ na = 2 => Occupancy + 2 \in 1 .. Depth /\ Len(dq) >= 2
    BY <1>1, <1>3
  <2> QED  BY <1>8, <2>1, <2>2
<1>16. ASSUME NEW k \in 0 .. (Occupancy' - 1), q[k].tgt # 0 PROVE InFlight(k + 1)'.ds
  <2>0. k \in 0 .. d /\ k + 1 \in Int
    BY <1>1, <1>23, <1>3, <1>19
  <2>5. q[k] = p[k + nr]
    BY <1>20, <2>0
  <2>6. PICK j : j = k + 1
    OBVIOUS
  <2>1. CASE k + 1 <= Occupancy - nr
    <3>1. j \in 1 .. (Occupancy - nr) /\ k + nr \in 0 .. (Occupancy - 1) /\ j + nr = k + nr + 1
      BY <1>1, <2>0, <2>1, <2>6
    <3>2. InFlight(k + nr + 1).ds
      BY <1>16, <2>5, <3>1 DEF IsPath
    <3>3. InFlight(j)'.ds
      BY <1>2, <3>1, <3>2 DEF Shifted
    <3> QED  BY <2>6, <3>3
  <2>2. CASE k = Occupancy - nr
    <3>1. na >= 1 /\ k + nr = Occupancy /\ j = Occupancy - nr + 1
      BY <1>1, <1>23, <2>2, <2>6
    <3>2. in_ds
      BY <1>16, <2>5, <3>1 DEF IsPath
    <3>3. InFlight(j)'.ds
      BY <1>2, <3>1, <3>2 DEF Shifted
    <3> QED  BY <2>6, <3>3
  <2>3. CASE k = Occupancy - nr + 1
    <3>1. na = 2 /\ na >= 1 /\ k + nr = Occupancy + 1 /\ j = Occupancy - nr + 2
      BY <1>1, <1>23, <2>3, <2>6
    <3>2. Op(dq[1].pc) \in HasDelaySlot
      BY <1>15, <1>16, <2>5, <3>1
    <3>3. InFlight(j)'.ds
      BY <1>2, <3>1, <3>2 DEF Shifted
    <3> QED  BY <2>6, <3>3
  <2>4. k + 1 <= Occupancy - nr \/ k = Occupancy - nr \/ k = Occupancy - nr + 1
    BY <1>1, <1>23
  <2> QED  BY <2>1, <2>2, <2>3, <2>4
<1>17. ASSUME q[Occupancy'].tgt # 0 PROVE in_ds'
  <2>1. q[Occupancy'] = p[Occupancy + na]
    <3>1. Occupancy' \in 0 .. d /\ Occupancy' + nr = Occupancy + na
      BY <1>1, <1>23, <1>3, <1>19
    <3> QED  BY <1>20, <3>1
  <2>2. in_ds' <=> IF na >= 1 THEN Op(dq[na].pc) \in HasDelaySlot ELSE in_ds
    BY Zenon DEF Buffer
  <2>3. CASE na = 0
    <3>1. Occupancy + na = Occupancy /\ ~(na >= 1)
      BY <1>1, <2>3
    <3> QED  BY <1>17, <2>1, <2>2, <3>1 DEF IsPath
  <2>4. CASE na = 1
    BY <1>15, <1>17, <2>1, <2>2, <2>4
  <2>5. CASE na = 2
    BY <1>15, <1>17, <2>1, <2>2, <2>5
  <2> QED  BY <1>1, <2>3, <2>4, <2>5
<1>18. IsPath(q)'
  <2>1. \A k \in 1 .. Depth' : InFlight(k)'.pc = q[k - 1].pc /\ q[k] = Follow(q[k - 1], InFlight(k)'.pred)
    BY <1>12
  <2>2. \A k \in 0 .. Depth' : Slotted(q[k])
    BY <1>14
  <2>3. \A k \in 0 .. (Occupancy' - 1) : q[k].tgt # 0 => InFlight(k + 1)'.ds
    BY <1>16
  <2> QED  BY <1>10, <1>11, <1>13, <1>17, <2>1, <2>2, <2>3 DEF IsPath
<1> QED  BY <1>18

-----------------------------------------------------------------------------
(* The oldest uop and the decode queue over a clock.                       *)

LEMMA HeadInFlight ==
    ASSUME TypeInv
    PROVE  /\ Occupancy >= 1 => InFlight(1) = RobHead /\ RobHead \in RobEntry
           /\ Occupancy >= 2 => InFlight(2) = RobNextHead /\ RobNextHead \in RobEntry
           /\ Occupancy = 0 /\ dq # <<>> => InFlight(1) = dq[1] /\ dq[1] \in Uop
<1>1. head \in R!Ptr /\ Occupancy \in Nat /\ rob \in [Slots -> RobEntry]
  BY Flags DEF TypeInv, TypeOK, RobEntry
<1>2. HeadSlot \in Slots /\ NextSlot \in Slots
  BY <1>1, PtrClosed DEF HeadSlot, NextSlot
<1>3. R!At(head, 0) = HeadSlot /\ R!At(head, 1) = NextSlot
  BY <1>1, CoreAssumption DEF R!At, R!Idx, R!Inc, R!Ptr, HeadSlot, NextSlot
<1>4. Occupancy >= 1 => InFlight(1) = RobHead
  BY <1>1, <1>3 DEF InFlight, RobHead
<1>5. Occupancy >= 2 => InFlight(2) = RobNextHead
  BY <1>1, <1>3 DEF InFlight, RobNextHead
<1>6. RobHead \in RobEntry /\ RobNextHead \in RobEntry
  BY <1>1, <1>2 DEF RobHead, RobNextHead
<1>7. Occupancy = 0 => InFlight(1) = dq[1]
  BY <1>1 DEF InFlight
<1>8. dq # <<>> => dq[1] \in Uop
  <2>1. dq # <<>> => 1 \in 1 .. Len(dq)
    BY Flags
  <2> QED  BY <2>1, ElementOfSeq DEF TypeInv
<1> QED  BY <1>4, <1>5, <1>6, <1>7, <1>8

\* Without allocation and retirement the head stays where it is; a complete one
\* does not change any more.
LEMMA HeadStays ==
    ASSUME TypeInv, UnitsInv, Occupancy >= 1, NEW clr_dq, Buffer(0, 0, FALSE, clr_dq)
    PROVE  /\ Occupancy' = Occupancy /\ Live' = Live
           /\ RobHead'.pc = RobHead.pc
           /\ HeadComplete => HeadComplete' /\ RobHead' = RobHead
<1>1. Fits(0, 0) /\ FALSE \in BOOLEAN /\ NewSlots(tail, 0) = {} /\ FreedSlots(head, 0) = {}
  BY FitsNothing DEF NewSlots, FreedSlots
<1>2. Occupancy' = Occupancy + 0 - 0 /\ Live' = (Live \ {}) \cup {}
  BY <1>1, BufferPointers
<1>3. Occupancy' = Occupancy
  BY <1>2, Flags
<1>4. head' = head
  BY DEF Buffer, R!Move
<1>5. HeadSlot' = HeadSlot /\ HeadSlot \in Slots /\ HeadSlot \in Live
  BY <1>4, PtrClosed, LiveHead DEF HeadSlot, TypeInv, TypeOK
<1>6. rob'[HeadSlot].pc = rob[HeadSlot].pc
  BY <1>1, <1>5, EntryKept
<1>7. ASSUME HeadComplete PROVE HeadComplete' /\ rob'[HeadSlot] = rob[HeadSlot]
  <2>1. HeadSlot \notin Done
    BY <1>5, <1>7 DEF UnitsInv, DividerInv, Done, HeadComplete
  <2>2. rob'[HeadSlot] = rob[HeadSlot]
    BY <1>1, <1>5, <2>1, BufferRob
  <2>3. complete \subseteq complete'
    BY DEF Buffer
  <2> QED  BY <1>5, <1>7, <2>2, <2>3 DEF HeadComplete
<1> QED  BY <1>2, <1>3, <1>5, <1>6, <1>7 DEF RobHead

LEMMA QueueHeadStays ==
    ASSUME TypeInv, dq # <<>>, Decode(0, FALSE)
    PROVE  dq'[1] = dq[1] /\ dq' # <<>>
<1>1. PICK ins \in Offers : dq' = SubSeq(dq, 0 + 1, Len(dq)) \o SubSeq(ins, 1, Accepted(ins))
  BY DEF Decode
<1>2. 0 \in 0 .. 2 /\ Len(dq) >= 1 /\ Len(dq) \in Nat /\ 0 <= Len(dq) /\ Accepted(ins) \in 0 .. 2
  BY Flags, AcceptedFits
<1>3. /\ Len(dq') = Len(dq) - 0 + Accepted(ins)
      /\ \A j \in 1 .. (Len(dq) - 0) : dq'[j] = dq[j + 0]
  BY <1>1, <1>2, DecodeElements
<1>4. Len(dq') >= 1 /\ 1 \in 1 .. (Len(dq) - 0)
  BY <1>2, <1>3
<1>5. dq'[1] = dq[1]
  BY <1>3, <1>4
<1> QED  BY <1>4, <1>5

\* With no request anywhere none appears, and nothing is acknowledged.
NoRequest == ~restart_valid /\ ~fe.req /\ ~got_ack /\ ~fe.ack

LEMMA NoRequestClock ==
    ASSUME TypeInv, NoRequest, state # "ACTIVE", NoRestart,
           NEW na, NEW nr, NEW clr_rob, NEW clr_dq, Pipeline(na, nr, clr_rob, clr_dq)
    PROVE  NoRequest'
<1>1. FetchStep(FetchCursor, fe') /\ (got_ack' <=> got_ack \/ fe.ack)
  BY IdleFetch
<1>2. ~NextReq
  BY DEF NoRequest, NextReq
<1>3. ~fe'.ack /\ ~fe'.req
  BY <1>1, <1>2, FetchProtocol
<1>4. ~restart_valid'
  BY DEF NoRestart
<1> QED  BY <1>1, <1>3, <1>4 DEF NoRequest

\* While no flush is on, none is pending in the fetch engine.
LEMMA NoFlushPending ==
    ASSUME FlushInv, state \notin {"MONITOR_FLUSH_CACHE", "WRITE_EPC", "WRITE_CAUSE", "FLUSH_FOR_HALT"}
    PROVE  ~NextFlush
BY DEF FlushInv, Asked, FeQuiet, NextFlush

-----------------------------------------------------------------------------
(* Where the core, the fetch engine and the simulator stand, state by      *)
(* state of the machine.                                                   *)

Recoveries == {"DRAIN", "EXCEPTION_DRAIN", "RAT"}
Serials == {"ALLOC_FOR_SERIALIZE", "MONITOR_FLUSH_CACHE", "HANDLE_MONITOR", "ALLOC_FOR_MONITOR"}
Waits == {"WAIT_FOR_SERIALIZE_AND_RESTART", "WAIT_FOR_MONITOR"}

BreakLive == \E i \in Live : Op(rob[i].pc) = "break"

\* ACTIVE: the uops in flight are the path, unless a break is about to stop
\* the machine.
OnPath ==
    /\ NextReq => FetchCursor = Fresh(restart_pc)
    /\ \A i \in Live : Op(rob[i].pc) \notin Monitors
    /\ \E p : IsPath(p)
AtBreak == RobHead.pc = arch.pc /\ arch.tgt = 0
ActiveInv == ActiveFetch /\ (BreakLive => AtBreak) /\ (~BreakLive => OnPath)

\* Recovery: the restart goes to where the simulator is, once the delay slot of
\* the faulted branch has retired or been nullified.
RecoverInv ==
    /\ Recovering
    /\ state = "RAT" => ~restart_valid
    /\ ds_done => arch = Fresh(restart_pc)
    /\ ~ds_done => slot.has
    /\ ~ds_done /\ slot.null => ~slot.take /\ arch = Fresh(restart_pc)
    /\ ~ds_done /\ ~slot.null => /\ RobHead.pc = arch.pc /\ Plain(Op(arch.pc))
                                 /\ Follow(arch, FALSE) = Fresh(restart_pc)

\* A serializing uop is next.
SerialInv ==
    /\ NoRequest
    /\ dq[1].pc = arch.pc /\ arch.tgt = 0
    /\ state = "ALLOC_FOR_SERIALIZE" => Op(arch.pc) \in {"mfc0", "break"}
    /\ state # "ALLOC_FOR_SERIALIZE" => Op(arch.pc) \in Monitors

\* It is alone in the reorder buffer; the restart behind it, once requested, is
\* requested again in every clock.
WaitInv ==
    /\ Occupancy = 1 /\ RobHead.pc = arch.pc /\ arch.tgt = 0
    /\ state = "WAIT_FOR_SERIALIZE_AND_RESTART" => Op(arch.pc) \in {"mfc0", "break"}
    /\ state = "WAIT_FOR_MONITOR" => Op(arch.pc) \in Monitors
    /\ ~got_ack
    /\ \/ NoRequest
       \/ restart_valid /\ HeadComplete /\ restart_pc = TargetPC(RobHead)
          /\ (fe.ack => FetchCursor = Fresh(restart_pc))

\* On the way to HALT the fetch engine comes to rest.
HaltInv ==
    /\ ~restart_valid /\ ~fe.req
    /\ state = "FLUSH_FOR_HALT" /\ (fe.done \/ l1i_flushed) => fe.st = "IDLE"
    /\ state = "HALT" => fe.st = "IDLE"

\* The host's restart has been requested, or served just now.
ResumeInv ==
    /\ RobEmpty /\ dq = <<>> /\ ~fe.req /\ arch = Fresh(restart_pc)
    /\ \/ fe.st = "IDLE" /\ restart_valid
       \/ fe.st = "ACTIVE" /\ ~restart_valid /\ fe.ack /\ FetchCursor = Fresh(restart_pc)

PathInv ==
    /\ state = "ACTIVE" => ActiveInv
    /\ state \in Recoveries => RecoverInv
    /\ state \in Serials => SerialInv
    /\ state \in Waits => WaitInv
    /\ state \in Stopped => HaltInv
    /\ state = "HALT_WAIT_FOR_RESTART" => ResumeInv

\* The whole inductive invariant.
CoreInv == HostInv /\ AckInv /\ EntryInv /\ PathInv /\ matched

\* A path begins with nothing in flight.
StartsFresh ==
    /\ Occupancy = 0 /\ dq = <<>> /\ fe.st = "ACTIVE" /\ ~fe.req
    /\ arch = Fresh(restart_pc) /\ FetchCursor = Fresh(restart_pc)
    /\ restart_valid => fe.gap # 0

LEMMA StartsOnPath == TypeInv /\ StartsFresh => ActiveInv
<1> SUFFICES ASSUME TypeInv, StartsFresh PROVE ActiveInv
  OBVIOUS
<1>1. Live = {} /\ ~BreakLive
  BY LiveHead DEF StartsFresh, BreakLive
<1>2. ActiveFetch
  BY DEF StartsFresh, ActiveFetch, NextReq
<1>3. Depth = 0 /\ Occupancy = 0
  <2>1. Len(dq) = 0
    BY DEF StartsFresh
  <2> QED  BY <2>1 DEF StartsFresh, Depth
<1>4. arch \in Cursor /\ FetchCursor = arch /\ arch.tgt = 0
  BY DEF TypeInv, TypeOK, Cursor, StartsFresh, Fresh
<1>5. PICK p : p = [k \in 0 .. 0 |-> arch]
  OBVIOUS
<1>6. IsPath(p)
  <2>1. p \in [0 .. Depth -> Cursor] /\ p[0] = arch
    BY <1>3, <1>4, <1>5
  <2>2. \A k \in 0 .. Depth : p[k] = arch
    BY <1>3, <1>5
  <2>3. Slotted(arch)
    BY <1>4 DEF Slotted
  <2>4. \A k \in 1 .. Depth : FALSE
    BY <1>3
  <2>5. \A k \in 0 .. (Occupancy - 1) : FALSE
    BY <1>3
  <2> QED  BY <1>3, <1>4, <2>1, <2>2, <2>3, <2>4, <2>5 DEF IsPath
<1>7. OnPath
  BY <1>1, <1>6 DEF OnPath, StartsFresh
<1> QED  BY <1>1, <1>2, <1>7 DEF ActiveInv

LEMMA PathCases ==
    /\ state = "ACTIVE" /\ ActiveInv => PathInv
    /\ state \in Recoveries /\ RecoverInv => PathInv
    /\ state \in Serials /\ SerialInv => PathInv
    /\ state \in Waits /\ WaitInv => PathInv
    /\ state \in Stopped /\ HaltInv => PathInv
    /\ state = "HALT_WAIT_FOR_RESTART" /\ ResumeInv => PathInv
BY DEF PathInv, Recoveries, Serials, Waits, Stopped

LEMMA PathCasesNext ==
    /\ state' = "ACTIVE" /\ ActiveInv' => PathInv'
    /\ state' \in Recoveries /\ RecoverInv' => PathInv'
    /\ state' \in Serials /\ SerialInv' => PathInv'
    /\ state' \in Waits /\ WaitInv' => PathInv'
    /\ state' \in Stopped /\ HaltInv' => PathInv'
    /\ state' = "HALT_WAIT_FOR_RESTART" /\ ResumeInv' => PathInv'
BY DEF PathInv, Recoveries, Serials, Waits, Stopped

LEMMA StartsNext == ASSUME TypeInv', StartsFresh', state' = "ACTIVE" PROVE PathInv'
<1>1. ActiveInv'
  BY StartsOnPath, PTL
<1> QED  BY <1>1, PathCasesNext

LEMMA RetireFacts ==
    /\ Retire(0) => arch' = arch /\ matched'
    /\ Retire(1) => arch' = Executes(arch, RobHead.take) /\ (matched' <=> RobHead.pc = arch.pc)
    /\ Retire(2) => /\ arch' = Executes(Executes(arch, RobHead.take), RobNextHead.take)
                    /\ matched' <=> /\ RobHead.pc = arch.pc
                                    /\ RobNextHead.pc = Executes(arch, RobHead.take).pc
<1> DEFINE one == Executes(arch, RobHead.take)
           two == Executes(one, RobNextHead.take)
           A == RobHead.pc = arch.pc
           B == RobNextHead.pc = one.pc
<1>1. ASSUME NEW nr, Retire(nr)
      PROVE  /\ arch' = IF nr = 0 THEN arch ELSE IF nr = 1 THEN one ELSE two
             /\ matched' <=> (nr >= 1 => A) /\ (nr = 2 => B)
  BY <1>1, Zenon DEF Retire
<1> HIDE DEF one, two, A, B
<1>2. Retire(0) => arch' = arch /\ matched'
  BY <1>1
<1>3. Retire(1) => arch' = one /\ (matched' <=> A)
  BY <1>1
<1>4. Retire(2) => arch' = two /\ (matched' <=> A /\ B)
  BY <1>1
<1> QED  BY <1>2, <1>3, <1>4 DEF one, two, A, B

\* What the parts of the invariant say in the states outside ACTIVE.
LEMMA OutsideActive ==
    ASSUME CoreInv, state # "ACTIVE"
    PROVE  /\ TypeInv /\ FsmShape /\ ShapeInv /\ UnitsInv /\ FlushInv /\ BreakInv /\ AckInv
           /\ state \in Recoveries => RecoverInv
           /\ state \in Serials => SerialInv
           /\ state \in Waits => WaitInv
           /\ state \in Stopped => HaltInv
           /\ state = "HALT_WAIT_FOR_RESTART" => ResumeInv
BY DEF CoreInv, HostInv, ShapeInv, PathInv

LEMMA DrainPath == ASSUME CoreInv, Drain PROVE PathInv' /\ matched'
<1>1. state = "DRAIN" /\ state # "ACTIVE" /\ state \in Recoveries
  BY DEF Drain, Recoveries
<1>2. TypeInv /\ FsmShape /\ UnitsInv /\ AckInv /\ FlushInv /\ RecoverInv
  BY <1>1, OutsideActive
<1>3. ~NextFlush
  BY <1>1, <1>2, NoFlushPending
<1> DEFINE ends == HeadComplete /\ ~ds_done /\ (slot.null \/ slot.has)
           nr == IF ends /\ (slot.null => slot.take) THEN 1 ELSE 0
<1>4. /\ Pipeline(0, nr, FALSE, FALSE) /\ Retire(nr)
      /\ ds_done' <=> ds_done \/ ends
      /\ state' = IF ds_done /\ Drained THEN "RAT" ELSE "DRAIN"
      /\ NoRestart /\ slot' = slot
  BY Zenon DEF Drain
<1>5. Recovering' /\ ~restart_valid' /\ restart_pc' = restart_pc
  BY <1>1, <1>2, <1>3, <1>4, RecoveryClock DEF RecoverInv, NoRestart
<1>6. state' \in Recoveries /\ (state' = "RAT" => ds_done)
  BY <1>4 DEF Recoveries
<1>7. CASE nr = 1
  <2>1. ends /\ ~slot.null
    BY <1>2, <1>7 DEF RecoverInv
  <2>2. RobHead.pc = arch.pc /\ Plain(Op(arch.pc)) /\ Follow(arch, FALSE) = Fresh(restart_pc)
    BY <1>2, <2>1 DEF RecoverInv
  <2>3. arch' = Executes(arch, RobHead.take) /\ matched'
    BY <1>4, <1>7, <2>2, RetireFacts
  <2>4. Executes(arch, RobHead.take) = Follow(arch, RobHead.take)
    BY <2>2 DEF Executes, Plain, Serializing
  <2>5. Follow(arch, RobHead.take) = Follow(arch, FALSE)
    BY <2>2 DEF Follow, Plain
  <2>6. ds_done' /\ arch' = Fresh(restart_pc')
    BY <1>4, <1>5, <2>1, <2>2, <2>3, <2>4, <2>5
  <2>7. RecoverInv'
    BY <1>5, <2>6 DEF RecoverInv
  <2> QED  BY <1>6, <2>3, <2>7, PathCasesNext
<1>8. CASE nr = 0
  <2>1. arch' = arch /\ matched'
    BY <1>4, <1>8, RetireFacts
  <2>2. CASE ds_done'
    <3>1. arch = Fresh(restart_pc)
      BY <1>2, <1>4, <1>8, <2>2 DEF RecoverInv
    <3>2. arch' = Fresh(restart_pc')
      BY <1>5, <2>1, <3>1
    <3>3. RecoverInv'
      BY <1>5, <2>2, <3>2 DEF RecoverInv
    <3> QED  BY <1>6, <2>1, <3>3, PathCasesNext
  <2>3. CASE ~ds_done'
    <3>1. ~ds_done /\ ~ends
      BY <1>4, <2>3
    <3>2. Occupancy >= 1
      BY <1>1, <1>2, <3>1, Flags DEF FsmShape, HeadIsLive
    <3>3. RobHead'.pc = RobHead.pc
      BY <1>2, <1>4, <1>8, <3>2, HeadStays DEF Pipeline
    <3>4. RecoverInv'
      <4>1. /\ slot.has
            /\ slot.null => ~slot.take /\ arch = Fresh(restart_pc)
            /\ ~slot.null => /\ RobHead.pc = arch.pc /\ Plain(Op(arch.pc))
                             /\ Follow(arch, FALSE) = Fresh(restart_pc)
        BY <1>2, <3>1 DEF RecoverInv
      <4> QED  BY <1>4, <1>5, <1>6, <2>1, <2>3, <3>1, <3>3, <4>1 DEF RecoverInv
    <3> QED  BY <1>6, <2>1, <3>4, PathCasesNext
  <2> QED  BY <2>2, <2>3
<1>9. nr = 1 \/ nr = 0
  OBVIOUS
<1> QED  BY <1>7, <1>8, <1>9

LEMMA ExceptionDrainPath == ASSUME CoreInv, ExceptionDrain PROVE PathInv' /\ matched'
<1>1. state = "EXCEPTION_DRAIN" /\ state # "ACTIVE" /\ state \in Recoveries
  BY DEF ExceptionDrain, Recoveries
<1>2. TypeInv /\ FsmShape /\ AckInv /\ FlushInv /\ RecoverInv /\ ~NextFlush
  BY <1>1, OutsideActive, NoFlushPending
<1>3. /\ Pipeline(0, 0, FALSE, FALSE) /\ Retire(0) /\ NoRestart /\ ds_done' = ds_done
      /\ state' \in Recoveries
  BY DEF ExceptionDrain, Recoveries
<1>4. Recovering' /\ ~restart_valid' /\ restart_pc' = restart_pc /\ arch' = arch /\ matched'
  BY <1>1, <1>2, <1>3, RecoveryClock, RetireFacts DEF RecoverInv, NoRestart
<1>5. ds_done /\ arch = Fresh(restart_pc)
  BY <1>1, <1>2 DEF FsmShape, RecoverInv
<1>6. RecoverInv'
  BY <1>3, <1>4, <1>5 DEF RecoverInv
<1> QED  BY <1>3, <1>4, <1>6, PathCasesNext

LEMMA RatPath == ASSUME CoreInv, ShapeInv', Rat PROVE PathInv' /\ matched'
<1>1. state = "RAT" /\ state # "ACTIVE" /\ state \in Recoveries
  BY DEF Rat, Recoveries
<1>2. TypeInv /\ FsmShape /\ AckInv /\ FlushInv /\ RecoverInv /\ ~NextFlush /\ TypeInv'
  BY <1>1, OutsideActive, NoFlushPending DEF ShapeInv
<1>3. /\ Pipeline(0, 0, TRUE, TRUE) /\ Retire(0) /\ NoRestart
      /\ state' = IF GotAck THEN "ACTIVE" ELSE "RAT"
      /\ ds_done' <=> ds_done /\ ~GotAck
  BY Zenon DEF Rat
<1>4. Recovering' /\ ~restart_valid' /\ restart_pc' = restart_pc /\ arch' = arch /\ matched'
  BY <1>1, <1>2, <1>3, RecoveryClock, RetireFacts DEF RecoverInv, NoRestart
<1>5. ds_done /\ arch = Fresh(restart_pc) /\ ~restart_valid
  BY <1>1, <1>2 DEF FsmShape, RecoverInv
<1>6. CASE ~GotAck
  <2>1. RecoverInv' /\ state' \in Recoveries
    BY <1>3, <1>4, <1>5, <1>6 DEF RecoverInv, Recoveries
  <2> QED  BY <1>4, <2>1, PathCasesNext
<1>7. CASE GotAck
  <2>1. ~fe.req /\ FetchCursor = Fresh(restart_pc) /\ fe.st = "ACTIVE" /\ ~NextReq
    BY <1>2, <1>5, <1>7 DEF GotAck, RecoverInv, Recovering, NextReq
  <2>2. Stays(FetchCursor)
    BY <1>1, <1>2, <1>3, <2>1, IdleFetch, FetchProtocol
  <2>3. fe'.st = "ACTIVE" /\ ~fe'.req /\ FetchCursor' = Fresh(restart_pc')
    BY <1>4, <2>1, <2>2 DEF Stays, FetchCursor, Fresh
  <2>4. dq' = <<>>
    BY <1>3, Zenon DEF Pipeline, Decode
  <2>5. Occupancy' = 0
    BY <1>2, <1>3, FitsNothing, BufferPointers DEF Pipeline
  <2>6. StartsFresh'
    BY <1>4, <1>5, <2>3, <2>4, <2>5 DEF StartsFresh
  <2> QED  BY <1>2, <1>3, <1>4, <1>7, <2>6, StartsNext
<1> QED  BY <1>6, <1>7

\* The serializing uop waits at the front of the decode queue.
LEMMA SerialClock ==
    ASSUME CoreInv, state \in Serials, Pipeline(0, 0, FALSE, FALSE), Retire(0), NoRestart,
           state = "ALLOC_FOR_SERIALIZE" <=> state' = "ALLOC_FOR_SERIALIZE", state' \in Serials
    PROVE  PathInv' /\ matched'
<1>1. TypeInv /\ FsmShape /\ SerialInv /\ state # "ACTIVE"
  BY OutsideActive DEF Serials
<1>2. NoRequest' /\ arch' = arch /\ matched'
  BY <1>1, NoRequestClock, RetireFacts DEF SerialInv
<1>3. dq'[1] = dq[1]
  BY <1>1, QueueHeadStays DEF FsmShape, Serials, Pipeline
<1>4. SerialInv'
  BY <1>1, <1>2, <1>3 DEF SerialInv
<1> QED  BY <1>2, <1>4, PathCasesNext

LEMMA MonitorPath ==
    ASSUME CoreInv, MonitorFlushCache \/ HandleMonitor
    PROVE  PathInv' /\ matched'
<1>1. CASE HandleMonitor
  <2>1. /\ state = "HANDLE_MONITOR" /\ Pipeline(0, 0, FALSE, FALSE) /\ Retire(0) /\ NoRestart
        /\ state' \in {"HANDLE_MONITOR", "ALLOC_FOR_MONITOR"}
    BY <1>1 DEF HandleMonitor
  <2>2. state \in Serials /\ state' \in Serials /\ state # "ALLOC_FOR_SERIALIZE" /\ state' # "ALLOC_FOR_SERIALIZE"
    BY <2>1 DEF Serials
  <2> QED  BY <2>1, <2>2, SerialClock
<1>2. CASE MonitorFlushCache
  <2>1. /\ state = "MONITOR_FLUSH_CACHE" /\ Pipeline(0, 0, FALSE, FALSE) /\ Retire(0) /\ NoRestart
        /\ state' \in {"MONITOR_FLUSH_CACHE", "HANDLE_MONITOR"}
    BY <1>2 DEF MonitorFlushCache, FlushWait
  <2>2. state \in Serials /\ state' \in Serials /\ state # "ALLOC_FOR_SERIALIZE" /\ state' # "ALLOC_FOR_SERIALIZE"
    BY <2>1 DEF Serials
  <2> QED  BY <2>1, <2>2, SerialClock
<1> QED  BY <1>1, <1>2

\* It is allocated, alone.
LEMMA AllocAlonePath ==
    ASSUME CoreInv, ShapeInv', AllocForSerialize \/ AllocForMonitor
    PROVE  PathInv' /\ matched'
<1>1. /\ state \in {"ALLOC_FOR_SERIALIZE", "ALLOC_FOR_MONITOR"}
      /\ NoRestart
  BY DEF AllocForSerialize, AllocForMonitor
<1>2. TypeInv /\ ShapeInv /\ FsmShape /\ UnitsInv /\ SerialInv /\ state # "ACTIVE"
  BY <1>1, OutsideActive DEF Serials
<1>3. RobEmpty /\ dq # <<>> /\ AllocAlone = {1}
  BY <1>1, <1>2 DEF FsmShape, AllocAlone
<1>4. /\ Pipeline(1, 0, FALSE, FALSE) /\ Retire(0)
      /\ state' = IF state = "ALLOC_FOR_SERIALIZE" THEN "WAIT_FOR_SERIALIZE_AND_RESTART" ELSE "WAIT_FOR_MONITOR"
  BY <1>1, <1>3 DEF AllocForSerialize, AllocForMonitor
<1>5. NoRequest' /\ arch' = arch /\ matched'
  BY <1>1, <1>2, <1>4, NoRequestClock, RetireFacts DEF SerialInv
<1>6. Occupancy = 0 /\ Len(dq) >= 1 /\ ROB_ENTRIES >= 2 /\ ROB_ENTRIES \in Nat /\ Len(dq) \in Nat
  BY <1>2, <1>3, Flags
<1>7. Fits(1, 0)
  BY <1>6 DEF Fits, Occupancy
<1>8. Occupancy' = 1
  <2>1. Occupancy' = Occupancy + 1 - 0
    BY <1>2, <1>4, <1>7, BufferPointers DEF Pipeline
  <2> QED  BY <1>6, <2>1
<1>9. RobHead'.pc = dq[1].pc
  <2>1. rob'[R!Idx(tail)].pc = dq[1].pc
    <3>1. PICK na : na = 1
      OBVIOUS
    <3>2. Fits(na, 0) /\ Buffer(na, 0, FALSE, FALSE)
      BY <1>4, <1>7, <3>1, Zenon DEF Pipeline
    <3>3. na >= 1
      BY <3>1
    <3> QED  BY <1>2, <3>2, <3>3, EntryWritten
  <2>2. head' = head
    BY <1>4 DEF Pipeline, Buffer, R!Move
  <2>3. head = tail
    BY <1>3 DEF RobEmpty, R!IsEmpty
  <2> QED  BY <2>1, <2>2, <2>3 DEF RobHead, HeadSlot
<1>10. WaitInv'
  BY <1>1, <1>2, <1>4, <1>5, <1>8, <1>9 DEF WaitInv, SerialInv, NoRequest
<1> QED  BY <1>4, <1>5, <1>10, PathCasesNext DEF Waits

\* The clocks in which it waits.
LEMMA WaitClock ==
    ASSUME CoreInv, state \in Waits, state' = state, Pipeline(0, 0, FALSE, HeadComplete), Retire(0),
           HeadComplete => RestartAt(TargetPC(RobHead)) /\ ~GotAck, ~HeadComplete => NoRestart
    PROVE  PathInv' /\ matched'
<1>1. TypeInv /\ UnitsInv /\ WaitInv /\ state # "ACTIVE"
  BY OutsideActive DEF Waits
<1>2. arch' = arch /\ matched'
  BY RetireFacts
<1>3. /\ Occupancy' = 1 /\ RobHead'.pc = RobHead.pc
      /\ HeadComplete => HeadComplete' /\ RobHead' = RobHead
  <2>1. Occupancy = 1 /\ Occupancy >= 1
    BY <1>1 DEF WaitInv
  <2>2. Buffer(0, 0, FALSE, HeadComplete)
    BY DEF Pipeline
  <2> QED  BY <1>1, <2>1, <2>2, HeadStays
<1>4. CASE ~HeadComplete
  <2>1. NoRequest
    BY <1>1, <1>4 DEF WaitInv
  <2>2. NoRequest'
    BY <1>1, <1>4, <2>1, NoRequestClock
  <2>3. WaitInv'
    BY <1>1, <1>2, <1>3, <2>2 DEF WaitInv, NoRequest
  <2> QED  BY <1>2, <2>3, PathCasesNext
<1>5. CASE HeadComplete
  <2>1. ~got_ack /\ ~fe.ack
    BY <1>1, <1>5 DEF GotAck
  <2>2. FetchStep(FetchCursor, fe') /\ (got_ack' <=> got_ack \/ fe.ack)
    BY <1>1, IdleFetch
  <2>3. restart_valid' /\ restart_pc' = TargetPC(RobHead)
    BY <1>5 DEF RestartAt
  <2>4. ASSUME fe'.ack PROVE FetchCursor' = Fresh(restart_pc')
    <3>1. Jumps /\ NextReq
      BY <1>1, <2>2, <2>4, FetchProtocol
    <3>2. restart_pc = TargetPC(RobHead)
      BY <1>1, <3>1 DEF WaitInv, NoRequest, NextReq
    <3> QED  BY <2>3, <3>1, <3>2 DEF Jumps, FetchCursor, Fresh
  <2>5. restart_pc' = TargetPC(RobHead')
    BY <1>3, <1>5, <2>3
  <2>6. WaitInv'
    BY <1>1, <1>2, <1>3, <1>5, <2>1, <2>2, <2>3, <2>4, <2>5 DEF WaitInv
  <2> QED  BY <1>2, <2>6, PathCasesNext
<1> QED  BY <1>4, <1>5

\* The clock in which it has executed and the restart behind it is acknowledged.
LEMMA AckedClock ==
    ASSUME CoreInv, state \in Waits, HeadComplete, GotAck, RestartAt(TargetPC(RobHead)),
           NEW nr, Pipeline(0, nr, FALSE, TRUE)
    PROVE  /\ restart_pc = TargetPC(RobHead) /\ restart_pc' = restart_pc /\ restart_valid'
           /\ fe'.st = "ACTIVE" /\ ~fe'.req /\ fe'.gap = 2
           /\ FetchCursor' = Fresh(restart_pc')
           /\ dq' = <<>>
<1>1. TypeInv /\ AckInv /\ FlushInv /\ WaitInv /\ state # "ACTIVE" /\ ~NextFlush
  BY OutsideActive, NoFlushPending DEF Waits
<1>2. fe.ack /\ restart_valid /\ restart_pc = TargetPC(RobHead)
  BY <1>1 DEF GotAck, WaitInv, NoRequest
<1>3. fe.st = "ACTIVE" /\ fe.gap = 2 /\ NextReq
  BY <1>1, <1>2 DEF AckInv, NextReq
<1>4. Jumps
  <2>1. FetchStep(FetchCursor, fe')
    BY <1>1, IdleFetch
  <2>2. ~(fe.gap = 0)
    BY <1>3
  <2> QED  BY <1>1, <1>3, <2>1, <2>2, FetchProtocol
<1>5. restart_pc' = restart_pc /\ restart_valid'
  BY <1>2 DEF RestartAt
<1>6. dq' = <<>>
  BY Zenon DEF Pipeline, Decode
<1> QED  BY <1>2, <1>4, <1>5, <1>6 DEF Jumps, FetchCursor, Fresh

LEMMA WaitForMonitorPath ==
    ASSUME CoreInv, ShapeInv', WaitForMonitor
    PROVE  PathInv' /\ matched'
<1>1. state = "WAIT_FOR_MONITOR" /\ state \in Waits /\ state # "ACTIVE"
  BY DEF WaitForMonitor, Waits
<1>2. TypeInv /\ WaitInv /\ TypeInv'
  BY <1>1, OutsideActive DEF ShapeInv
<1>3. /\ HeadComplete => RestartAt(TargetPC(RobHead))
      /\ ~HeadComplete => NoRestart
  BY DEF WaitForMonitor
<1> DEFINE nr == IF HeadComplete /\ GotAck THEN 1 ELSE 0
<1>6. /\ Pipeline(0, nr, FALSE, HeadComplete) /\ Retire(nr)
      /\ state' = IF nr = 1 THEN "ACTIVE" ELSE "WAIT_FOR_MONITOR"
  BY Zenon DEF WaitForMonitor
<1>4. CASE ~(HeadComplete /\ GotAck)
  <2>1. Pipeline(0, 0, FALSE, HeadComplete) /\ Retire(0) /\ state' = "WAIT_FOR_MONITOR"
    <3>1. nr = 0
      BY <1>4
    <3> HIDE DEF nr
    <3>2. Pipeline(0, 0, FALSE, HeadComplete) /\ Retire(0)
      BY <1>6, <3>1, Zenon
    <3>3. state' = "WAIT_FOR_MONITOR"
      BY <1>6, <3>1
    <3> QED  BY <3>2, <3>3
  <2> QED  BY <1>1, <1>3, <1>4, <2>1, WaitClock
<1>5. CASE HeadComplete /\ GotAck
  <2>1. Pipeline(0, 1, FALSE, HeadComplete) /\ Retire(1) /\ state' = "ACTIVE"
    BY <1>5, <1>6
  <2>2. Pipeline(0, 1, FALSE, TRUE)
    <3>1. HeadComplete = TRUE
      BY <1>5 DEF HeadComplete
    <3> QED  BY <2>1, <3>1, Zenon
  <2>3. /\ restart_pc = TargetPC(RobHead) /\ restart_pc' = restart_pc
        /\ fe'.st = "ACTIVE" /\ ~fe'.req /\ fe'.gap = 2
        /\ FetchCursor' = Fresh(restart_pc') /\ dq' = <<>>
    BY <1>1, <1>3, <1>5, <2>2, AckedClock
  <2>4. Occupancy = 1 /\ RobHead.pc = arch.pc /\ arch.tgt = 0 /\ Op(arch.pc) \in Monitors
    BY <1>1, <1>2 DEF WaitInv
  <2>5. arch' = Executes(arch, RobHead.take) /\ matched'
    BY <2>1, <2>4, RetireFacts
  <2>6. arch' = Fresh(restart_pc')
    BY <2>3, <2>4, <2>5 DEF Executes, TargetPC, Fresh, Monitors, HasDelaySlot
  <2>7. Occupancy' = 0
    <3>1. Fits(0, 1)
      BY <1>2, <2>4, Flags DEF Fits, Occupancy
    <3>2. Occupancy' = Occupancy + 0 - 1
      BY <1>2, <2>2, <3>1, BufferPointers DEF Pipeline
    <3> QED  BY <2>4, <3>2
  <2>8. StartsFresh'
    BY <2>3, <2>6, <2>7 DEF StartsFresh
  <2> QED  BY <1>2, <2>1, <2>5, <2>8, StartsNext
<1> QED  BY <1>4, <1>5

\* Behind an mfc0 the path goes on at the next word.
OneUop ==
    /\ Occupancy = 1 /\ dq = <<>> /\ RobHead.pc = arch.pc /\ arch.tgt = 0
    /\ Op(arch.pc) \in {"mfc0", "break"}
    /\ restart_pc = TargetPC(RobHead) /\ FetchCursor = Fresh(restart_pc)
    /\ fe.st = "ACTIVE" /\ fe.gap = 2

LEMMA OneUopOnPath == TypeInv /\ OneUop => ActiveInv
<1> SUFFICES ASSUME TypeInv, OneUop PROVE ActiveInv
  OBVIOUS
<1>1. /\ Occupancy = 1 /\ dq = <<>> /\ RobHead.pc = arch.pc /\ arch.tgt = 0
      /\ Op(arch.pc) \in {"mfc0", "break"}
      /\ restart_pc = TargetPC(RobHead) /\ FetchCursor = Fresh(restart_pc)
  BY DEF OneUop
<1>2. ActiveFetch
  BY DEF OneUop, ActiveFetch
<1>3. \A i \in Live : Op(rob[i].pc) = Op(arch.pc)
  BY <1>1, LiveHead DEF RobHead
<1>4. HeadSlot \in Live
  BY <1>1, LiveHead
<1>5. CASE Op(arch.pc) = "break"
  <2>1. BreakLive
    BY <1>3, <1>4, <1>5 DEF BreakLive
  <2> QED  BY <1>1, <1>2, <2>1 DEF ActiveInv, AtBreak
<1>6. CASE Op(arch.pc) = "mfc0"
  <2>1. ~BreakLive /\ \A i \in Live : Op(rob[i].pc) \notin Monitors
    BY <1>3, <1>6 DEF BreakLive, Monitors
  <2>2. Depth = 1 /\ InFlight(1) = RobHead
    <3>1. Len(dq) = 0
      BY <1>1
    <3> QED  BY <1>1, <3>1, HeadInFlight DEF Depth
  <2>3. arch \in Cursor /\ FetchCursor \in Cursor /\ FetchCursor.tgt = 0
    BY <1>1 DEF TypeInv, TypeOK, Cursor, FetchCursor, Fresh
  <2>4. FetchCursor = Follow(arch, RobHead.pred)
    BY <1>1, <1>6 DEF Follow, TargetPC, Fresh, HasDelaySlot, Monitors, Nullifying
  <2>5. PICK p : p = [k \in 0 .. 1 |-> IF k = 0 THEN arch ELSE FetchCursor]
    OBVIOUS
  <2>6. p \in [0 .. Depth -> Cursor] /\ p[0] = arch /\ p[1] = FetchCursor
    BY <2>2, <2>3, <2>5
  <2>7. Slotted(arch) /\ Slotted(FetchCursor)
    BY <1>1, <2>3 DEF Slotted
  <2>8. \A k \in 1 .. Depth : k = 1
    BY <2>2
  <2>9. \A k \in 0 .. Depth : k = 0 \/ k = 1
    BY <2>2
  <2>10. \A k \in 0 .. (Occupancy - 1) : k = 0
    BY <1>1
  <2>11. IsPath(p)
    <3>1. \A k \in 1 .. Depth : InFlight(k).pc = p[k - 1].pc /\ p[k] = Follow(p[k - 1], InFlight(k).pred)
      <4>1. InFlight(1).pc = p[1 - 1].pc /\ p[1] = Follow(p[1 - 1], InFlight(1).pred)
        <5>1. 1 - 1 = 0
          OBVIOUS
        <5> QED  BY <1>1, <2>2, <2>4, <2>6, <5>1
      <4> QED  BY <2>8, <4>1
    <3>2. \A k \in 0 .. Depth : Slotted(p[k])
      BY <2>6, <2>7, <2>9
    <3>3. \A k \in 0 .. (Occupancy - 1) : p[k].tgt = 0
      BY <1>1, <2>6, <2>10
    <3> QED  BY <1>1, <2>2, <2>3, <2>6, <3>1, <3>2, <3>3 DEF IsPath
  <2>12. OnPath
    BY <1>1, <2>1, <2>11 DEF OnPath
  <2> QED  BY <1>2, <2>1, <2>12 DEF ActiveInv
<1> QED  BY <1>1, <1>5, <1>6

LEMMA WaitForSerializePath ==
    ASSUME CoreInv, ShapeInv', WaitForSerialize
    PROVE  PathInv' /\ matched'
<1>1. state = "WAIT_FOR_SERIALIZE_AND_RESTART" /\ state \in Waits /\ state # "ACTIVE"
  BY DEF WaitForSerialize, Waits
<1>2. TypeInv /\ UnitsInv /\ WaitInv /\ TypeInv'
  BY <1>1, OutsideActive DEF ShapeInv
<1>3. /\ HeadComplete => RestartAt(TargetPC(RobHead))
      /\ ~HeadComplete => NoRestart
      /\ Pipeline(0, 0, FALSE, HeadComplete) /\ Retire(0)
  BY DEF WaitForSerialize
<1>4. CASE ~(HeadComplete /\ GotAck)
  <2>1. state' = "WAIT_FOR_SERIALIZE_AND_RESTART"
    BY <1>4 DEF WaitForSerialize
  <2> QED  BY <1>1, <1>3, <1>4, <2>1, WaitClock
<1>5. CASE HeadComplete /\ GotAck
  <2>1. state' = "ACTIVE" /\ arch' = arch /\ matched'
    BY <1>3, <1>5, RetireFacts DEF WaitForSerialize
  <2>2. Pipeline(0, 0, FALSE, TRUE)
    <3>1. HeadComplete = TRUE
      BY <1>5 DEF HeadComplete
    <3> QED  BY <1>3, <3>1, Zenon
  <2>3. /\ restart_pc = TargetPC(RobHead) /\ restart_pc' = restart_pc
        /\ fe'.st = "ACTIVE" /\ ~fe'.req /\ fe'.gap = 2
        /\ FetchCursor' = Fresh(restart_pc') /\ dq' = <<>>
    BY <1>1, <1>3, <1>5, <2>2, AckedClock
  <2>4. Occupancy = 1 /\ RobHead.pc = arch.pc /\ arch.tgt = 0 /\ Op(arch.pc) \in {"mfc0", "break"}
    BY <1>1, <1>2 DEF WaitInv
  <2>5. Occupancy' = Occupancy /\ RobHead' = RobHead
    <3>1. Occupancy >= 1
      BY <2>4
    <3> QED  BY <1>2, <1>5, <2>2, <3>1, HeadStays DEF Pipeline
  <2>6. OneUop'
    <3>1. restart_pc' = TargetPC(RobHead')
      BY <2>3, <2>5
    <3> QED  BY <2>1, <2>3, <2>4, <2>5, <3>1 DEF OneUop
  <2>7. ActiveInv'
    BY <1>2, <2>6, OneUopOnPath, PTL
  <2> QED  BY <2>1, <2>7, PathCasesNext
<1> QED  BY <1>4, <1>5

\* On the way to HALT.
LEMMA StoppedPath ==
    ASSUME CoreInv, WriteCpr0 \/ FlushForHalt \/ Halt
    PROVE  PathInv' /\ matched'
<1>1. /\ state \in Stopped /\ state' \in Stopped /\ state # "ACTIVE"
      /\ Pipeline(0, 0, FALSE, FALSE) /\ Retire(0) /\ NoRestart
  BY DEF WriteCpr0, FlushForHalt, FlushWait, Halt, Stopped
<1>2. TypeInv /\ FlushInv /\ HaltInv /\ matched'
  BY <1>1, OutsideActive, RetireFacts
<1>3. ~NextReq /\ FetchStep(FetchCursor, fe')
  BY <1>1, <1>2, IdleFetch DEF HaltInv, NextReq
<1>4. /\ ~fe'.req /\ (fe'.done => fe'.st = "IDLE")
      /\ fe.st = "IDLE" => fe'.st = "IDLE"
  BY <1>2, <1>3, FetchProtocol DEF Stays
<1>5. ~restart_valid'
  BY <1>1 DEF NoRestart
<1>6. CASE WriteCpr0
  <2>1. state' \in {"WRITE_CAUSE", "FLUSH_FOR_HALT"} /\ (state' = "FLUSH_FOR_HALT" => state = "WRITE_CAUSE") /\ NoFlush
    BY <1>6 DEF WriteCpr0
  <2>2. l1i_flushed' <=> l1i_flushed \/ fe.done
    BY <2>1, KeptFlags DEF Kept
  <2>3. state = "WRITE_CAUSE" => ~l1i_flushed /\ ~fe.done
    BY <1>2 DEF FlushInv, FlushingEarly
  <2>4. HaltInv'
    BY <1>4, <1>5, <2>1, <2>2, <2>3 DEF HaltInv
  <2> QED  BY <1>1, <1>2, <2>4, PathCasesNext
<1>7. CASE FlushForHalt
  <2>1. /\ state = "FLUSH_FOR_HALT"
        /\ Finished => state' = "HALT"
        /\ ~Finished => state' = "FLUSH_FOR_HALT" /\ Kept
    BY <1>7, WaitFacts DEF FlushForHalt
  <2>2. CASE Finished
    <3>1. fe.st = "IDLE"
      BY <1>2, <2>1, <2>2 DEF HaltInv, Finished
    <3>2. HaltInv'
      BY <1>4, <1>5, <2>1, <2>2, <3>1 DEF HaltInv
    <3> QED  BY <1>1, <1>2, <3>2, PathCasesNext
  <2>3. CASE ~Finished
    <3>1. l1i_flushed' <=> l1i_flushed \/ fe.done
      BY <2>1, <2>3 DEF Kept
    <3>2. HaltInv'
      BY <1>2, <1>4, <1>5, <2>1, <2>3, <3>1 DEF HaltInv
    <3> QED  BY <1>1, <1>2, <3>2, PathCasesNext
  <2> QED  BY <2>2, <2>3
<1>8. CASE Halt
  <2>1. state = "HALT" /\ state' = "HALT"
    BY <1>8 DEF Halt
  <2>2. HaltInv'
    BY <1>2, <1>4, <1>5, <2>1 DEF HaltInv
  <2> QED  BY <1>1, <1>2, <2>2, PathCasesNext
<1> QED  BY <1>6, <1>7, <1>8

LEMMA ResumePath == ASSUME CoreInv, BreakInv', Resume PROVE PathInv' /\ matched'
<1>1. /\ state = "HALT" /\ state \in Stopped /\ state # "ACTIVE"
      /\ Pipeline(0, 0, FALSE, TRUE) /\ matched'
      /\ arch' = Fresh(EntryPC) /\ restart_valid' /\ restart_pc' = EntryPC
      /\ state' = "HALT_WAIT_FOR_RESTART"
  BY DEF Resume, RestartAt, Stopped, Fresh
<1>2. TypeInv /\ HaltInv
  BY <1>1, OutsideActive
<1>3. fe.st = "IDLE" /\ ~NextReq
  BY <1>1, <1>2 DEF HaltInv, NextReq
<1>4. FetchStep(FetchCursor, fe')
  BY <1>1, <1>2, IdleFetch
<1>5. fe'.st = "IDLE" /\ ~fe'.req
  BY <1>2, <1>3, <1>4, FetchProtocol DEF Stays
<1>6. dq' = <<>>
  BY <1>1, Zenon DEF Pipeline, Decode
<1>7. RobEmpty'
  BY <1>1 DEF BreakInv
<1>8. ResumeInv'
  BY <1>1, <1>5, <1>6, <1>7 DEF ResumeInv
<1> QED  BY <1>1, <1>8, PathCasesNext

LEMMA HaltWaitPath == ASSUME CoreInv, ShapeInv', HaltWaitForRestart PROVE PathInv' /\ matched'
<1>1. /\ state = "HALT_WAIT_FOR_RESTART" /\ state # "ACTIVE"
      /\ Pipeline(0, 0, FALSE, FALSE) /\ Retire(0) /\ NoRestart
      /\ state' = IF GotAck THEN "ACTIVE" ELSE "HALT_WAIT_FOR_RESTART"
  BY DEF HaltWaitForRestart
<1>2. TypeInv /\ AckInv /\ FlushInv /\ ResumeInv /\ matched' /\ arch' = arch /\ ~NextFlush /\ TypeInv'
  BY <1>1, OutsideActive, RetireFacts, NoFlushPending DEF ShapeInv
<1>3. FetchStep(FetchCursor, fe') /\ ~restart_valid' /\ restart_pc' = restart_pc
  BY <1>1, <1>2, IdleFetch DEF NoRestart
<1>4. /\ fe'.st = "ACTIVE" /\ ~fe'.req /\ FetchCursor' = Fresh(restart_pc)
      /\ fe.st = "IDLE" => fe'.ack
      /\ fe.st = "IDLE" \/ fe.ack
  <2>1. CASE fe.st = "IDLE" /\ restart_valid
    <3>1. NextReq
      BY <2>1 DEF NextReq
    <3>2. Jumps
      BY <1>2, <1>3, <2>1, <3>1, FetchProtocol
    <3> QED  BY <2>1, <3>2 DEF Jumps, FetchCursor, Fresh
  <2>2. CASE fe.st = "ACTIVE" /\ ~restart_valid /\ fe.ack /\ FetchCursor = Fresh(restart_pc)
    <3>1. ~NextReq
      BY <1>2, <2>2 DEF NextReq, ResumeInv
    <3>2. Stays(FetchCursor)
      BY <1>2, <1>3, <2>2, <3>1, FetchProtocol
    <3> QED  BY <2>2, <3>1, <3>2 DEF Stays, FetchCursor, Fresh
  <2> QED  BY <1>2, <2>1, <2>2 DEF ResumeInv
<1>5. dq' = <<>>
  <2>1. PICK ins \in Offers : dq' = SubSeq(dq, 0 + 1, Len(dq)) \o SubSeq(ins, 1, Accepted(ins))
    BY <1>1 DEF Pipeline, Decode
  <2>2. fe.st # "ACTIVE" \/ fe.gap # 0
    BY <1>2, <1>4 DEF AckInv
  <2>3. ins = <<>> /\ dq = <<>>
    BY <1>2, <2>2, OffersOnPath DEF ResumeInv
  <2>4. Len(ins) = 0 /\ Len(dq) = 0
    BY <2>3
  <2>5. Accepted(ins) = 0
    BY <2>4 DEF Accepted
  <2>6. Len(dq') = Len(dq) - 0 + Accepted(ins)
    <3>1. 0 \in 0 .. 2 /\ 0 <= Len(dq)
      BY <2>4
    <3> QED  BY <1>2, <2>1, <3>1, DecodeElements
  <2>7. Len(dq') = 0
    BY <2>4, <2>5, <2>6
  <2>8. dq' \in Seq(Uop)
    BY <1>2 DEF TypeInv
  <2> QED  BY <2>7, <2>8, EmptySeq
<1>6. RobEmpty' /\ Occupancy' = 0
  <2>1. Occupancy = 0
    BY <1>2, Flags DEF ResumeInv
  <2>2. Occupancy' = Occupancy + 0 - 0
    BY <1>1, <1>2, FitsNothing, BufferPointers DEF Pipeline
  <2>3. RobEmpty' <=> Occupancy' = 0
    BY <1>1, <1>2, FitsNothing, BufferPointers DEF Pipeline
  <2> QED  BY <2>1, <2>2, <2>3
<1>7. arch = Fresh(restart_pc)
  BY <1>2 DEF ResumeInv
<1>8. CASE GotAck
  <2>1. StartsFresh'
    BY <1>2, <1>3, <1>4, <1>5, <1>6, <1>7 DEF StartsFresh
  <2> QED  BY <1>1, <1>2, <1>8, <2>1, StartsNext
<1>9. CASE ~GotAck
  <2>1. fe.st = "IDLE"
    BY <1>1, <1>4, <1>9 DEF GotAck
  <2>2. ResumeInv'
    BY <1>2, <1>3, <1>4, <1>5, <1>6, <1>7, <2>1 DEF ResumeInv
  <2> QED  BY <1>1, <1>2, <1>9, <2>2, PathCasesNext
<1> QED  BY <1>8, <1>9

-----------------------------------------------------------------------------
(* ACTIVE.                                                                 *)

LEMMA HeadOnPath ==
    ASSUME TypeInv, NEW p, IsPath(p), Occupancy >= 1
    PROVE  /\ RobHead.pc = arch.pc /\ p[1] = Follow(arch, RobHead.pred)
           /\ Slotted(arch) /\ (arch.tgt # 0 => RobHead.ds)
           /\ Occupancy >= 2 => RobNextHead.pc = p[1].pc /\ p[2] = Follow(p[1], RobNextHead.pred)
<1>1. /\ p[0] = arch
      /\ \A k \in 1 .. Depth : InFlight(k).pc = p[k - 1].pc /\ p[k] = Follow(p[k - 1], InFlight(k).pred)
      /\ \A k \in 0 .. Depth : Slotted(p[k])
      /\ \A k \in 0 .. (Occupancy - 1) : p[k].tgt # 0 => InFlight(k + 1).ds
  BY DEF IsPath
<1>2. Occupancy \in Nat /\ Depth \in Nat /\ Depth >= Occupancy
  BY Flags DEF Depth
<1>3. /\ 1 \in 1 .. Depth /\ 0 \in 0 .. Depth /\ 0 \in 0 .. (Occupancy - 1)
      /\ Occupancy >= 2 => 2 \in 1 .. Depth
  BY <1>2
<1>4. /\ InFlight(1).pc = p[1 - 1].pc /\ p[1] = Follow(p[1 - 1], InFlight(1).pred)
      /\ Occupancy >= 2 => InFlight(2).pc = p[2 - 1].pc /\ p[2] = Follow(p[2 - 1], InFlight(2).pred)
  BY <1>1, <1>3
<1>5. p[0].tgt # 0 => InFlight(0 + 1).ds
  BY <1>1, <1>3
<1>6. 1 - 1 = 0 /\ 2 - 1 = 1 /\ 0 + 1 = 1
  OBVIOUS
<1>7. /\ InFlight(1).pc = arch.pc /\ p[1] = Follow(arch, InFlight(1).pred)
      /\ Occupancy >= 2 => InFlight(2).pc = p[1].pc /\ p[2] = Follow(p[1], InFlight(2).pred)
      /\ arch.tgt # 0 => InFlight(1).ds
  BY <1>1, <1>4, <1>5, <1>6
<1>8. Slotted(arch)
  BY <1>1, <1>3
<1> QED  BY <1>7, <1>8, HeadInFlight

\* What the head is known to be in ACTIVE.
LEMMA ActiveHead ==
    ASSUME CoreInv, state = "ACTIVE"
    PROVE  /\ TypeInv /\ ShapeInv /\ UnitsInv /\ FlushInv /\ BreakInv /\ EntryInv /\ ActiveFetch /\ ~NextFlush
           /\ BreakLive => Occupancy = 1 /\ AtBreak /\ RobHead.flt /\ CanRetire /\ Op(RobHead.pc) = "break"
           /\ ~BreakLive => OnPath
           /\ Occupancy >= 1 => /\ RobHead.pc = arch.pc /\ (arch.tgt # 0 => RobHead.ds)
                                /\ RobHead \in RobEntry /\ EntryOK(RobHead, HeadComplete)
                                /\ HeadSlot \in Live
<1>1. /\ TypeInv /\ ShapeInv /\ UnitsInv /\ FlushInv /\ BreakInv /\ EntryInv /\ ActiveFetch /\ ~NextFlush
      /\ BreakLive => AtBreak
      /\ ~BreakLive => OnPath
  BY NoFlushPending DEF CoreInv, HostInv, ShapeInv, PathInv, ActiveInv
<1>2. BreakLive => Occupancy = 1 /\ RobHead.flt /\ CanRetire /\ Op(RobHead.pc) = "break"
  BY <1>1, BreakStops DEF BreakLive, BreakInv
<1>3. ASSUME Occupancy >= 1
      PROVE  /\ RobHead.pc = arch.pc /\ (arch.tgt # 0 => RobHead.ds)
             /\ RobHead \in RobEntry /\ EntryOK(RobHead, HeadComplete) /\ HeadSlot \in Live
  <2>1. HeadSlot \in Live /\ RobHead \in RobEntry
    BY <1>1, <1>3, LiveHead, HeadInFlight
  <2>2. EntryOK(RobHead, HeadComplete)
    BY <1>1, <2>1, Zenon DEF EntryInv, RobHead, HeadComplete
  <2>3. CASE BreakLive
    BY <1>1, <2>1, <2>2, <2>3 DEF AtBreak
  <2>4. CASE ~BreakLive
    <3>1. PICK p : IsPath(p)
      BY <1>1, <2>4 DEF OnPath
    <3> QED  BY <1>1, <1>3, <2>1, <2>2, <3>1, HeadOnPath
  <2> QED  BY <2>3, <2>4
<1> QED  BY <1>1, <1>2, <1>3

\* A uop that completes as predicted goes on along the path.
LEMMA FollowTaken ==
    ASSUME NEW e \in RobEntry, NEW c, c.pc = e.pc, NEW done, done, EntryOK(e, done), ~e.flt,
           Op(e.pc) \notin Monitors
    PROVE  Executes(c, e.take) = Follow(c, e.pred)
<1>1. Executes(c, e.take) = Follow(c, e.take)
  BY DEF Executes
<1>2. CASE Op(e.pc) \notin HasDelaySlot
  BY <1>1, <1>2 DEF Follow
<1>3. CASE Op(e.pc) \in Conditional
  <2>1. e.take = e.pred
    BY <1>3 DEF EntryOK
  <2> QED  BY <1>1, <2>1
<1>4. CASE Op(e.pc) = "j"
  <2>1. e.take /\ e.pred
    BY <1>4 DEF EntryOK, Predicted
  <2> QED  BY <1>1, <2>1 DEF Follow
<1> QED  BY <1>2, <1>3, <1>4 DEF HasDelaySlot, Conditional

\* A clock that stays in ACTIVE and in which the simulator moves along the path.
LEMMA ActiveClock ==
    ASSUME SlotsPlain, CoreInv, state = "ACTIVE", state' = "ACTIVE", NoRestart,
           ~CanRetire \/ ~RobHead.flt,
           NEW na \in AllocCounts, NEW nr, Fits(na, nr), Pipeline(na, nr, FALSE, FALSE),
           NEW p, IsPath(p), arch' = p[nr]
    PROVE  PathInv'
<1>1. /\ TypeInv /\ ShapeInv /\ UnitsInv /\ BreakInv /\ ActiveFetch /\ ~NextFlush
      /\ ~BreakLive /\ OnPath
  BY ActiveHead
<1>2. Buffer(na, nr, FALSE, FALSE) /\ FALSE \in BOOLEAN
  BY DEF Pipeline
<1>3. fe'.st = "ACTIVE" /\ ~fe'.req /\ (fe'.gap # 0 => dq' = <<>>)
  BY <1>1, ActiveFetchClock
<1>4. PICK ins \in Offers :
         /\ dq' = SubSeq(dq, na + 1, Len(dq)) \o SubSeq(ins, 1, Accepted(ins))
         /\ (NextReq => FetchCursor = Fresh(restart_pc)) => FetchCursor' = Moved(ins, Accepted(ins))
  BY <1>1, ActiveFetchClock
<1>5. FetchCursor' = Moved(ins, Accepted(ins))
  BY <1>1, <1>4 DEF OnPath
<1>6. \E q : IsPath(q)'
  BY <1>1, <1>2, <1>4, <1>5, PathMoves
<1>7. ~NextReq'
  BY <1>3 DEF NoRestart, NextReq
<1>8. ActiveFetch'
  BY <1>3, <1>7 DEF ActiveFetch
<1>9. ~BreakLive'
  BY <1>1, NoBreakAllocated DEF BreakLive
<1>10. ASSUME NEW i \in Live' PROVE Op(rob'[i].pc) \notin Monitors
  <2>1. /\ Live' = (Live \ FreedSlots(head, nr)) \cup NewSlots(tail, na)
        /\ NewSlots(tail, na) \subseteq Slots \ Live /\ Live \subseteq Slots
    BY <1>1, <1>2, BufferPointers
  <2>2. CASE i \in NewSlots(tail, na)
    <3>1. rob'[i] = Entry(NewUop(i), NewDs(i)) /\ NewUop(i) \in Uop /\ NewDs(i) \in BOOLEAN
      BY <1>1, <1>2, <2>1, <2>2, BufferRob, NewUopType DEF Fits
    <3>2. rob'[i].pc = NewUop(i).pc
      BY <3>1, NewEntry
    <3>3. /\ na >= 1 => Op(dq[1].pc) \notin Serializing
          /\ na = 2 => Op(dq[2].pc) \notin Serializing
      BY DEF AllocCounts, CanAlloc, CanAllocTwo
    <3>4. Op(NewUop(i).pc) \notin Serializing
      BY <2>2, <3>3 DEF NewSlots, NewUop, AllocCounts
    <3> QED  BY <3>2, <3>4 DEF Serializing
  <2>3. CASE i \notin NewSlots(tail, na)
    <3>1. i \in Live /\ i \in Slots /\ i \notin NewSlots(tail, na) \cup FreedSlots(head, nr)
      BY <1>10, <2>1, <2>3
    <3>2. rob'[i].pc = rob[i].pc
      BY <1>1, <1>2, <3>1, EntryKept
    <3> QED  BY <1>1, <3>1, <3>2 DEF OnPath
  <2> QED  BY <2>2, <2>3
<1>11. OnPath'
  BY <1>6, <1>7, <1>10 DEF OnPath
<1>12. ActiveInv'
  BY <1>8, <1>9, <1>11 DEF ActiveInv
<1> QED  BY <1>12, PathCasesNext

LEMMA AllocatePath ==
    ASSUME SlotsPlain, CoreInv, Allocate
    PROVE  PathInv' /\ matched'
<1>1. PICK na \in AllocCounts : Pipeline(na, 0, FALSE, FALSE)
  BY DEF Allocate
<1>2. state = "ACTIVE" /\ state' = "ACTIVE" /\ ~CanRetire /\ NoRestart /\ Retire(0)
  BY DEF Allocate
<1>3. TypeInv /\ OnPath
  BY <1>2, ActiveHead
<1>4. PICK p : IsPath(p)
  BY <1>3 DEF OnPath
<1>5. Fits(na, 0)
  BY <1>3, AllocFits, Flags DEF Fits, Occupancy
<1>6. arch' = p[0] /\ matched'
  BY <1>2, <1>4, RetireFacts DEF IsPath
<1> QED  BY <1>1, <1>2, <1>4, <1>5, <1>6, ActiveClock

LEMMA GraduatePath ==
    ASSUME SlotsPlain, CoreInv, Graduate
    PROVE  PathInv' /\ matched'
<1> DEFINE nr == IF CanRetireTwo THEN 2 ELSE 1
<1>1. PICK na \in AllocCounts : Pipeline(na, nr, FALSE, FALSE)
  BY DEF Graduate
<1>2. state = "ACTIVE" /\ state' = "ACTIVE" /\ CanRetire /\ ~RobHead.flt /\ NoRestart /\ Retire(nr)
  BY DEF Graduate
<1>3. TypeInv /\ EntryInv /\ ~BreakLive /\ OnPath
  BY <1>2, ActiveHead
<1>4. Occupancy >= 1 /\ HeadComplete
  BY <1>2, <1>3, Flags DEF CanRetire
<1>5. /\ RobHead.pc = arch.pc /\ RobHead \in RobEntry /\ EntryOK(RobHead, HeadComplete)
      /\ HeadSlot \in Live
  BY <1>2, <1>4, ActiveHead
<1>6. PICK p : IsPath(p)
  BY <1>3 DEF OnPath
<1>7. /\ p[1] = Follow(arch, RobHead.pred)
      /\ Occupancy >= 2 => RobNextHead.pc = p[1].pc /\ p[2] = Follow(p[1], RobNextHead.pred)
  BY <1>3, <1>4, <1>6, HeadOnPath
<1>8. nr \in 1 .. 2 /\ nr <= Occupancy /\ (nr = 2 <=> CanRetireTwo)
  BY <1>2, <1>3, RetireFits
<1>9. Executes(arch, RobHead.take) = p[1]
  <2>1. Op(RobHead.pc) \notin Monitors
    BY <1>3, <1>5 DEF OnPath, RobHead
  <2> QED  BY <1>2, <1>4, <1>5, <1>7, <2>1, FollowTaken
<1> HIDE DEF nr
<1>10. Fits(na, nr)
  BY <1>3, <1>8, AllocFits DEF Fits, Occupancy
<1>11. arch' = p[nr] /\ matched'
  <2>1. CASE nr = 1
    <3>1. Retire(1)
      BY <1>2, <2>1
    <3> QED  BY <1>5, <1>9, <2>1, <3>1, RetireFacts
  <2>2. CASE nr = 2
    <3>1. Retire(2)
      BY <1>2, <2>2
    <3>2. ~RobNextHead.flt /\ NextSlot \in complete /\ Occupancy >= 2
      BY <1>8, <2>2, <1>3, Flags DEF CanRetireTwo
    <3>3. NextSlot \in Live
      <4>0. head \in 0 .. (2 * ROB_ENTRIES - 1) /\ ROB_ENTRIES \in Nat /\ ROB_ENTRIES >= 2
        BY <1>3, CoreAssumption DEF TypeInv, TypeOK, R!Ptr
      <4>1. R!At(head, 1) = NextSlot
        BY <4>0 DEF R!At, R!Idx, R!Inc, NextSlot
      <4>2. 1 \in 0 .. (R!Count(head, tail) - 1)
        BY <1>3, <3>2, Flags DEF Occupancy
      <4> QED  BY <4>1, <4>2 DEF Live
    <3>4. RobNextHead \in RobEntry /\ RobNextHead.pc = p[1].pc /\ p[2] = Follow(p[1], RobNextHead.pred)
      BY <1>3, <1>7, <3>2, HeadInFlight
    <3>5. Op(RobNextHead.pc) \notin Monitors /\ EntryOK(RobNextHead, NextSlot \in complete)
      BY <1>3, <3>3 DEF OnPath, EntryInv, RobNextHead
    <3>6. Executes(p[1], RobNextHead.take) = p[2]
      BY <3>2, <3>4, <3>5, FollowTaken
    <3> QED  BY <1>5, <1>9, <2>2, <3>1, <3>4, <3>6, RetireFacts
  <2>3. nr = 1 \/ nr = 2
    BY <1>8
  <2> QED  BY <2>1, <2>2, <2>3
<1> QED  BY <1>1, <1>2, <1>6, <1>10, <1>11, ActiveClock

\* In ACTIVE an acknowledgement is not recorded.
LEMMA NoAckKept ==
    ASSUME state = "ACTIVE", NEW na, NEW nr, NEW clr_rob, NEW clr_dq, Pipeline(na, nr, clr_rob, clr_dq)
    PROVE  ~got_ack'
BY Zenon DEF Pipeline, GotAck

LEMMA SerializePath ==
    ASSUME SlotsPlain, CoreInv, Serialize
    PROVE  PathInv' /\ matched'
<1>1. /\ state = "ACTIVE" /\ ~CanRetire /\ MustSerialize /\ NoRestart
      /\ Pipeline(0, 0, FALSE, FALSE) /\ Retire(0)
  BY DEF Serialize
<1>2. dq # <<>> /\ Op(dq[1].pc) \in Serializing /\ RobEmpty
  BY <1>1 DEF MustSerialize
<1>3. TypeInv /\ ShapeInv /\ ActiveFetch /\ ~NextFlush /\ OnPath /\ Occupancy = 0
  BY <1>1, <1>2, ActiveHead, Flags
<1>4. PICK p : IsPath(p)
  BY <1>3 DEF OnPath
<1>5. dq[1].pc = arch.pc /\ arch.tgt = 0
  <2>1. Depth \in Nat /\ Depth >= 1 /\ 1 \in 1 .. Depth /\ 0 \in 0 .. Depth /\ 1 - 1 = 0
    BY <1>2, <1>3, Flags DEF Depth
  <2>2. InFlight(1) = dq[1]
    BY <1>2, <1>3, HeadInFlight
  <2>3. InFlight(1).pc = p[1 - 1].pc /\ p[0] = arch /\ Slotted(p[0])
    BY <1>4, <2>1 DEF IsPath
  <2>4. dq[1].pc = arch.pc /\ Slotted(arch)
    BY <2>1, <2>2, <2>3
  <2> QED  BY <1>2, <2>4 DEF Slotted, Plain
<1>6. dq'[1] = dq[1] /\ arch' = arch /\ matched' /\ ~got_ack'
  BY <1>1, <1>2, <1>3, QueueHeadStays, RetireFacts, NoAckKept DEF Pipeline
<1>7. ~fe'.req /\ ~fe'.ack
  <2>1. fe.gap = 0
    BY <1>2, <1>3 DEF ActiveFetch
  <2>2. Fits(0, 0)
    BY <1>3, FitsNothing
  <2> QED  BY <1>1, <1>3, <2>1, <2>2, ActiveFetchClock
<1>8. NoRequest'
  BY <1>1, <1>6, <1>7 DEF NoRequest, NoRestart
<1>9. /\ Op(arch.pc) \in {"mfc0", "break"} => state' = "ALLOC_FOR_SERIALIZE"
      /\ Op(arch.pc) \in Monitors => state' \in {"HANDLE_MONITOR", "MONITOR_FLUSH_CACHE"}
      /\ Op(arch.pc) \in {"mfc0", "break"} \/ Op(arch.pc) \in Monitors
  BY <1>2, <1>5 DEF Serialize, Serializing, Monitors
<1>10. SerialInv' /\ state' \in Serials
  BY <1>5, <1>6, <1>8, <1>9 DEF SerialInv, Serials
<1> QED  BY <1>6, <1>10, PathCasesNext

LEMMA InterruptPath ==
    ASSUME SlotsPlain, CoreInv, Interrupt
    PROVE  PathInv' /\ matched'
<1>1. /\ state = "ACTIVE" /\ ~RobEmpty /\ ~RobHead.ds /\ Pipeline(0, 0, FALSE, FALSE) /\ Retire(0)
      /\ state' = "EXCEPTION_DRAIN" /\ ds_done' /\ RestartAt(RobHead.pc)
  BY DEF Interrupt, TakesIrq
<1>2. TypeInv /\ ShapeInv /\ ActiveFetch /\ ~NextFlush
  BY <1>1, ActiveHead
<1>3. Occupancy >= 1
  BY <1>1, <1>2, Flags
<1>4. RobHead.pc = arch.pc /\ arch.tgt = 0
  BY <1>1, <1>3, ActiveHead
<1>5. arch' = arch /\ matched' /\ ~got_ack'
  BY <1>1, RetireFacts, NoAckKept
<1>6. fe'.st = "ACTIVE"
  BY <1>1, <1>2, FitsNothing, ActiveFetchClock
<1>7. restart_valid' /\ restart_pc' = RobHead.pc
  BY <1>1 DEF RestartAt
<1>8. arch = Fresh(RobHead.pc)
  BY <1>2, <1>4 DEF TypeInv, TypeOK, Fresh
<1>9. Recovering'
  BY <1>5, <1>6, <1>7 DEF Recovering
<1>10. RecoverInv'
  BY <1>1, <1>5, <1>7, <1>8, <1>9 DEF RecoverInv
<1> QED  BY <1>1, <1>5, <1>10, PathCasesNext DEF Recoveries

LEMMA FaultHaltPath ==
    ASSUME SlotsPlain, CoreInv, FaultHalt
    PROVE  PathInv' /\ matched'
<1>1. /\ state = "ACTIVE" /\ CanRetire /\ Pipeline(0, 1, FALSE, FALSE) /\ Retire(1)
      /\ state' = "WRITE_EPC" /\ ~restart_valid'
  BY DEF FaultHalt
<1>2. TypeInv /\ ShapeInv /\ ActiveFetch /\ ~NextFlush
  BY <1>1, ActiveHead
<1>3. Occupancy >= 1
  BY <1>1, <1>2, Flags DEF CanRetire
<1>4. RobHead.pc = arch.pc
  BY <1>1, <1>3, ActiveHead
<1>5. matched'
  BY <1>1, <1>4, RetireFacts
<1>6. Fits(0, 1)
  BY <1>2, <1>3, Flags DEF Fits, Occupancy
<1>7. ~fe'.req
  BY <1>1, <1>2, <1>6, ActiveFetchClock
<1>8. HaltInv'
  BY <1>1, <1>7 DEF HaltInv
<1> QED  BY <1>1, <1>5, <1>8, PathCasesNext DEF Stopped

\* A mispredicted branch retires.  Its delay slot is the next uop on either path;
\* the simulator, at the delay slot, goes on to the restart.
LEMMA FaultPath ==
    ASSUME SlotsPlain, CoreInv, Fault
    PROVE  PathInv' /\ matched'
<1> DEFINE pc == RobHead.pc
           take == RobHead.take
<1>1. /\ state = "ACTIVE" /\ CanRetire /\ RobHead.flt /\ Op(pc) \notin {"break", "ii"}
      /\ Pipeline(0, 1, FALSE, FALSE) /\ Retire(1)
      /\ state' = "DRAIN" /\ RestartAt(TargetPC(RobHead))
  BY DEF Fault
<1>2. /\ ds_done' <=> Op(pc) \notin HasDelaySlot
      /\ slot'.has <=> Op(pc) \in HasDelaySlot
      /\ slot'.null <=> Op(pc) \in Nullifying
      /\ slot'.take <=> take
  <2>1. ds_done' <=> Op(pc) \notin HasDelaySlot
    BY Zenon DEF Fault
  <2>2. slot' = [has |-> Op(pc) \in HasDelaySlot, null |-> Op(pc) \in Nullifying, take |-> take]
    BY DEF Fault
  <2> QED  BY <2>1, <2>2
<1>3. TypeInv /\ ShapeInv /\ ActiveFetch /\ ~NextFlush /\ ~BreakLive /\ OnPath
  BY <1>1, ActiveHead
<1>4. Occupancy >= 1 /\ HeadComplete
  BY <1>1, <1>3, Flags DEF CanRetire
<1>5. /\ pc = arch.pc /\ RobHead \in RobEntry /\ EntryOK(RobHead, HeadComplete)
      /\ HeadSlot \in Live
  BY <1>1, <1>4, ActiveHead
<1>6. Op(pc) \in Conditional /\ take # RobHead.pred /\ take \in BOOLEAN /\ RobHead.pred \in BOOLEAN
  <2>1. Op(pc) \notin Monitors
    BY <1>3, <1>5 DEF OnPath, RobHead
  <2> QED  BY <1>1, <1>5, <2>1 DEF EntryOK, RobEntry
<1>7. Op(pc) \in HasDelaySlot /\ Op(pc) \notin Monitors /\ pc \in PC
  BY <1>5, <1>6 DEF Conditional, HasDelaySlot, Monitors, RobEntry
<1>8. Occupancy >= 2
  BY <1>1, <1>3, <1>4, <1>7, Flags DEF CanRetire
<1>9. PICK p : IsPath(p)
  BY <1>3 DEF OnPath
<1>10. /\ p[1] = Follow(arch, RobHead.pred) /\ Slotted(arch) /\ RobNextHead.pc = p[1].pc
  BY <1>3, <1>4, <1>8, <1>9, HeadOnPath
<1>11. arch.tgt = 0 /\ arch \in Cursor
  BY <1>3, <1>5, <1>7, <1>10 DEF Slotted, Plain, TypeInv, TypeOK, Cursor
<1>12. arch' = Follow(arch, take) /\ matched'
  BY <1>1, <1>5, <1>7, RetireFacts DEF Executes
<1>13. /\ Tgt(pc) # 0 /\ Plain(Op(Plus(pc, 1))) /\ Plus(Plus(pc, 1), 1) = Plus(pc, 2)
       /\ Plus(pc, 1) \in PC
  BY <1>7, BranchFacts, PlusType
<1>14. restart_valid' /\ restart_pc' = (IF take THEN Tgt(pc) ELSE Plus(pc, 2))
  BY <1>1, <1>7 DEF RestartAt, TargetPC
<1>15. Recovering'
  <2>1. ~got_ack'
    BY <1>1, NoAckKept
  <2>2. Fits(0, 1)
    BY <1>3, <1>4, Flags DEF Fits, Occupancy
  <2>3. fe'.st = "ACTIVE"
    BY <1>1, <1>3, <2>2, ActiveFetchClock
  <2> QED  BY <1>14, <2>1, <2>3 DEF Recovering
<1>16. CASE Op(pc) = "brl"
  <2>1. ~take
    BY <1>5, <1>6, <1>16 DEF EntryOK, Predicted
  <2>2. arch' = Fresh(Plus(pc, 2))
    BY <1>5, <1>11, <1>12, <1>16, <2>1 DEF Follow, Fresh, Nullifying
  <2>3. /\ ~ds_done' /\ slot'.has /\ slot'.null /\ ~slot'.take
        /\ arch' = Fresh(restart_pc')
    BY <1>2, <1>7, <1>14, <1>16, <2>1, <2>2 DEF Nullifying
  <2>4. RecoverInv'
    BY <1>1, <1>15, <2>3 DEF RecoverInv
  <2> QED  BY <1>1, <1>12, <2>4, PathCasesNext DEF Recoveries
<1>17. CASE Op(pc) = "br"
  <2>1. arch' = [pc |-> Plus(pc, 1), tgt |-> IF take THEN Tgt(pc) ELSE 0]
    BY <1>5, <1>11, <1>12, <1>17 DEF Follow, HasDelaySlot, Nullifying
  <2>2. p[1].pc = Plus(pc, 1)
    BY <1>5, <1>10, <1>11, <1>17 DEF Follow, HasDelaySlot, Nullifying
  <2>3. RobHead'.pc = RobNextHead.pc
    <3>1. NextSlot \in Slots /\ HeadSlot' = NextSlot
      <4>1. head' = R!Inc(head)
        BY <1>1 DEF Pipeline, Buffer, R!Move
      <4> QED  BY <1>3, <4>1, PtrClosed DEF HeadSlot, NextSlot, TypeInv, TypeOK
    <3>2. Fits(0, 1) /\ NewSlots(tail, 0) = {} /\ FreedSlots(head, 1) = {HeadSlot}
      BY <1>3, <1>4, Flags DEF Fits, Occupancy, NewSlots, FreedSlots, HeadSlot
    <3>3. NextSlot # HeadSlot
      <4>1. head \in 0..(2 * ROB_ENTRIES - 1) /\ ROB_ENTRIES \in Nat /\ ROB_ENTRIES >= 2
        BY <1>3, CoreAssumption DEF TypeInv, TypeOK, R!Ptr
      <4> QED  BY <4>1 DEF R!Idx, R!Inc, NextSlot, HeadSlot
    <3>4. rob'[NextSlot].pc = rob[NextSlot].pc
      <4>1. Buffer(0, 1, FALSE, FALSE)
        BY <1>1 DEF Pipeline
      <4>2. NextSlot \notin NewSlots(tail, 0) \cup FreedSlots(head, 1)
        BY <3>2, <3>3
      <4> QED  BY <1>3, <3>1, <3>2, <4>1, <4>2, EntryKept
    <3> QED  BY <3>1, <3>4 DEF RobHead, RobNextHead
  <2>4. Follow(arch', FALSE) = Fresh(restart_pc')
    <3>1. CASE take
      BY <1>13, <1>14, <2>1, <3>1 DEF Follow, Fresh
    <3>2. CASE ~take
      <4>1. arch'.tgt = 0 /\ arch'.pc = Plus(pc, 1) /\ Op(arch'.pc) \notin HasDelaySlot
        BY <1>13, <2>1, <3>2 DEF Plain
      <4>2. Follow(arch', FALSE) = Fresh(Plus(Plus(pc, 1), 1))
        BY <4>1 DEF Follow, Fresh, HasDelaySlot, Nullifying
      <4> QED  BY <1>13, <1>14, <3>2, <4>2
    <3> QED  BY <3>1, <3>2
  <2>5. ~ds_done' /\ slot'.has /\ ~slot'.null
    BY <1>2, <1>7, <1>17 DEF Nullifying
  <2>6. RobHead'.pc = arch'.pc /\ Plain(Op(arch'.pc))
    BY <1>10, <1>13, <2>1, <2>2, <2>3
  <2>7. RecoverInv'
    BY <1>1, <1>15, <2>4, <2>5, <2>6 DEF RecoverInv
  <2> QED  BY <1>1, <1>12, <2>7, PathCasesNext DEF Recoveries
<1> QED  BY <1>6, <1>16, <1>17 DEF Conditional

-----------------------------------------------------------------------------
LEMMA NextKeepsPath ==
    ASSUME SlotsPlain, CoreInv, HostInv', Next
    PROVE  PathInv' /\ matched'
<1>1. ShapeInv' /\ BreakInv'
  BY DEF HostInv
<1> QED
  BY <1>1, InterruptPath, FaultPath, FaultHaltPath, GraduatePath, AllocatePath, SerializePath, DrainPath,
     ExceptionDrainPath, RatPath, AllocAlonePath, WaitForSerializePath, WaitForMonitorPath, MonitorPath,
     StoppedPath, ResumePath, HaltWaitPath
     DEF Next

LEMMA InitCore == Init => CoreInv
<1> SUFFICES ASSUME Init PROVE CoreInv
  OBVIOUS
<1>1. HostInv
  BY InitHost
<1>2. AckInv /\ matched
  BY DEF Init, AckInv
<1>3. EntryInv
  <2>1. Occupancy = 0 /\ Len(dq) = 0
    BY CoreAssumption DEF Init, Occupancy, R!Count
  <2>2. Live = {}
    BY <1>1, <2>1, LiveHead DEF HostInv, ShapeInv
  <2> QED  BY <2>1, <2>2 DEF EntryInv
<1>4. state \in Stopped /\ HaltInv
  BY DEF Init, Stopped, HaltInv
<1> QED  BY <1>1, <1>2, <1>3, <1>4, PathCases DEF CoreInv

LEMMA StutterKeepsCore == CoreInv /\ UNCHANGED vars => CoreInv'
<1> SUFFICES ASSUME CoreInv, UNCHANGED vars PROVE CoreInv'
  OBVIOUS
<1>1. HostInv'
  BY StutterKeepsHost DEF CoreInv
<1>2. fsm' = fsm /\ dq' = dq /\ rob' = rob /\ head' = head /\ tail' = tail /\ complete' = complete
      /\ fe' = fe /\ arch' = arch /\ matched' = matched /\ got_ack' = got_ack /\ in_ds' = in_ds
  BY DEF vars
<1>3. state' = state /\ ds_done' = ds_done /\ slot' = slot /\ restart_valid' = restart_valid
      /\ restart_pc' = restart_pc /\ l1i_flushed' = l1i_flushed
  BY <1>2 DEF fsm
<1>4. /\ Occupancy' = Occupancy /\ Live' = Live /\ RobHead' = RobHead /\ FetchCursor' = FetchCursor
      /\ (RobEmpty' <=> RobEmpty) /\ (HeadComplete' <=> HeadComplete) /\ (NextReq' <=> NextReq)
  BY <1>2, <1>3 DEF Occupancy, Live, RobHead, HeadSlot, FetchCursor, RobEmpty, HeadComplete, NextReq
<1>5. AckInv' /\ EntryInv' /\ matched'
  BY <1>2, <1>4 DEF CoreInv, AckInv, EntryInv
<1>6. \A p : IsPath(p)' <=> IsPath(p)
  <2>1. Depth' = Depth
    BY <1>2, <1>4 DEF Depth
  <2>2. \A k : InFlight(k)' = InFlight(k)
    BY <1>2, <1>4 DEF InFlight
  <2> QED  BY <1>2, <1>4, <2>1, <2>2 DEF IsPath
<1>7. ActiveInv' <=> ActiveInv
  BY <1>2, <1>3, <1>4, <1>6 DEF ActiveInv, ActiveFetch, BreakLive, AtBreak, OnPath
<1>8. (RecoverInv' <=> RecoverInv) /\ (SerialInv' <=> SerialInv) /\ (WaitInv' <=> WaitInv)
  BY <1>2, <1>3, <1>4 DEF RecoverInv, SerialInv, WaitInv, Recovering, NoRequest
<1>9. (HaltInv' <=> HaltInv) /\ (ResumeInv' <=> ResumeInv)
  BY <1>2, <1>3, <1>4 DEF HaltInv, ResumeInv
<1>10. PathInv'
  BY <1>3, <1>7, <1>8, <1>9 DEF CoreInv, PathInv
<1> QED  BY <1>1, <1>5, <1>10 DEF CoreInv

\* CoreInv is inductive: shape, units, flushes, breaks, the restart handshake,
\* the completed branches and the path, state by state of the machine.
THEOREM CoreInvariant == ASSUME SlotsPlain PROVE Spec => []CoreInv
<1>1. ASSUME CoreInv, HostInv', Next PROVE CoreInv'
  <2>1. ShapeInv /\ UnitsInv /\ EntryInv
    BY <1>1 DEF CoreInv, HostInv
  <2>2. PICK na, nr, clr_rob, clr_dq : Clock(na, nr, clr_rob, clr_dq)
    BY <1>1, <2>1, NextIsClock DEF ShapeInv, IsClock
  <2>3. EntryInv' /\ AckInv'
    BY <1>1, <2>1, <2>2, ClockKeepsEntries, NextKeepsAck
  <2> QED  BY <1>1, <2>3, NextKeepsPath DEF CoreInv
<1>2. CoreInv /\ HostInv' /\ [Next]_vars => CoreInv'
  BY <1>1, StutterKeepsCore
<1> QED  BY <1>2, InitCore, HostInvariant, PTL DEF Spec

\* For every program whose delay slots are plain, every size
\* of the queues and every pattern of mispredictions, interrupts and restarts:
\* the instructions the core retires are, in order, the ones the instruction-set
\* simulator executes (the comparison top.cc makes after every retirement).
THEOREM Cosimulation == ASSUME SlotsPlain PROVE Spec => []CosimMatches
<1>1. CoreInv => CosimMatches
  BY DEF CoreInv, CosimMatches
<1> QED  BY <1>1, CoreInvariant, PTL

-----------------------------------------------------------------------------
(* The path PathIntact defines by recursion.                               *)

\* A nonempty set of naturals has a least member.
LEMMA LeastNatural ==
    ASSUME NEW T, T \subseteq Nat, T # {}
    PROVE  \E n \in T : \A m \in T : n <= m
<1>1. PICK n \in T : \A m \in T : ~(<<m, n>> \in OpToRel(<, Nat))
  BY NatLessThanWellFounded, WFMin
<1>2. \A m \in T : ~(m < n)
  BY <1>1 DEF OpToRel
<1> QED  BY <1>2

\* f follows the predictions of us from a.
Follows(f, D, a, us) == f = [n \in 0 .. D |-> IF n = 0 THEN a ELSE Follow(f[n - 1], us[n].pred)]

\* A function that satisfies the equations of the predicted path is the one
\* PathIntact defines by recursion.
LEMMA PathUnique ==
    ASSUME NEW D \in Nat, NEW a, NEW us, NEW p,
           NEW f, Follows(p, D, a, us), Follows(f, D, a, us)
    PROVE  f = p
<1> USE DEF Follows
<1> DEFINE T == {n \in 0 .. D : f[n] # p[n]}
<1>1. ASSUME T # {} PROVE FALSE
  <2>0. T \subseteq Nat
    OBVIOUS
  <2>1. PICK n \in T : \A m \in T : n <= m
    <3> HIDE DEF T
    <3> QED  BY <1>1, <2>0, LeastNatural
  <2>2. CASE n = 0
    BY <2>2
  <2>3. CASE n # 0
    <3>1. n - 1 \in 0 .. D /\ n - 1 \notin T /\ n \in 0 .. D
      BY <2>1, <2>3
    <3>2. f[n - 1] = p[n - 1]
      BY <3>1
    <3>3. f[n] = Follow(f[n - 1], us[n].pred) /\ p[n] = Follow(p[n - 1], us[n].pred)
      BY <2>3, <3>1
    <3> QED  BY <3>2, <3>3
  <2> QED  BY <2>2, <2>3
<1> QED  BY <1>1

\* The uops in flight by number are the sequence PathIntact speaks of.
LEMMA UopsInFlight ==
    ASSUME TypeInv
    PROVE  /\ Depth \in Nat /\ Len(Uops) = Depth
           /\ \A n \in 1 .. Depth : Uops[n] = InFlight(n)
<1> DEFINE s == [i \in 1 .. Occupancy |-> rob[R!At(head, i - 1)]]
<1>1. Occupancy \in Nat /\ dq \in Seq(Uop)
  BY Flags, TypeParts DEF PipelineType
<1> DEFINE A == {rob[R!At(head, i - 1)] : i \in 1 .. Occupancy}
<1>2. s \in Seq(A) /\ Len(s) = Occupancy
  <2>1. s \in [1 .. Occupancy -> A]
    OBVIOUS
  <2> HIDE DEF s, A
  <2> QED  BY <1>1, <2>1
<1>3. Uops = s \o dq
  BY DEF Uops, Occupancy
<1>4. Depth \in Nat /\ \A n \in 1 .. Occupancy : s[n] = rob[R!At(head, n - 1)]
  BY <1>1 DEF Depth
<1> HIDE DEF s, A
<1>5. s \in Seq(A \cup Uop) /\ dq \in Seq(A \cup Uop)
  BY <1>1, <1>2
<1>6. /\ Len(s \o dq) = Occupancy + Len(dq)
      /\ \A n \in 1 .. (Occupancy + Len(dq)) : (s \o dq)[n] = IF n <= Occupancy THEN s[n] ELSE dq[n - Occupancy]
  BY <1>2, <1>5
<1> QED  BY <1>1, <1>3, <1>4, <1>6 DEF Depth, InFlight

\* For the same programs: in ACTIVE the uops between retirement and fetch are
\* exactly the predicted path from the architectural position, and fetch
\* continues it, unless a completed break is about to halt the core.
THEOREM PathStays == ASSUME SlotsPlain PROVE Spec => []PathIntact
<1>1. CoreInv => PathIntact
  <2> SUFFICES ASSUME CoreInv, state = "ACTIVE", ~(RobHead.flt /\ Op(RobHead.pc) = "break") PROVE PathIntact
    BY DEF PathIntact
  <2>1. TypeInv /\ OnPath
    BY ActiveHead
  <2>2. PICK p : IsPath(p)
    BY <2>1 DEF OnPath
  <2>3. Depth \in Nat /\ Len(Uops) = Depth /\ \A n \in 1 .. Depth : Uops[n] = InFlight(n)
    BY <2>1, UopsInFlight
  <2>4. /\ p \in [0 .. Depth -> Cursor] /\ p[0] = arch /\ p[Depth] = FetchCursor
        /\ \A k \in 1 .. Depth : Uops[k].pc = p[k - 1].pc /\ p[k] = Follow(p[k - 1], Uops[k].pred)
    BY <2>2, <2>3 DEF IsPath
  <2> DEFINE path[n \in 0 .. Len(Uops)] == IF n = 0 THEN arch ELSE Follow(path[n - 1], Uops[n].pred)
  <2>5. p = [n \in 0 .. Len(Uops) |-> IF n = 0 THEN arch ELSE Follow(p[n - 1], Uops[n].pred)]
    BY <2>3, <2>4
  <2>6. path = [n \in 0 .. Len(Uops) |-> IF n = 0 THEN arch ELSE Follow(path[n - 1], Uops[n].pred)]
    BY <2>5
  <2>7. path = p
    <3> HIDE DEF path
    <3>1. Len(Uops) \in Nat
      BY <2>3
    <3>2. Follows(path, Len(Uops), arch, Uops) /\ Follows(p, Len(Uops), arch, Uops)
      BY <2>5, <2>6, Zenon DEF Follows
    <3> QED  BY <3>1, <3>2, PathUnique
  <2>8. /\ \A n \in 1 .. Len(Uops) : Uops[n].pc = path[n - 1].pc
        /\ fe.st = "ACTIVE" => [pc |-> fe.pc, tgt |-> fe.tgt] = path[Len(Uops)]
    <3> HIDE DEF path
    <3> QED  BY <2>3, <2>4, <2>7 DEF FetchCursor
  <2> QED  BY <2>8 DEF PathIntact
<1> QED  BY <1>1, CoreInvariant, PTL
=============================================================================
