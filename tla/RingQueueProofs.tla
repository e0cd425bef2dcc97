--------------------------- MODULE RingQueueProofs ---------------------------
(***************************************************************************)
(* Proofs about the queue pattern, for every size N >= 2: the pointers     *)
(* stay in step, and the queue they delimit is a FIFO of capacity N.       *)
(***************************************************************************)
EXTENDS RingQueue, TLAPS

-----------------------------------------------------------------------------
(* The pointer arithmetic.                                                 *)

\* A pointer plus one or two is a pointer, its low bits are an index.
LEMMA PtrClosed ==
    ASSUME NEW p \in Ptr
    PROVE  Inc(p) \in Ptr /\ Inc2(p) \in Ptr /\ Idx(p) \in Index
BY NAssumption DEF Ptr, Index, Inc, Inc2, Idx

\* Occupancy is a natural number below 2N; it is zero only between equal
\* pointers and N exactly when the full flag is raised.
LEMMA CountFlags ==
    ASSUME NEW h \in Ptr, NEW t \in Ptr
    PROVE  /\ Count(h, t) \in 0 .. (2 * N - 1)
           /\ IsEmpty(h, t) <=> Count(h, t) = 0
           /\ IsFull(h, t) <=> Count(h, t) = N
           /\ NextEmpty(Inc(h), t) <=> Count(h, t) = 1
           /\ NextFull(h, Inc(t)) <=> Count(h, t) = N - 1
BY NAssumption DEF Ptr, Count, IsEmpty, IsFull, NextEmpty, NextFull, Inc, Idx

\* The entry at the tail is the one after the youngest live element.
LEMMA TailEntry ==
    ASSUME NEW h \in Ptr, NEW t \in Ptr
    PROVE  Idx(t) = At(h, Count(h, t))
BY NAssumption DEF Ptr, Count, Idx, At

\* Distances from the head below N select distinct entries.
LEMMA AtInjective ==
    ASSUME NEW h \in Ptr, NEW i \in 0 .. (N - 1), NEW j \in 0 .. (N - 1)
    PROVE  At(h, i) \in Index /\ (At(h, i) = At(h, j) => i = j)
BY NAssumption DEF Ptr, At, Idx, Index

\* Seen from an advanced head every element is one step closer.
LEMMA AtShift ==
    ASSUME NEW h \in Ptr, NEW i \in 0 .. (N - 1)
    PROVE  At(Inc(h), i) = At(h, i + 1)
BY NAssumption DEF Ptr, At, Inc, Idx

-----------------------------------------------------------------------------
(* The inductive invariant.                                                *)

\* An offer holds zero, one or two uops.
LEMMA OfferLen ==
    ASSUME NEW ins \in Offer
    PROVE  /\ Len(ins) \in 0 .. 2
           /\ Len(ins) >= 1 => ins[1] \in Value
           /\ Len(ins) = 2 => ins[2] \in Value
BY DEF Offer

\* What the queue accepts always fits: the full flags, read from the registered
\* pointers, admit one uop only below N and two only below N - 1.
LEMMA AcceptedFits ==
    ASSUME IInv, NEW ins \in Offer
    PROVE  /\ Accepted(ins) \in 0 .. 2
           /\ Accepted(ins) <= Len(ins)
           /\ Count(head, tail) + Accepted(ins) <= N
<1>1. Len(ins) \in 0 .. 2
  BY OfferLen
<1>2. /\ head \in Ptr /\ tail \in Ptr
      /\ ntail = Inc(tail)
      /\ Count(head, tail) <= N
  BY DEF IInv, TypeOK, PointersInStep
<1>3. /\ Count(head, tail) \in 0 .. (2 * N - 1)
      /\ IsFull(head, tail) <=> Count(head, tail) = N
      /\ NextFull(head, ntail) <=> Count(head, tail) = N - 1
  BY <1>2, CountFlags
<1>4. CASE Len(ins) = 0 \/ IsFull(head, tail)
  <2>1. Accepted(ins) = 0
    BY <1>4 DEF Accepted
  <2> QED  BY <2>1, <1>1, <1>2, <1>3, NAssumption
<1>5. CASE Len(ins) # 0 /\ ~IsFull(head, tail) /\ Len(ins) = 2 /\ ~NextFull(head, ntail)
  <2>1. Accepted(ins) = 2
    BY <1>5 DEF Accepted
  <2> QED  BY <2>1, <1>5, <1>2, <1>3, NAssumption
<1>6. CASE Len(ins) # 0 /\ ~IsFull(head, tail) /\ ~(Len(ins) = 2 /\ ~NextFull(head, ntail))
  <2>1. Accepted(ins) = 1
    BY <1>6 DEF Accepted
  <2> QED  BY <2>1, <1>6, <1>1, <1>2, <1>3, NAssumption
<1> QED  BY <1>4, <1>5, <1>6

\* Nothing is popped that is not there.
LEMMA PopAvailable ==
    ASSUME IInv, NEW n \in 0 .. 2, MayPop(n)
    PROVE  n <= Count(head, tail)
<1>1. /\ head \in Ptr /\ tail \in Ptr
      /\ nhead = Inc(head)
  BY DEF IInv, TypeOK, PointersInStep
<1>2. /\ Count(head, tail) \in 0 .. (2 * N - 1)
      /\ IsEmpty(head, tail) <=> Count(head, tail) = 0
      /\ NextEmpty(nhead, tail) <=> Count(head, tail) = 1
  BY <1>1, CountFlags
<1> QED
  BY <1>2, NAssumption DEF MayPop

\* A moved pointer is a pointer, and the look-ahead pointer moves with it.
LEMMA MoveClosed ==
    ASSUME NEW p \in Ptr, NEW n \in 0 .. 2
    PROVE  /\ Move(p, n) \in Ptr
           /\ Move(Inc(p), n) \in Ptr
           /\ Move(Inc(p), n) = Inc(Move(p, n))
BY NAssumption DEF Move, Ptr, Inc, Inc2

\* A tail moved by a and a head moved by n change the occupancy by a - n.
LEMMA CountMoves ==
    ASSUME NEW h \in Ptr, NEW t \in Ptr, NEW a \in 0 .. 2, NEW n \in 0 .. 2,
           Count(h, t) + a <= N, n <= Count(h, t)
    PROVE  Count(Move(h, n), Move(t, a)) = Count(h, t) + a - n
BY NAssumption DEF Ptr, Count, Move, Inc, Inc2

\* One clock changes the pointers by what it accepts and what it pops.
LEMMA ClockMoves ==
    ASSUME IInv, NEW ins \in Offer, NEW n \in 0 .. 2,
           Push(Accepted(ins), ins), Pop(n)
    PROVE  /\ TypeOK'
           /\ PointersInStep'
           /\ Count(head', tail') = Count(head, tail) + Accepted(ins) - n
<1> DEFINE a == Accepted(ins)
<1>1. /\ a \in 0 .. 2 /\ a <= Len(ins)
      /\ Count(head, tail) + a <= N
  BY AcceptedFits
<1>2. n <= Count(head, tail)
  BY PopAvailable DEF Pop
<1>3. /\ head \in Ptr /\ tail \in Ptr /\ nhead = Inc(head) /\ ntail = Inc(tail)
      /\ Count(head, tail) <= N /\ q \in [Index -> Value]
  BY DEF IInv, TypeOK, PointersInStep
<1>4. /\ Len(ins) \in 0 .. 2
      /\ Len(ins) >= 1 => ins[1] \in Value
      /\ Len(ins) = 2 => ins[2] \in Value
  BY OfferLen
<1> HIDE DEF a
<1>5. /\ tail' = Move(tail, a) /\ ntail' = Move(ntail, a)
      /\ q' = [i \in Index |-> IF a = 2 /\ i = Idx(ntail) THEN ins[2]
                              ELSE IF a >= 1 /\ i = Idx(tail) THEN ins[1]
                              ELSE q[i]]
  BY DEF Push, a
<1>6. head' = Move(head, n) /\ nhead' = Move(nhead, n)
  BY DEF Pop
<1>7. /\ head' \in Ptr /\ nhead' \in Ptr /\ nhead' = Inc(head')
  BY <1>3, <1>6, MoveClosed
<1>8. /\ tail' \in Ptr /\ ntail' \in Ptr /\ ntail' = Inc(tail')
  BY <1>1, <1>3, <1>5, MoveClosed
<1>9. q' \in [Index -> Value]
  BY <1>1, <1>3, <1>4, <1>5
<1>10. Count(head', tail') = Count(head, tail) + a - n
  BY <1>1, <1>2, <1>3, <1>5, <1>6, CountMoves
<1>11. Count(head', tail') <= N
  BY <1>1, <1>2, <1>3, <1>10, CountFlags, NAssumption
<1> QED
  BY <1>7, <1>8, <1>9, <1>10, <1>11 DEF TypeOK, PointersInStep, a

\* The state after reset, and after t_clr_dq, has an empty queue.
LEMMA ClearedPointers ==
    /\ 0 \in Ptr /\ 1 \in Ptr /\ 1 = Inc(0)
    /\ Count(0, 0) = 0
BY NAssumption DEF Ptr, Inc, Count

(***************************************************************************)
(* The pointers of the queue are always in step and never more than N      *)
(* apart, for every N >= 2 and any uops.                                   *)
(***************************************************************************)
THEOREM RingQueueInvariant == Spec => [](TypeOK /\ PointersInStep)
<1>1. Init => IInv
  BY ClearedPointers, NAssumption DEF Init, IInv, TypeOK, PointersInStep
<1>2. IInv /\ [Next]_vars => IInv'
  <2> SUFFICES ASSUME IInv, [Next]_vars PROVE IInv'
    OBVIOUS
  <2>1. CASE Clock
    BY <2>1, ClockMoves DEF Clock, IInv
  <2>2. CASE Clear
    BY <2>2, ClearedPointers, NAssumption DEF Clear, IInv, TypeOK, PointersInStep
  <2>3. CASE UNCHANGED vars
    BY <2>3 DEF vars, IInv, TypeOK, PointersInStep
  <2> QED  BY <2>1, <2>2, <2>3 DEF Next
<1> QED
  BY <1>1, <1>2, PTL DEF Spec, IInv

-----------------------------------------------------------------------------
(* The refinement of Fifo.                                                 *)

\* From a head moved by n, the element at distance i was at distance i + n.
LEMMA AtMove ==
    ASSUME NEW h \in Ptr, NEW n \in 0 .. 2, NEW i \in Nat, i + n < 2 * N
    PROVE  At(Move(h, n), i) = At(h, i + n)
BY NAssumption DEF Ptr, At, Move, Inc, Inc2, Idx

\* The entries a push writes are the first two free ones after the youngest
\* element, and so hold no live element.
LEMMA PushEntries ==
    ASSUME IInv, NEW i \in 0 .. (N - 1)
    PROVE  LET c == Count(head, tail) IN
           /\ c + 1 <= N => (At(head, i) = Idx(tail) <=> i = c)
           /\ c + 2 <= N => (At(head, i) = Idx(ntail) <=> i = c + 1)
BY NAssumption DEF IInv, TypeOK, PointersInStep, Ptr, At, Count, Inc, Idx

\* One clock slides the contents by what is popped and what is accepted.
LEMMA ClockSlides ==
    ASSUME IInv, NEW ins \in Offer, NEW n \in 0 .. 2,
           Push(Accepted(ins), ins), Pop(n)
    PROVE  \E acc \in Offer :
              /\ Count(head, tail) + Len(acc) <= N
              /\ Contents' = Abstract!Slide(Contents, n, acc)
<1> DEFINE a == Accepted(ins)
           c == Count(head, tail)
           acc == IF a = 0 THEN <<>> ELSE IF a = 1 THEN <<ins[1]>> ELSE <<ins[1], ins[2]>>
<1>1. a \in 0 .. 2 /\ a <= Len(ins) /\ c + a <= N
  BY AcceptedFits
<1>2. n <= c
  BY PopAvailable DEF Pop
<1>3. head \in Ptr /\ tail \in Ptr /\ c \in 0 .. N
  BY CountFlags, NAssumption DEF IInv, TypeOK, PointersInStep
<1>4. Count(head', tail') = c + a - n
  BY ClockMoves
<1>5. /\ acc \in Offer /\ Len(acc) = a
      /\ a >= 1 => acc[1] = ins[1]
      /\ a = 2 => acc[2] = ins[2]
  BY <1>1, OfferLen DEF Offer
<1>6. /\ head' = Move(head, n)
      /\ q' = [i \in Index |-> IF a = 2 /\ i = Idx(ntail) THEN ins[2]
                              ELSE IF a >= 1 /\ i = Idx(tail) THEN ins[1]
                              ELSE q[i]]
  BY DEF Push, Pop
<1> HIDE DEF a, c, acc
<1>7. ASSUME NEW i \in 1 .. (c + a - n)
      PROVE  q'[At(head', i - 1)] =
                IF i <= c - n THEN q[At(head, i + n - 1)] ELSE acc[i - (c - n)]
  <2>1. At(head', i - 1) = At(head, i + n - 1)
    <3>1. i - 1 \in Nat /\ (i - 1) + n < 2 * N /\ (i - 1) + n = i + n - 1
      BY <1>1, <1>2, <1>3, NAssumption
    <3>2. At(Move(head, n), i - 1) = At(head, (i - 1) + n)
      BY <3>1, <1>3, AtMove
    <3> QED  BY <3>1, <3>2, <1>6
  <2>2. i + n - 1 \in 0 .. (N - 1)
    BY <1>1, <1>2, <1>3, NAssumption
  <2>3. At(head, i + n - 1) \in Index
    BY <2>2, <1>3, AtInjective
  <2>4. /\ c + 1 <= N => (At(head, i + n - 1) = Idx(tail) <=> i + n - 1 = c)
        /\ c + 2 <= N => (At(head, i + n - 1) = Idx(ntail) <=> i + n - 1 = c + 1)
    BY <2>2, PushEntries DEF c
  <2>5. q'[At(head', i - 1)] =
            IF a = 2 /\ At(head, i + n - 1) = Idx(ntail) THEN ins[2]
            ELSE IF a >= 1 /\ At(head, i + n - 1) = Idx(tail) THEN ins[1]
            ELSE q[At(head, i + n - 1)]
    BY <2>1, <2>3, <1>6
  <2>6. CASE i <= c - n
    BY <2>4, <2>5, <2>6, <1>1, <1>2, <1>3, NAssumption
  <2>7. CASE i = c - n + 1
    BY <2>4, <2>5, <2>7, <1>1, <1>2, <1>3, <1>5, NAssumption
  <2>8. CASE i = c - n + 2
    BY <2>4, <2>5, <2>8, <1>1, <1>2, <1>3, <1>5, NAssumption
  <2> QED
    BY <2>6, <2>7, <2>8, <1>1, <1>2, <1>3
<1>8. /\ Contents = [i \in 1 .. c |-> q[At(head, i - 1)]]
      /\ Contents' = [i \in 1 .. (c + a - n) |-> q'[At(head', i - 1)]]
  BY <1>4 DEF Contents, c
<1>9. Len(Contents) = c
  BY <1>8, <1>3
<1>10. Abstract!Slide(Contents, n, acc) =
          [i \in 1 .. (c + a - n) |->
              IF i <= c - n THEN q[At(head, i + n - 1)] ELSE acc[i - (c - n)]]
  <2>1. Abstract!Slide(Contents, n, acc) =
          [i \in 1 .. (c - n + a) |->
              IF i <= c - n THEN Contents[i + n] ELSE acc[i - (c - n)]]
    BY <1>5, <1>9 DEF Abstract!Slide
  <2>2. \A i \in 1 .. (c - n + a) : i <= c - n => Contents[i + n] = q[At(head, i + n - 1)]
    <3> SUFFICES ASSUME NEW i \in 1 .. (c - n + a), i <= c - n
                 PROVE  Contents[i + n] = q[At(head, i + n - 1)]
      OBVIOUS
    <3>1. i + n \in 1 .. c
      BY <1>1, <1>3
    <3> QED  BY <3>1, <1>8
  <2>3. c - n + a = c + a - n
    BY <1>1, <1>3
  <2> QED  BY <2>1, <2>2, <2>3
<1>11. Contents' = Abstract!Slide(Contents, n, acc)
  BY <1>7, <1>8, <1>10
<1> QED
  BY <1>1, <1>5, <1>11 DEF c

(***************************************************************************)
(* The queue implements a FIFO of capacity N, for every N >= 2.            *)
(***************************************************************************)
THEOREM RingQueueIsFifo == Spec => ImplementsFifo
<1>1. Init => Abstract!Init
  <2> SUFFICES ASSUME Init PROVE Contents = <<>>
    BY DEF Abstract!Init
  <2>1. Count(head, tail) = 0
    BY ClearedPointers DEF Init
  <2> QED  BY <2>1 DEF Contents
<1>2. IInv /\ [Next]_vars => [Abstract!Next]_Contents
  <2> SUFFICES ASSUME IInv, [Next]_vars PROVE [Abstract!Next]_Contents
    OBVIOUS
  <2>1. CASE Clock
    <3>1. PICK ins \in Offer, n \in 0 .. 2 : Push(Accepted(ins), ins) /\ Pop(n)
      BY <2>1 DEF Clock
    <3>2. PICK acc \in Offer :
              /\ Count(head, tail) + Len(acc) <= N
              /\ Contents' = Abstract!Slide(Contents, n, acc)
      BY <3>1, ClockSlides
    <3>3. Len(Contents) = Count(head, tail)
      BY CountFlags DEF IInv, TypeOK, Contents
    <3>4. n <= Count(head, tail)
      BY <3>1, PopAvailable DEF Pop
    <3>5. Abstract!Clock
      BY <3>2, <3>3, <3>4 DEF Abstract!Clock, Abstract!Insertion, Offer
    <3> QED  BY <3>5 DEF Abstract!Next
  <2>2. CASE Clear
    <3>1. Count(head', tail') = 0
      BY <2>2, ClearedPointers DEF Clear
    <3>2. Contents' = <<>>
      BY <3>1 DEF Contents
    <3> QED  BY <3>2 DEF Abstract!Next, Abstract!Clear
  <2>3. CASE UNCHANGED vars
    BY <2>3 DEF vars, Contents
  <2> QED  BY <2>1, <2>2, <2>3 DEF Next
<1>3. Spec => []IInv
  BY RingQueueInvariant, PTL DEF IInv
<1> QED
  BY <1>1, <1>2, <1>3, PTL DEF Spec, ImplementsFifo, Abstract!Spec

=============================================================================
