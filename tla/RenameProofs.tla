---------------------------- MODULE RenameProofs ----------------------------
(***************************************************************************)
(* Proofs about register renaming, for any logical and physical registers, *)
(* any classes and any reorder buffer size: RenameInv is inductive.  At    *)
(* the end, the banks of FreeList, for any number of physical registers.   *)
(***************************************************************************)
EXTENDS FreeList, TLAPS, FiniteSetTheorems, WellFoundedInduction

-----------------------------------------------------------------------------
(* Allocation keeps the renaming state sound.                              *)

\* What an allocated uop looks like.
LEMMA RenamedType ==
    ASSUME NEW s, TypeInv(s), NEW u \in Uop, NEW p \in Choice(s, u)
    PROVE  /\ Renamed(s, u, p) \in Entry
           /\ u.dst # NoReg => p \in PREG /\ p \in s.free /\ p \in Pool[u.dst]
           /\ u.dst \in LREG \cup {NoReg} /\ u.src \in LREG \cup {NoReg}
BY RenameAssumption DEF TypeInv, Uop, Choice, Renamed, Entry

\* The old uops stay where they are, the new one is the youngest.
LEMMA AllocRob ==
    ASSUME NEW s, TypeInv(s), NEW u \in Uop, NEW p \in Choice(s, u)
    PROVE  LET t == AllocOne(s, u, p) IN
           /\ t.rob \in Seq(Entry)
           /\ Len(s.rob) \in Nat
           /\ Len(t.rob) = Len(s.rob) + 1
           /\ \A i \in 1 .. Len(s.rob) : t.rob[i] = s.rob[i]
           /\ t.rob[Len(s.rob) + 1] = Renamed(s, u, p)
<1>1. Renamed(s, u, p) \in Entry
  BY RenamedType
<1>2. s.rob \in Seq(Entry)
  BY DEF TypeInv
<1> QED  BY <1>1, <1>2 DEF AllocOne

LEMMA AllocOneType ==
    ASSUME NEW s, TypeInv(s), NEW u \in Uop, NEW p \in Choice(s, u)
    PROVE  TypeInv(AllocOne(s, u, p))
<1> DEFINE t == AllocOne(s, u, p)
<1>1. /\ t.rob \in Seq(Entry)
      /\ Len(s.rob) \in Nat
      /\ Len(t.rob) = Len(s.rob) + 1
      /\ \A i \in 1 .. Len(s.rob) : t.rob[i] = s.rob[i]
      /\ t.rob[Len(s.rob) + 1] = Renamed(s, u, p)
  BY AllocRob
<1>2. /\ t.rat = Map(s.rat, u.dst, p) /\ t.rrat = s.rrat /\ t.rfree = s.rfree
      /\ t.free = s.free \ Taken(u.dst, p)
  BY DEF AllocOne
<1>3. /\ u.dst # NoReg => p \in PREG
      /\ u.dst \in LREG \cup {NoReg} /\ u.src \in LREG \cup {NoReg}
  BY RenamedType
<1> HIDE DEF t
<1>4. t.rat \in [LREG -> PREG]
  BY <1>2, <1>3 DEF Map, TypeInv
<1>5. ASSUME NEW i \in 1 .. Len(t.rob)
      PROVE  /\ t.rob[i].dst # NoReg => t.rob[i].pdst \in PREG /\ t.rob[i].old \in PREG
             /\ t.rob[i].src # NoReg => t.rob[i].psrc \in PREG
  <2>1. CASE i \in 1 .. Len(s.rob)
    BY <2>1, <1>1 DEF TypeInv
  <2>2. CASE i = Len(s.rob) + 1
    BY <2>2, <1>1, <1>3 DEF TypeInv, Renamed
  <2> QED  BY <2>1, <2>2, <1>1
<1>6. t.rrat \in [LREG -> PREG] /\ t.free \in SUBSET PREG /\ t.rfree \in SUBSET PREG
  BY <1>2 DEF TypeInv
<1> QED  BY <1>1, <1>4, <1>5, <1>6 DEF TypeInv, t

\* Uops up to i see the same registers before and after an allocation.
LEMMA SeesKept ==
    ASSUME NEW s, TypeInv(s), NEW u \in Uop, NEW p \in Choice(s, u),
           NEW i \in 1 .. (Len(s.rob) + 1), NEW l, NEW r
    PROVE  Sees(s, i, l, r) <=> Sees(AllocOne(s, u, p), i, l, r)
<1> DEFINE t == AllocOne(s, u, p)
<1>1. /\ Len(s.rob) \in Nat
      /\ \A j \in 1 .. Len(s.rob) : t.rob[j] = s.rob[j]
  BY AllocRob
<1>2. t.rrat = s.rrat
  BY DEF AllocOne
<1> HIDE DEF t
<1>3. \A j \in 1 .. (i - 1) : t.rob[j] = s.rob[j]
  BY <1>1
<1>4. \A j \in 1 .. (i - 1) : \A k \in (j + 1) .. (i - 1) : t.rob[k] = s.rob[k]
  BY <1>1
<1>5. Sees(s, i, l, r) <=> Sees(t, i, l, r)
  BY <1>2, <1>3, <1>4 DEF Sees
<1> QED  BY <1>5 DEF t

(***************************************************************************)
(* Allocating one uop to a register that is free and of the right class    *)
(* keeps every part of the renaming invariant.                             *)
(***************************************************************************)
LEMMA AllocOneInv ==
    ASSUME NEW s, RenameInv(s), NEW u \in Uop, NEW p \in Choice(s, u)
    PROVE  RenameInv(AllocOne(s, u, p))
<1> DEFINE t == AllocOne(s, u, p)
           n == Len(s.rob)
<1>0. TypeInv(s)
  BY DEF RenameInv
<1>1. /\ n \in Nat
      /\ Len(t.rob) = n + 1
      /\ \A i \in 1 .. n : t.rob[i] = s.rob[i]
      /\ t.rob[n + 1] = Renamed(s, u, p)
  BY <1>0, AllocRob
<1>2. /\ t.rat = Map(s.rat, u.dst, p) /\ t.rrat = s.rrat /\ t.rfree = s.rfree
      /\ t.free = s.free \ Taken(u.dst, p)
  BY DEF AllocOne
<1>3. /\ u.dst # NoReg => p \in PREG /\ p \in s.free /\ p \in Pool[u.dst]
      /\ u.dst \in LREG \cup {NoReg} /\ u.src \in LREG \cup {NoReg}
  BY <1>0, RenamedType
<1>4. \A i \in 1 .. (n + 1) : \A l, r : Sees(s, i, l, r) <=> Sees(t, i, l, r)
  BY <1>0, SeesKept
<1>5. /\ t.rob[n + 1].dst = u.dst
      /\ t.rob[n + 1].src = u.src
      /\ u.dst # NoReg => t.rob[n + 1].pdst = p /\ t.rob[n + 1].old = s.rat[u.dst]
      /\ u.src # NoReg => t.rob[n + 1].psrc = s.rat[u.src]
  BY <1>1 DEF Renamed
<1>6. TypeInv(t)
  BY <1>0, AllocOneType
<1>7. \A l \in LREG : Sees(s, n + 1, l, s.rat[l])
  BY DEF RenameInv, RatInv
<1> HIDE DEF t, n
<1>8. RatInv(t)
  <2>0. Len(t.rob) + 1 = n + 2
    BY <1>1
  <2> SUFFICES ASSUME NEW l \in LREG
               PROVE  Sees(t, n + 2, l, t.rat[l])
    BY <2>0 DEF RatInv
  <2>1. CASE u.dst = l
    <3>1. t.rat[l] = p
      BY <2>1, <1>0, <1>2, <1>3, RenameAssumption DEF Map, TypeInv
    <3>2. n + 1 \in 1 .. ((n + 2) - 1) /\ \A k \in ((n + 1) + 1) .. ((n + 2) - 1) : FALSE
      BY <1>1
    <3> QED  BY <3>1, <3>2, <2>1, <1>5, RenameAssumption DEF Sees
  <2>2. CASE u.dst # l
    <3>1. t.rat[l] = s.rat[l]
      BY <2>2, <1>0, <1>2 DEF Map, TypeInv
    <3>2. Sees(t, n + 1, l, t.rat[l])
      BY <3>1, <1>1, <1>4, <1>7
    <3>3. t.rob[n + 1].dst # l
      BY <2>2, <1>5
    <3>4. /\ \A j \in 1 .. ((n + 1) - 1) : j \in 1 .. ((n + 2) - 1)
          /\ \A j \in 1 .. ((n + 2) - 1) : j \in 1 .. ((n + 1) - 1) \/ j = n + 1
          /\ \A j \in 1 .. ((n + 1) - 1) : \A k \in (j + 1) .. ((n + 2) - 1) :
                k \in (j + 1) .. ((n + 1) - 1) \/ k = n + 1
      BY <1>1
    <3> QED  BY <3>2, <3>3, <3>4 DEF Sees
  <2> QED  BY <2>1, <2>2
<1>9. OldInv(t)
  <2> SUFFICES ASSUME NEW i \in 1 .. (n + 1), t.rob[i].dst # NoReg
               PROVE  Sees(t, i, t.rob[i].dst, t.rob[i].old)
    BY <1>1 DEF OldInv
  <2>1. CASE i \in 1 .. n
    BY <2>1, <1>1, <1>4 DEF RenameInv, OldInv, n
  <2>2. CASE i = n + 1
    BY <2>2, <1>1, <1>3, <1>4, <1>5, <1>7
  <2> QED  BY <2>1, <2>2, <1>1
<1>10. SrcInv(t)
  <2> SUFFICES ASSUME NEW i \in 1 .. (n + 1), t.rob[i].src # NoReg
               PROVE  Sees(t, i, t.rob[i].src, t.rob[i].psrc)
    BY <1>1 DEF SrcInv
  <2>1. CASE i \in 1 .. n
    BY <2>1, <1>1, <1>4 DEF RenameInv, SrcInv, n
  <2>2. CASE i = n + 1
    BY <2>2, <1>1, <1>3, <1>4, <1>5, <1>7
  <2> QED  BY <2>1, <2>2, <1>1
<1>11. /\ \A l, m \in LREG : s.rrat[l] = s.rrat[m] => l = m
       /\ \A l \in LREG : s.rrat[l] \notin s.free
       /\ \A i \in 1 .. n : s.rob[i].dst # NoReg =>
             /\ s.rob[i].pdst \notin s.free
             /\ \A l \in LREG : s.rob[i].pdst # s.rrat[l]
             /\ \A j \in 1 .. n :
                   s.rob[j].dst # NoReg /\ s.rob[i].pdst = s.rob[j].pdst => i = j
  BY DEF RenameInv, ExclusiveInv, n
<1>12. ExclusiveInv(t)
  <2>1. ASSUME NEW i \in 1 .. (n + 1), t.rob[i].dst # NoReg
        PROVE  /\ t.rob[i].pdst \notin t.free
               /\ \A l \in LREG : t.rob[i].pdst # t.rrat[l]
               /\ \A j \in 1 .. (n + 1) :
                     t.rob[j].dst # NoReg /\ t.rob[i].pdst = t.rob[j].pdst => i = j
    <3>1. CASE i \in 1 .. n
      <4>1. /\ t.rob[i] = s.rob[i]
            /\ s.rob[i].dst # NoReg
        BY <3>1, <2>1, <1>1
      <4>2. /\ s.rob[i].pdst \notin s.free
            /\ \A l \in LREG : s.rob[i].pdst # s.rrat[l]
        BY <4>1, <3>1, <1>11
      <4>3. t.rob[i].pdst \notin t.free /\ \A l \in LREG : t.rob[i].pdst # t.rrat[l]
        BY <4>1, <4>2, <1>2
      <4>4. ASSUME NEW j \in 1 .. (n + 1), t.rob[j].dst # NoReg, t.rob[i].pdst = t.rob[j].pdst
            PROVE  i = j
        <5>1. CASE j \in 1 .. n
          <6>1. t.rob[j] = s.rob[j]
            BY <5>1, <1>1
          <6> QED  BY <6>1, <5>1, <4>1, <4>4, <3>1, <1>11
        <5>2. CASE j = n + 1
          <6>1. t.rob[j].pdst \in s.free
            BY <5>2, <4>4, <1>3, <1>5
          <6> QED  BY <6>1, <4>1, <4>2, <4>4
        <5> QED  BY <5>1, <5>2, <1>1
      <4> QED  BY <4>3, <4>4
    <3>2. CASE i = n + 1
      BY <3>2, <2>1, <1>1, <1>2, <1>3, <1>5, <1>11 DEF Taken
    <3> QED  BY <3>1, <3>2, <1>1
  <2> QED  BY <2>1, <1>1, <1>2, <1>11 DEF ExclusiveInv, Taken
<1>13. NoLeakInv(t)
  <2> SUFFICES ASSUME NEW r \in PREG
               PROVE  \/ r \in t.free
                      \/ \E i \in 1 .. (n + 1) : t.rob[i].dst # NoReg /\ t.rob[i].pdst = r
                      \/ \E l \in LREG : t.rrat[l] = r
    BY <1>1 DEF NoLeakInv
  <2>1. CASE r \in s.free
    BY <2>1, <1>1, <1>2, <1>5 DEF Taken
  <2>2. CASE \E i \in 1 .. n : s.rob[i].dst # NoReg /\ s.rob[i].pdst = r
    BY <2>2, <1>1
  <2>3. CASE \E l \in LREG : s.rrat[l] = r
    BY <2>3, <1>2
  <2> QED  BY <2>1, <2>2, <2>3 DEF RenameInv, NoLeakInv, n
<1>14. RetireInv(t)
  BY <1>2 DEF RenameInv, RetireInv
<1>15. PoolInv(t)
  <2>1. \A l \in LREG : t.rat[l] \in Pool[l] /\ t.rrat[l] \in Pool[l]
    BY <1>0, <1>2, <1>3 DEF RenameInv, PoolInv, Map, TypeInv
  <2>2. ASSUME NEW i \in 1 .. (n + 1), t.rob[i].dst # NoReg
        PROVE  t.rob[i].pdst \in Pool[t.rob[i].dst]
    <3>1. CASE i \in 1 .. n
      BY <3>1, <2>2, <1>1 DEF RenameInv, PoolInv, n
    <3>2. CASE i = n + 1
      BY <3>2, <2>2, <1>3, <1>5
    <3> QED  BY <3>1, <3>2, <1>1
  <2> QED  BY <2>1, <2>2, <1>1 DEF PoolInv
<1> QED
  BY <1>6, <1>8, <1>9, <1>10, <1>12, <1>13, <1>14, <1>15 DEF RenameInv, t

-----------------------------------------------------------------------------
(* Retirement keeps the renaming state sound.                              *)

\* The uops that remain move one position towards the head.
LEMMA RetireRob ==
    ASSUME NEW s, TypeInv(s), Len(s.rob) >= 1
    PROVE  LET t == RetireOne(s) IN
           /\ t.rob \in Seq(Entry)
           /\ Len(s.rob) \in Nat
           /\ Len(t.rob) = Len(s.rob) - 1
           /\ \A i \in 1 .. (Len(s.rob) - 1) : t.rob[i] = s.rob[i + 1]
           /\ Head(s.rob) = s.rob[1]
           /\ s.rob[1] \in Entry
<1>1. s.rob \in Seq(Entry) /\ s.rob # <<>>
  BY DEF TypeInv
<1>2. s.rob[1] \in Entry
  BY <1>1
<1> QED  BY <1>1, <1>2 DEF RetireOne

\* What a uop saw in flight it sees in the architectural state once the writer
\* has retired.
LEMMA SeesShifted ==
    ASSUME NEW s, TypeInv(s), Len(s.rob) >= 1,
           NEW i \in 1 .. Len(s.rob), NEW l \in LREG, NEW r, Sees(s, i + 1, l, r)
    PROVE  Sees(RetireOne(s), i, l, r)
<1> DEFINE t == RetireOne(s)
           n == Len(s.rob)
           h == s.rob[1]
<1>1. /\ n \in Nat
      /\ \A j \in 1 .. (n - 1) : t.rob[j] = s.rob[j + 1]
      /\ Head(s.rob) = h
      /\ h \in Entry
  BY RetireRob
<1>2. t.rrat = Map(s.rrat, h.dst, h.pdst) /\ s.rrat \in [LREG -> PREG]
  BY <1>1 DEF RetireOne, TypeInv
<1> HIDE DEF t
<1>3. CASE \E j \in 1 .. i :
              /\ s.rob[j].dst = l
              /\ s.rob[j].pdst = r
              /\ \A k \in (j + 1) .. i : s.rob[k].dst # l
  <2>1. PICK j \in 1 .. i :
              /\ s.rob[j].dst = l
              /\ s.rob[j].pdst = r
              /\ \A k \in (j + 1) .. i : s.rob[k].dst # l
    BY <1>3
  <2>2. CASE j = 1
    <3>1. \A k \in 1 .. (i - 1) : t.rob[k].dst # l
      <4> TAKE k \in 1 .. (i - 1)
      <4>1. k \in 1 .. (n - 1) /\ k + 1 \in 2 .. i
        BY <1>1
      <4>2. s.rob[k + 1].dst # l
        BY <4>1, <2>1, <2>2
      <4> QED  BY <4>1, <4>2, <1>1
    <3>2. t.rrat[l] = r
      BY <2>1, <2>2, <1>2, RenameAssumption DEF Map
    <3> QED  BY <3>1, <3>2 DEF Sees, t
  <2>3. CASE j > 1
    <3>1. j - 1 \in 1 .. (i - 1) /\ t.rob[j - 1] = s.rob[j]
      BY <2>3, <1>1
    <3>2. \A k \in ((j - 1) + 1) .. (i - 1) : t.rob[k].dst # l
      <4> TAKE k \in ((j - 1) + 1) .. (i - 1)
      <4>1. k \in 1 .. (n - 1) /\ k + 1 \in (j + 1) .. i
        BY <2>3, <1>1
      <4>2. s.rob[k + 1].dst # l
        BY <4>1, <2>1
      <4> QED  BY <4>1, <4>2, <1>1
    <3> QED  BY <3>1, <3>2, <2>1 DEF Sees, t
  <2> QED  BY <2>2, <2>3
<1>4. CASE (\A j \in 1 .. i : s.rob[j].dst # l) /\ r = s.rrat[l]
  <2>1. \A j \in 1 .. (i - 1) : t.rob[j].dst # l
    BY <1>4, <1>1
  <2>2. h.dst # l
    BY <1>4
  <2>3. t.rrat[l] = r
    BY <1>2, <1>4, <2>2 DEF Map
  <2> QED  BY <2>1, <2>3 DEF Sees, t
<1>5. (i + 1) - 1 = i
  OBVIOUS
<1> QED  BY <1>3, <1>4, <1>5 DEF Sees

\* Retiring the head frees exactly the register that was architectural for the
\* same logical register until now.
LEMMA OldIsArchitectural ==
    ASSUME NEW s, RenameInv(s), Len(s.rob) >= 1, s.rob[1].dst # NoReg
    PROVE  s.rob[1].dst \in LREG /\ s.rob[1].old = s.rrat[s.rob[1].dst]
<1>1. TypeInv(s)
  BY DEF RenameInv
<1>2. Len(s.rob) \in Nat /\ s.rob[1] \in Entry
  BY <1>1, RetireRob
<1>3. Sees(s, 1, s.rob[1].dst, s.rob[1].old)
  BY <1>2 DEF RenameInv, OldInv
<1>4. \A j \in 1 .. (1 - 1) : FALSE
  OBVIOUS
<1> QED  BY <1>2, <1>3, <1>4 DEF Sees, Entry

(***************************************************************************)
(* Retiring the oldest uop keeps every part of the renaming invariant.     *)
(***************************************************************************)
LEMMA RetireOneInv ==
    ASSUME NEW s, RenameInv(s), Len(s.rob) >= 1
    PROVE  RenameInv(RetireOne(s))
<1> DEFINE t == RetireOne(s)
           n == Len(s.rob)
           h == s.rob[1]
<1>0. TypeInv(s)
  BY DEF RenameInv
<1>1. /\ t.rob \in Seq(Entry)
      /\ n \in Nat /\ n >= 1
      /\ Len(t.rob) = n - 1
      /\ \A i \in 1 .. (n - 1) : t.rob[i] = s.rob[i + 1]
      /\ Head(s.rob) = h
      /\ h \in Entry
  BY <1>0, RetireRob
<1>2. /\ t.rat = s.rat
      /\ t.rrat = Map(s.rrat, h.dst, h.pdst)
      /\ t.free = s.free \cup Taken(h.dst, h.old)
      /\ t.rfree = (s.rfree \ Taken(h.dst, h.pdst)) \cup Taken(h.dst, h.old)
  BY <1>1 DEF RetireOne
<1>3. /\ s.rat \in [LREG -> PREG] /\ s.rrat \in [LREG -> PREG]
      /\ s.free \in SUBSET PREG /\ s.rfree \in SUBSET PREG
      /\ h.dst # NoReg => h.pdst \in PREG /\ h.old \in PREG
  BY <1>0, <1>1 DEF TypeInv
<1>4. h.dst # NoReg => h.dst \in LREG /\ h.old = s.rrat[h.dst]
  BY <1>1, OldIsArchitectural
<1>5. \A i \in 1 .. n, l \in LREG : \A r : Sees(s, i + 1, l, r) => Sees(t, i, l, r)
  BY <1>0, <1>1, SeesShifted
<1>6. /\ \A l, m \in LREG : s.rrat[l] = s.rrat[m] => l = m
      /\ \A l \in LREG : s.rrat[l] \notin s.free
      /\ \A i \in 1 .. n : s.rob[i].dst # NoReg =>
            /\ s.rob[i].pdst \notin s.free
            /\ \A l \in LREG : s.rob[i].pdst # s.rrat[l]
            /\ \A j \in 1 .. n :
                  s.rob[j].dst # NoReg /\ s.rob[i].pdst = s.rob[j].pdst => i = j
  BY DEF RenameInv, ExclusiveInv
<1>7. /\ 1 \in 1 .. n
      /\ \A i \in 1 .. (n - 1) : i + 1 \in 1 .. n /\ i + 1 # 1
  BY <1>1
<1>8. t.rrat \in [LREG -> PREG]
  BY <1>2, <1>3, <1>4 DEF Map
<1>9. \A l \in LREG : t.rrat[l] = IF l = h.dst THEN h.pdst ELSE s.rrat[l]
  BY <1>2, <1>3, <1>4, RenameAssumption DEF Map
<1> HIDE DEF t, n, h
<1>10. TypeInv(t)
  <2>1. \A i \in 1 .. n :
          /\ s.rob[i].dst # NoReg => s.rob[i].pdst \in PREG /\ s.rob[i].old \in PREG
          /\ s.rob[i].src # NoReg => s.rob[i].psrc \in PREG
    BY <1>0 DEF TypeInv, n
  <2>2. t.free \in SUBSET PREG /\ t.rfree \in SUBSET PREG
    BY <1>2, <1>3 DEF Taken
  <2>3. \A i \in 1 .. Len(t.rob) :
          /\ t.rob[i].dst # NoReg => t.rob[i].pdst \in PREG /\ t.rob[i].old \in PREG
          /\ t.rob[i].src # NoReg => t.rob[i].psrc \in PREG
    BY <2>1, <1>1, <1>7
  <2> QED  BY <2>2, <2>3, <1>1, <1>2, <1>3, <1>8 DEF TypeInv
<1>11. RatInv(t)
  <2>1. n \in 1 .. n /\ Len(t.rob) + 1 = n
    BY <1>1
  <2>2. \A l \in LREG : Sees(s, n + 1, l, s.rat[l])
    BY DEF RenameInv, RatInv, n
  <2>3. \A l \in LREG : Sees(t, n, l, t.rat[l])
    BY <2>1, <2>2, <1>2, <1>5
  <2> QED  BY <2>1, <2>3 DEF RatInv
<1>12. OldInv(t)
  <2> SUFFICES ASSUME NEW i \in 1 .. (n - 1), t.rob[i].dst # NoReg
               PROVE  Sees(t, i, t.rob[i].dst, t.rob[i].old)
    BY <1>1 DEF OldInv
  <2>1. t.rob[i] = s.rob[i + 1] /\ i \in 1 .. n /\ i + 1 \in 1 .. n
    BY <1>1, <1>7
  <2>2. s.rob[i + 1].dst \in LREG
    <3>1. s.rob \in Seq(Entry) /\ i + 1 \in 1 .. Len(s.rob)
      BY <1>0, <2>1 DEF TypeInv, n
    <3>2. s.rob[i + 1] \in Entry
      BY <3>1
    <3> QED  BY <3>2, <2>1 DEF Entry
  <2>3. Sees(s, i + 1, s.rob[i + 1].dst, s.rob[i + 1].old)
    BY <2>1 DEF RenameInv, OldInv, n
  <2> QED  BY <2>1, <2>2, <2>3, <1>5
<1>13. SrcInv(t)
  <2> SUFFICES ASSUME NEW i \in 1 .. (n - 1), t.rob[i].src # NoReg
               PROVE  Sees(t, i, t.rob[i].src, t.rob[i].psrc)
    BY <1>1 DEF SrcInv
  <2>1. t.rob[i] = s.rob[i + 1] /\ i \in 1 .. n /\ i + 1 \in 1 .. n
    BY <1>1, <1>7
  <2>2. s.rob[i + 1].src \in LREG
    <3>1. s.rob \in Seq(Entry) /\ i + 1 \in 1 .. Len(s.rob)
      BY <1>0, <2>1 DEF TypeInv, n
    <3>2. s.rob[i + 1] \in Entry
      BY <3>1
    <3> QED  BY <3>2, <2>1 DEF Entry
  <2>3. Sees(s, i + 1, s.rob[i + 1].src, s.rob[i + 1].psrc)
    BY <2>1 DEF RenameInv, SrcInv, n
  <2> QED  BY <2>1, <2>2, <2>3, <1>5
<1>14. \A i \in 1 .. (n - 1) : t.rob[i].dst # NoReg =>
          /\ t.rob[i].pdst \notin s.free
          /\ \A l \in LREG : t.rob[i].pdst # s.rrat[l]
          /\ h.dst # NoReg => t.rob[i].pdst # h.pdst
          /\ \A j \in 1 .. (n - 1) :
                t.rob[j].dst # NoReg /\ t.rob[i].pdst = t.rob[j].pdst => i = j
  <2> TAKE i \in 1 .. (n - 1)
  <2> HAVE t.rob[i].dst # NoReg
  <2>1. t.rob[i] = s.rob[i + 1] /\ i + 1 \in 1 .. n /\ i + 1 # 1
    BY <1>1, <1>7
  <2>2. \A j \in 1 .. (n - 1) : t.rob[j] = s.rob[j + 1] /\ j + 1 \in 1 .. n
    BY <1>1, <1>7
  <2>3. ASSUME NEW j \in 1 .. (n - 1), t.rob[j].dst # NoReg, t.rob[i].pdst = t.rob[j].pdst
        PROVE  i = j
    <3>1. i + 1 = j + 1
      BY <2>1, <2>2, <2>3, <1>6
    <3> QED  BY <3>1
  <2>4. h.dst # NoReg => t.rob[i].pdst # h.pdst
    BY <2>1, <1>6, <1>7 DEF h
  <2> QED  BY <2>1, <2>3, <2>4, <1>6
<1>15. h.dst # NoReg => /\ h.pdst \notin s.free
                        /\ \A l \in LREG : h.pdst # s.rrat[l]
  BY <1>6, <1>7 DEF h
<1>16. ExclusiveInv(t)
  <2>1. \A l, m \in LREG : t.rrat[l] = t.rrat[m] => l = m
    BY <1>6, <1>9, <1>15, RenameAssumption
  <2>2. \A l \in LREG : t.rrat[l] \notin t.free
    <3>1. CASE h.dst = NoReg
      BY <3>1, <1>2, <1>6, <1>9, RenameAssumption DEF Taken
    <3>2. CASE h.dst # NoReg
      <4>1. t.free = s.free \cup {h.old} /\ h.old = s.rrat[h.dst] /\ h.dst \in LREG
        BY <3>2, <1>2, <1>4 DEF Taken
      <4>2. \A l \in LREG : t.rrat[l] \notin s.free
        BY <3>2, <1>6, <1>9, <1>15
      <4>3. \A l \in LREG : t.rrat[l] # h.old
        <5> TAKE l \in LREG
        <5>1. CASE l = h.dst
          BY <5>1, <3>2, <4>1, <1>9, <1>15
        <5>2. CASE l # h.dst
          <6>1. t.rrat[l] = s.rrat[l]
            BY <5>2, <1>9
          <6> QED  BY <6>1, <5>2, <4>1, <1>6
        <5> QED  BY <5>1, <5>2
      <4> QED  BY <4>1, <4>2, <4>3
    <3> QED  BY <3>1, <3>2
  <2>3. \A i \in 1 .. (n - 1) : t.rob[i].dst # NoReg =>
          /\ t.rob[i].pdst \notin t.free
          /\ \A l \in LREG : t.rob[i].pdst # t.rrat[l]
    BY <1>2, <1>4, <1>9, <1>14, RenameAssumption DEF Taken
  <2> QED  BY <2>1, <2>2, <2>3, <1>1, <1>14 DEF ExclusiveInv
<1>17. NoLeakInv(t)
  <2> SUFFICES ASSUME NEW r \in PREG
               PROVE  \/ r \in t.free
                      \/ \E i \in 1 .. (n - 1) : t.rob[i].dst # NoReg /\ t.rob[i].pdst = r
                      \/ \E l \in LREG : t.rrat[l] = r
    BY <1>1 DEF NoLeakInv
  <2>1. CASE r \in s.free
    BY <2>1, <1>2
  <2>2. CASE \E i \in 1 .. n : s.rob[i].dst # NoReg /\ s.rob[i].pdst = r
    <3>1. PICK i \in 1 .. n : s.rob[i].dst # NoReg /\ s.rob[i].pdst = r
      BY <2>2
    <3>2. CASE i = 1
      BY <3>1, <3>2, <1>4, <1>9 DEF h
    <3>3. CASE i # 1
      <4>1. i - 1 \in 1 .. (n - 1) /\ (i - 1) + 1 = i
        BY <3>3, <1>1
      <4>2. t.rob[i - 1] = s.rob[i]
        BY <4>1, <1>1
      <4> QED  BY <4>1, <4>2, <3>1
    <3> QED  BY <3>2, <3>3
  <2>3. CASE \E l \in LREG : s.rrat[l] = r
    BY <2>3, <1>2, <1>4, <1>9, RenameAssumption DEF Taken
  <2> QED  BY <2>1, <2>2, <2>3 DEF RenameInv, NoLeakInv, n
<1>18. RetireInv(t)
  <2>1. \A r \in PREG : r \in s.rfree <=> \A l \in LREG : s.rrat[l] # r
    BY DEF RenameInv, RetireInv
  <2>2. CASE h.dst = NoReg
    BY <2>1, <2>2, <1>2, <1>9, RenameAssumption DEF RetireInv, Taken
  <2>3. CASE h.dst # NoReg
    <3>1. t.rfree = (s.rfree \ {h.pdst}) \cup {h.old}
      BY <2>3, <1>2 DEF Taken
    <3>2. \A l \in LREG : l # h.dst => t.rrat[l] # h.old
      BY <2>3, <1>4, <1>6, <1>9
    <3>3. t.rrat[h.dst] = h.pdst /\ h.pdst # h.old
      BY <2>3, <1>4, <1>9, <1>15
    <3> QED  BY <2>1, <2>3, <3>1, <3>2, <3>3, <1>4, <1>9 DEF RetireInv
  <2> QED  BY <2>2, <2>3
<1>19. PoolInv(t)
  <2>1. /\ \A l \in LREG : s.rat[l] \in Pool[l] /\ s.rrat[l] \in Pool[l]
        /\ \A i \in 1 .. n : s.rob[i].dst # NoReg => s.rob[i].pdst \in Pool[s.rob[i].dst]
    BY DEF RenameInv, PoolInv, n
  <2>2. \A l \in LREG : t.rat[l] \in Pool[l] /\ t.rrat[l] \in Pool[l]
    <3> SUFFICES ASSUME NEW l \in LREG PROVE t.rat[l] \in Pool[l] /\ t.rrat[l] \in Pool[l]
      OBVIOUS
    <3>1. t.rat[l] \in Pool[l]
      BY <2>1, <1>2
    <3>2. l = h.dst => h.pdst \in Pool[l]
      BY <2>1, <1>7, RenameAssumption DEF h
    <3> QED  BY <3>1, <3>2, <2>1, <1>9
  <2>3. \A i \in 1 .. Len(t.rob) : t.rob[i].dst # NoReg => t.rob[i].pdst \in Pool[t.rob[i].dst]
    BY <2>1, <1>1, <1>7
  <2> QED  BY <2>2, <2>3 DEF PoolInv
<1> QED
  BY <1>10, <1>11, <1>12, <1>13, <1>16, <1>17, <1>18, <1>19 DEF RenameInv, t

-----------------------------------------------------------------------------
(* Recovery, and the two-wide clock.                                       *)

\* Copying the architectural tables over the speculative ones and emptying the
\* reorder buffer yields a sound state, whatever was in flight.
LEMMA RecoverInv ==
    ASSUME NEW s, RenameInv(s)
    PROVE  RenameInv(Recover(s))
<1> DEFINE t == Recover(s)
<1>1. /\ t.rat = s.rrat /\ t.rrat = s.rrat /\ t.free = s.rfree /\ t.rfree = s.rfree
      /\ t.rob = <<>>
  BY DEF Recover
<1>2. TypeInv(s) /\ ExclusiveInv(s) /\ RetireInv(s) /\ PoolInv(s)
  BY DEF RenameInv
<1> HIDE DEF t
<1>3. t.rob \in Seq(Entry) /\ Len(t.rob) = 0 /\ \A i \in 1 .. Len(t.rob) : FALSE
  BY <1>1
<1>4. TypeInv(t)
  BY <1>1, <1>2, <1>3 DEF TypeInv
<1>5. RatInv(t)
  <2>1. \A j \in 1 .. ((Len(t.rob) + 1) - 1) : FALSE
    BY <1>3
  <2> QED  BY <2>1, <1>1 DEF RatInv, Sees
<1>6. OldInv(t) /\ SrcInv(t)
  BY <1>3 DEF OldInv, SrcInv
<1>7. ExclusiveInv(t)
  BY <1>1, <1>2, <1>3 DEF ExclusiveInv, RetireInv, TypeInv
<1>8. NoLeakInv(t) /\ RetireInv(t)
  BY <1>1, <1>2, <1>3 DEF NoLeakInv, RetireInv
<1>9. PoolInv(t)
  BY <1>1, <1>2, <1>3 DEF PoolInv
<1> QED
  BY <1>4, <1>5, <1>6, <1>7, <1>8, <1>9 DEF RenameInv, t

(***************************************************************************)
(* Renaming two uops of one clock against the registered table, with the   *)
(* first forwarded to the second, is renaming them one after the other.    *)
(***************************************************************************)
LEMMA AllocTwoIsSequential ==
    ASSUME NEW s, TypeInv(s), NEW u \in Uop, NEW v \in Uop,
           NEW p \in Choice(s, u), NEW q
    PROVE  AllocTwo(s, u, p, v, q) = AllocOne(AllocOne(s, u, p), v, q)
<1> DEFINE t == AllocOne(s, u, p)
<1>1. /\ t.rat = Map(s.rat, u.dst, p)
      /\ t.rrat = s.rrat /\ t.rfree = s.rfree
      /\ t.free = s.free \ Taken(u.dst, p)
      /\ t.rob = Append(s.rob, Renamed(s, u, p))
  BY DEF AllocOne
<1>2. /\ s.rat \in [LREG -> PREG]
      /\ u.dst \in LREG \cup {NoReg}
      /\ v.dst \in LREG \cup {NoReg} /\ v.src \in LREG \cup {NoReg}
  BY DEF TypeInv, Uop
<1> HIDE DEF t
<1>3. \A l \in LREG : t.rat[l] = IF l = u.dst THEN p ELSE s.rat[l]
  BY <1>1, <1>2, RenameAssumption DEF Map
<1>4. RenamedSecond(s, u, p, v, q) = Renamed(t, v, q)
  BY <1>2, <1>3 DEF RenamedSecond, Renamed
<1>5. s.free \ (Taken(u.dst, p) \cup Taken(v.dst, q)) = t.free \ Taken(v.dst, q)
  BY <1>1
<1> QED
  BY <1>1, <1>4, <1>5 DEF AllocTwo, AllocOne, t

\* The second register is still there once the first is taken.
LEMMA SecondChoice ==
    ASSUME NEW s, TypeInv(s), NEW u \in Uop, NEW v \in Uop,
           NEW p \in Choice(s, u), NEW q \in Choice(s, v),
           p # NoReg => p # q
    PROVE  q \in Choice(AllocOne(s, u, p), v)
<1>1. u.dst # NoReg => p # q
  BY RenamedType, RenameAssumption
<1>2. AllocOne(s, u, p).free = s.free \ Taken(u.dst, p)
  BY DEF AllocOne
<1> QED  BY <1>1, <1>2 DEF Choice, Taken

\* A clock retires at most two uops that were in flight before it.
LEMMA RetiredInv ==
    ASSUME NEW s, RenameInv(s), NEW n \in 0 .. 2, n <= Len(s.rob)
    PROVE  RenameInv(Retired(s, n)) /\ Len(Retired(s, n).rob) = Len(s.rob) - n
<1>1. TypeInv(s) /\ Len(s.rob) \in Nat
  BY DEF RenameInv, TypeInv
<1>2. CASE n = 0
  BY <1>1, <1>2 DEF Retired
<1>3. CASE n = 1
  BY <1>1, <1>3, RetireOneInv, RetireRob DEF Retired
<1>4. CASE n = 2
  <2>1. RenameInv(RetireOne(s)) /\ Len(RetireOne(s).rob) = Len(s.rob) - 1
    BY <1>1, <1>4, RetireOneInv, RetireRob
  <2>2. TypeInv(RetireOne(s)) /\ Len(RetireOne(s).rob) >= 1
    BY <2>1, <1>1, <1>4 DEF RenameInv
  <2>3. /\ RenameInv(RetireOne(RetireOne(s)))
        /\ Len(RetireOne(RetireOne(s)).rob) = Len(RetireOne(s).rob) - 1
    BY <2>1, <2>2, RetireOneInv, RetireRob
  <2> QED  BY <2>1, <2>3, <1>1, <1>4 DEF Retired
<1> QED  BY <1>2, <1>3, <1>4

\* The state after reset.
LEMMA InitInv == Init => RenameInv(State) /\ Len(rob) <= ROB_ENTRIES
<1> SUFFICES ASSUME Init PROVE RenameInv(State) /\ Len(rob) <= ROB_ENTRIES
  OBVIOUS
<1> DEFINE t == State
<1>1. /\ t.rat = ResetRat /\ t.rrat = ResetRat
      /\ t.free = PREG \ {ResetRat[l] : l \in LREG} /\ t.rfree = t.free
      /\ t.rob = <<>>
  BY DEF Init, State
<1> HIDE DEF t
<1>2. /\ \A i \in 1 .. Len(t.rob) : FALSE
      /\ \A i \in 1 .. ((Len(t.rob) + 1) - 1) : FALSE
      /\ t.rob \in Seq(Entry)
  BY <1>1
<1>3. TypeInv(t)
  BY <1>1, <1>2, RenameAssumption DEF TypeInv
<1>4. RatInv(t) /\ OldInv(t) /\ SrcInv(t)
  BY <1>1, <1>2 DEF RatInv, OldInv, SrcInv, Sees
<1>5. ExclusiveInv(t) /\ NoLeakInv(t) /\ RetireInv(t)
  <2>1. \A r \in PREG : r \in t.free <=> \A l \in LREG : t.rrat[l] # r
    BY <1>1
  <2>2. \A l \in LREG : t.rrat[l] \in PREG
    BY <1>1, RenameAssumption
  <2>3. ExclusiveInv(t)
    BY <2>1, <2>2, <1>1, <1>2, RenameAssumption DEF ExclusiveInv
  <2>4. NoLeakInv(t)
    BY <2>1 DEF NoLeakInv
  <2>5. RetireInv(t)
    BY <2>1, <1>1 DEF RetireInv
  <2> QED  BY <2>3, <2>4, <2>5
<1>6. PoolInv(t)
  BY <1>1, <1>2, RenameAssumption DEF PoolInv
<1>7. Len(rob) <= ROB_ENTRIES
  BY RenameAssumption DEF Init
<1> QED  BY <1>3, <1>4, <1>5, <1>6, <1>7 DEF RenameInv, t

-----------------------------------------------------------------------------
(* The theorems.                                                           *)

IInv == RenameInv(State) /\ Len(rob) <= ROB_ENTRIES

\* The primed variables of a step are the renaming state it computes.
LEMMA BecomesState ==
    ASSUME NEW s, Becomes(s), RenameInv(s), Len(s.rob) <= ROB_ENTRIES
    PROVE  IInv'
<1>1. /\ State'.rat = s.rat /\ State'.rrat = s.rrat /\ State'.free = s.free
      /\ State'.rfree = s.rfree /\ State'.rob = s.rob /\ rob' = s.rob
  BY DEF Becomes, State
<1>2. RenameInv(State)'
  BY <1>1 DEF RenameInv, TypeInv, RatInv, OldInv, SrcInv, ExclusiveInv, NoLeakInv,
              RetireInv, PoolInv, Sees
<1> QED  BY <1>1, <1>2 DEF IInv

\* Every clock keeps the renaming invariant.
LEMMA RenameStep == IInv /\ [Next]_vars => IInv'
<1> SUFFICES ASSUME IInv, [Next]_vars PROVE IInv'
  OBVIOUS
<1>1. /\ RenameInv(State) /\ TypeInv(State) /\ State.rob = rob
      /\ Len(rob) \in Nat /\ Len(rob) <= ROB_ENTRIES
  BY DEF IInv, RenameInv, TypeInv, State
<1>2. CASE Clock0
  <2>1. PICK n \in 0 .. 2 : MayRetire(n) /\ Becomes(Retired(State, n))
    BY <1>2 DEF Clock0
  <2>2. n <= Len(State.rob)
    BY <2>1, <1>1 DEF MayRetire
  <2>3. RenameInv(Retired(State, n)) /\ Len(Retired(State, n).rob) = Len(State.rob) - n
    BY <2>2, <1>1, RetiredInv
  <2>4. Len(Retired(State, n).rob) <= ROB_ENTRIES
    BY <2>3, <1>1, RenameAssumption
  <2> QED  BY <2>1, <2>3, <2>4, BecomesState
<1>3. CASE Clock1
  <2>1. PICK u \in Uop : \E p \in Choice(State, u), n \in 0 .. 2 :
            MayRetire(n) /\ Becomes(Retired(AllocOne(State, u, p), n))
    BY <1>3 DEF Clock1
  <2>2. PICK p \in Choice(State, u), n \in 0 .. 2 :
            MayRetire(n) /\ Becomes(Retired(AllocOne(State, u, p), n))
    BY <2>1
  <2> DEFINE t == AllocOne(State, u, p)
  <2>3. RenameInv(t) /\ Len(t.rob) = Len(rob) + 1
    BY <1>1, AllocOneInv, AllocRob
  <2>4. n <= Len(t.rob)
    BY <2>2, <2>3, <1>1 DEF MayRetire
  <2>5. RenameInv(Retired(t, n)) /\ Len(Retired(t, n).rob) = Len(t.rob) - n
    BY <2>3, <2>4, RetiredInv
  <2>6. Len(Retired(t, n).rob) <= ROB_ENTRIES
    BY <2>3, <2>5, <1>1, <1>3, RenameAssumption DEF Clock1
  <2> QED  BY <2>2, <2>5, <2>6, BecomesState
<1>4. CASE Clock2
  <2>1. PICK u \in Uop, v \in Uop :
            \E p \in Choice(State, u), q \in Choice(State, v), n \in 0 .. 2 :
               /\ p # NoReg => p # q
               /\ MayRetire(n)
               /\ Becomes(Retired(AllocTwo(State, u, p, v, q), n))
    BY <1>4 DEF Clock2
  <2>2. PICK p \in Choice(State, u), q \in Choice(State, v), n \in 0 .. 2 :
               /\ p # NoReg => p # q
               /\ MayRetire(n)
               /\ Becomes(Retired(AllocTwo(State, u, p, v, q), n))
    BY <2>1
  <2> DEFINE t == AllocOne(State, u, p)
             w == AllocOne(t, v, q)
  <2>3. RenameInv(t) /\ Len(t.rob) = Len(rob) + 1
    BY <1>1, AllocOneInv, AllocRob
  <2>4. q \in Choice(t, v)
    BY <2>2, <1>1, SecondChoice
  <2>5. RenameInv(w) /\ Len(w.rob) = Len(t.rob) + 1
    <3>1. TypeInv(t)
      BY <2>3 DEF RenameInv
    <3> HIDE DEF t
    <3> QED  BY <3>1, <2>3, <2>4, AllocOneInv, AllocRob
  <2>6. AllocTwo(State, u, p, v, q) = w
    BY <1>1, AllocTwoIsSequential
  <2> HIDE DEF t, w
  <2>7. n <= Len(w.rob)
    BY <2>2, <2>3, <2>5, <1>1 DEF MayRetire
  <2>8. RenameInv(Retired(w, n)) /\ Len(Retired(w, n).rob) = Len(w.rob) - n
    BY <2>5, <2>7, RetiredInv
  <2>9. Len(Retired(w, n).rob) <= ROB_ENTRIES
    BY <2>3, <2>5, <2>8, <1>1, <1>4, RenameAssumption DEF Clock2
  <2> QED  BY <2>2, <2>6, <2>8, <2>9, BecomesState
<1>5. CASE RatCopy
  <2>1. RenameInv(Recover(State)) /\ Recover(State).rob = <<>>
    BY <1>1, RecoverInv DEF Recover
  <2>2. Len(Recover(State).rob) <= ROB_ENTRIES
    BY <2>1, RenameAssumption
  <2> QED  BY <1>5, <2>1, <2>2, BecomesState DEF RatCopy
<1>6. CASE UNCHANGED vars
  <2>1. Becomes(State)
    BY <1>6 DEF vars, Becomes, State
  <2> QED  BY <2>1, <1>1, BecomesState
<1> QED  BY <1>2, <1>3, <1>4, <1>5, <1>6 DEF Next

(***************************************************************************)
(* The renaming invariant holds in every state: any mix of single and      *)
(* double allocation and retirement, and recovery at any moment.           *)
(***************************************************************************)
THEOREM RenameInvariant == Spec => []IInv
<1>1. Init => IInv
  BY InitInv DEF IInv
<1>2. IInv /\ [Next]_vars => IInv'
  BY RenameStep
<1> QED
  BY <1>1, <1>2, PTL DEF Spec

\* The renaming state is always well typed.
THEOREM RenameTypeCorrect == Spec => []TypeOK
<1>1. IInv => TypeOK
  BY DEF IInv, RenameInv, TypeOK
<1> QED  BY <1>1, RenameInvariant, PTL

\* No physical register is ever handed out twice and none is ever lost.
THEOREM RegistersPartitioned == Spec => []Partition
<1>1. IInv => Partition
  BY DEF IInv, RenameInv, Partition
<1> QED  BY <1>1, RenameInvariant, PTL

\* The alias table always names the youngest writer, of the right class.
THEOREM AliasTableCurrent == Spec => []YoungestWriter
<1>1. IInv => YoungestWriter
  BY DEF IInv, RenameInv, YoungestWriter
<1> QED  BY <1>1, RenameInvariant, PTL

\* Recovery may strike at any moment: the architectural free list is exact.
THEOREM RecoveryAlwaysSound == Spec => []RecoverySound
<1>1. IInv => RecoverySound
  BY DEF IInv, RenameInv, RecoverySound
<1> QED  BY <1>1, RenameInvariant, PTL

(***************************************************************************)
(* The register a uop in flight reads is never free and never the          *)
(* destination of a uop that is not older.                                 *)
(***************************************************************************)
THEOREM OperandsIntact == Spec => []SourcesIntact
<1>1. IInv => SourcesIntact
  <2> SUFFICES ASSUME IInv PROVE SourcesIntact
    OBVIOUS
  <2>1. /\ SrcInv(State) /\ ExclusiveInv(State) /\ TypeInv(State)
        /\ State.rob = rob /\ State.free = prf_free /\ State.rrat = retire_rat
    BY DEF IInv, RenameInv, State
  <2>2. Len(rob) \in Nat /\ rob \in Seq(Entry)
    BY <2>1 DEF TypeInv
  <2>3. ASSUME NEW i \in 1 .. Len(rob), rob[i].src # NoReg
        PROVE  /\ rob[i].psrc \notin prf_free
               /\ \A j \in i .. Len(rob) : rob[j].dst # NoReg => rob[j].pdst # rob[i].psrc
    <3>1. rob[i].src \in LREG
      <4>1. rob[i] \in Entry
        BY <2>2
      <4> QED  BY <4>1, <2>3 DEF Entry
    <3>2. Sees(State, i, rob[i].src, rob[i].psrc)
      BY <2>1, <2>3 DEF SrcInv
    <3>3. CASE \E j \in 1 .. (i - 1) : rob[j].dst = rob[i].src /\ rob[j].pdst = rob[i].psrc
      <4>1. PICK j \in 1 .. (i - 1) : rob[j].dst = rob[i].src /\ rob[j].pdst = rob[i].psrc
        BY <3>3
      <4>2. j \in 1 .. Len(rob) /\ rob[j].dst # NoReg
        BY <4>1, <2>2, <3>1, RenameAssumption
      <4>3. \A k \in i .. Len(rob) : k \in 1 .. Len(rob) /\ k # j
        BY <2>2
      <4> QED  BY <4>1, <4>2, <4>3, <2>1 DEF ExclusiveInv
    <3>4. CASE rob[i].psrc = retire_rat[rob[i].src]
      <4>1. \A k \in i .. Len(rob) : k \in 1 .. Len(rob)
        BY <2>2
      <4> QED  BY <4>1, <3>1, <3>4, <2>1 DEF ExclusiveInv
    <3> QED  BY <3>2, <3>3, <3>4, <2>1 DEF Sees
  <2> QED  BY <2>1, <2>3 DEF SourcesIntact
<1> QED  BY <1>1, RenameInvariant, PTL

-----------------------------------------------------------------------------
(* The banks.                                                              *)

LEMMA LeastNatural ==
    ASSUME NEW T, T \subseteq Nat, T # {}
    PROVE  \E n \in T : \A m \in T : n <= m
<1>1. PICK n \in T : \A m \in T : ~(<<m, n>> \in OpToRel(<, Nat))
  BY NatLessThanWellFounded, WFMin
<1>2. \A m \in T : ~(m < n)
  BY <1>1 DEF OpToRel
<1> QED  BY <1>2

\* The priority encoder answers with a register that is in the bank.
LEMMA EncoderHits ==
    ASSUME NEW S, S \subseteq PREG, S # {}
    PROVE  FindFirstSet(S) \in S
<1> DEFINE N == N_PRF_ENTRIES
           U == {N - i : i \in S}
<1>1. N \in Nat /\ S \subseteq 1 .. (N - 1)
  BY FreeListAssumption
<1>2. U \subseteq Nat /\ U # {}
  <2>1. \A i \in S : N - i \in Nat
    BY <1>1
  <2>2. PICK j : j \in S
    OBVIOUS
  <2>3. N - j \in U
    BY <2>2
  <2> QED  BY <2>1, <2>3
<1>3. PICK u \in U : \A v \in U : u <= v
  <2> HIDE DEF U
  <2> QED  BY <1>2, LeastNatural
<1>4. PICK n \in S : u = N - n
  BY <1>3
<1>5. ASSUME NEW m \in S PROVE n >= m
  <2>1. N - m \in U
    OBVIOUS
  <2>2. N - n <= N - m
    BY <1>3, <1>4, <2>1
  <2> QED  BY <2>2, <1>1
<1>6. Max(S) \in S
  BY <1>4, <1>5 DEF Max
<1> QED  BY <1>6 DEF FindFirstSet

\* A bank that is not empty serves a uop with a register Rename may choose.
LEMMA BankServes ==
    ASSUME IInv, NEW even \in BOOLEAN, NEW u \in Uop, u.dst # NoReg => Bank(even) # {}
    PROVE  /\ Reg(u, FindFirstSet(Bank(even))) \in Choice(State, u)
           /\ u.dst # NoReg => FindFirstSet(Bank(even)) \in PREG
           /\ u.dst # NoReg => InBank(FindFirstSet(Bank(even)), even)
<1>1. prf_free \subseteq PREG /\ State.free = prf_free
  BY DEF IInv, RenameInv, TypeInv, State
<1>2. CASE u.dst = NoReg
  BY <1>2 DEF Reg, Choice
<1>3. CASE u.dst # NoReg
  <2>1. u.dst \in LREG
    BY <1>3 DEF Uop
  <2>2. Bank(even) \subseteq PREG
    BY <1>1 DEF Bank
  <2>3. FindFirstSet(Bank(even)) \in Bank(even)
    BY <2>2, <1>3, EncoderHits
  <2>4. /\ FindFirstSet(Bank(even)) \in prf_free
        /\ InBank(FindFirstSet(Bank(even)), even)
    BY <2>3 DEF Bank
  <2>5. Pool[u.dst] = PREG
    BY <2>1, FreeListAssumption
  <2> QED  BY <1>1, <1>3, <2>4, <2>5 DEF Reg, Choice
<1> QED  BY <1>2, <1>3

(***************************************************************************)
(* While the bank that serves a lone uop is not dry, a clock of the banks  *)
(* is a clock of Rename.                                                   *)
(***************************************************************************)
LEMMA BankStep ==
    ASSUME IInv, bank_sel \in BOOLEAN, ~BankDry, [BankNext]_bankVars
    PROVE  [Next]_vars /\ bank_sel' \in BOOLEAN
<1>0. Writers \subseteq Uop /\ (~bank_sel) \in BOOLEAN
  BY DEF Writers
<1>1. CASE Idle
  BY <1>0, <1>1 DEF Idle, Flip, Next
<1>2. CASE Alloc
  <2>1. PICK u \in Writers, n \in 0 .. 2 :
            /\ EnoughPrfs(u)
            /\ MayRetire(n)
            /\ Becomes(Retired(AllocOne(State, u, Reg(u, PrfEntry)), n))
    BY <1>2 DEF Alloc
  <2>2. u \in Uop /\ Reg(u, PrfEntry) \in Choice(State, u)
    BY <2>1, <1>0, BankServes DEF EnoughPrfs, PrfEntry
  <2>3. Clock1
    BY <1>2, <2>1, <2>2 DEF Alloc, Clock1
  <2> QED  BY <2>3, <1>0, <1>2 DEF Alloc, Flip, Next
<1>3. CASE AllocBoth
  <2>1. PICK u \in Writers, v \in Writers, n \in 0 .. 2 :
            /\ EnoughPrfs(u) /\ EnoughNextPrfs(v)
            /\ v.dst \notin SinglePort
            /\ MayRetire(n)
            /\ Becomes(Retired(AllocTwo(State, u, Reg(u, PrfEntry), v, Reg(v, PrfEntry2)), n))
    BY <1>3 DEF AllocBoth
  <2> DEFINE p == Reg(u, PrfEntry)
             q == Reg(v, PrfEntry2)
  <2>2. /\ u \in Uop /\ p \in Choice(State, u)
        /\ u.dst # NoReg => PrfEntry \in PREG /\ InBank(PrfEntry, bank_sel)
    BY <2>1, <1>0, BankServes DEF EnoughPrfs, PrfEntry
  <2>3. /\ v \in Uop /\ q \in Choice(State, v)
        /\ v.dst # NoReg => PrfEntry2 \in PREG /\ InBank(PrfEntry2, ~bank_sel)
    BY <2>1, <1>0, BankServes DEF EnoughNextPrfs, PrfEntry2
  <2>4. p # NoReg => p # q
    <3>1. u.dst # NoReg /\ v.dst # NoReg => PrfEntry # PrfEntry2
      BY <2>2, <2>3 DEF InBank
    <3> QED  BY <3>1, <2>2, RenameAssumption DEF Reg
  <2>5. Clock2
    <3> HIDE DEF p, q
    <3>1. Becomes(Retired(AllocTwo(State, u, p, v, q), n))
      BY <2>1 DEF p, q
    <3>2. Len(rob) + 2 <= ROB_ENTRIES
      BY <1>3 DEF AllocBoth
    <3> QED  BY <3>1, <3>2, <2>1, <2>2, <2>3, <2>4 DEF Clock2
  <2> QED  BY <2>5, <1>0, <1>3 DEF AllocBoth, Flip, Next
<1>4. CASE AllocAlone
  <2>1. PICK u \in Writers : Becomes(AllocOne(State, u, Reg(u, PrfEntry)))
    BY <1>4 DEF AllocAlone
  <2>2. rob = <<>> /\ Bank(bank_sel) # {}
    BY <1>4 DEF AllocAlone, BankDry
  <2>3. u \in Uop /\ Reg(u, PrfEntry) \in Choice(State, u)
    BY <2>2, <1>0, BankServes DEF PrfEntry
  <2>4. MayRetire(0) /\ Len(rob) + 1 <= ROB_ENTRIES
    BY <2>2, RenameAssumption DEF MayRetire
  <2>5. Retired(AllocOne(State, u, Reg(u, PrfEntry)), 0) = AllocOne(State, u, Reg(u, PrfEntry))
    BY DEF Retired
  <2>6. Clock1
    BY <2>1, <2>3, <2>4, <2>5 DEF Clock1
  <2> QED  BY <2>6, <1>0, <1>4 DEF AllocAlone, Flip, Next
<1>5. CASE Restore
  BY <1>0, <1>5 DEF Restore, Flip, Next
<1>6. CASE UNCHANGED bankVars
  BY <1>6 DEF bankVars
<1> QED  BY <1>1, <1>2, <1>3, <1>4, <1>5, <1>6 DEF BankNext

(***************************************************************************)
(* The encoders, the flipping bank select and the two tests implement the  *)
(* open choice of Rename as long as no clock finds the reorder buffer      *)
(* empty and the bank it would serve a lone uop from dry.  That is the     *)
(* only way the code's choice can go wrong, for any number of registers.   *)
(***************************************************************************)
THEOREM BanksRefineUntilDry == BankSpec /\ []~BankDry => ImplementsRename
<1>1. BankInit => Init /\ IInv /\ bank_sel \in BOOLEAN
  BY InitInv DEF BankInit, IInv
<1>2. IInv /\ bank_sel \in BOOLEAN /\ ~BankDry /\ [BankNext]_bankVars
        => [Next]_vars /\ (IInv /\ bank_sel \in BOOLEAN)'
  BY BankStep, RenameStep
<1> QED  BY <1>1, <1>2, PTL DEF BankSpec, ImplementsRename, Spec

=============================================================================
