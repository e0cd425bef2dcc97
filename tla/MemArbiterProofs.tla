-------------------------- MODULE MemArbiterProofs --------------------------
(***************************************************************************)
(* The arbiter loses and duplicates no request, and implements MemPort,    *)
(* for every set of lines and contents and every memory latency.           *)
(***************************************************************************)
EXTENDS MemArbiter, TLAPS

\* NoLostRequest is inductive together with the types.
IInv == TypeOK /\ NoLostRequest

CacheRec(c) == [st : {"idle", "pulse", "wait"}, rq : Request(c), rsp : Data]

\* What a cache that is not answered may do in a clock.
LEMMA CacheStep ==
    ASSUME TypeOK, NEW c \in Client, NEW k \in Cache(c)
    PROVE  /\ k \in CacheRec(c)
           /\ k.rsp = cache[c].rsp
           /\ \/ k.st = cache[c].st /\ k.rq = cache[c].rq /\ k.st = "idle"
              \/ cache[c].st = "idle" /\ k.st = "pulse"
              \/ cache[c].st # "idle" /\ k.st = "wait" /\ k.rq = cache[c].rq
<1>1. cache[c] \in CacheRec(c)
  BY DEF TypeOK, CacheRec
<1>2. CASE cache[c].st = "idle"
  <2>1. CASE k = cache[c]
    BY <1>1, <1>2, <2>1 DEF CacheRec
  <2>2. CASE \E r \in Request(c) : k = [cache[c] EXCEPT !.st = "pulse", !.rq = r]
    <3>1. PICK r \in Request(c) : k = [cache[c] EXCEPT !.st = "pulse", !.rq = r]
      BY <2>2
    <3>2. k.st = "pulse" /\ k.rq = r /\ k.rsp = cache[c].rsp
      BY <1>1, <3>1 DEF CacheRec
    <3>3. k \in CacheRec(c)
      BY <1>1, <3>1 DEF CacheRec
    <3> QED
      BY <1>2, <3>2, <3>3
  <2> QED
    BY <1>2, <2>1, <2>2 DEF Cache
<1>3. CASE cache[c].st # "idle"
  <2>1. k = [cache[c] EXCEPT !.st = "wait"]
    BY <1>3 DEF Cache
  <2> QED
    BY <1>1, <1>3, <2>1 DEF CacheRec
<1> QED
  BY <1>2, <1>3

\* What an answered cache becomes.
LEMMA AnsweredStep ==
    ASSUME TypeOK, NEW c \in Client, NEW k \in Answered(c)
    PROVE  /\ k \in CacheRec(c)
           /\ k.st = "idle"
           /\ ~Selected.store => k.rsp = mem[Selected.line]
<1>1. cache[c] \in CacheRec(c)
  BY DEF TypeOK, CacheRec
<1>2. \E d \in Client : Selected \in Request(d)
  BY DEF TypeOK, Selected, Client
<1>3. Selected.line \in Line
  BY <1>2 DEF Request
<1>4. PICK d \in IF Selected.store THEN Data ELSE {mem[Selected.line]} :
         k = [cache[c] EXCEPT !.st = "idle", !.rsp = d]
  BY DEF Answered
<1>5. d \in Data
  BY <1>3, <1>4 DEF TypeOK
<1>6. k.st = "idle" /\ k.rsp = d /\ k \in CacheRec(c)
  BY <1>1, <1>4, <1>5 DEF CacheRec
<1> QED
  BY <1>4, <1>6

\* What memory does to its own registers.
LEMMA MemoryStep ==
    ASSUME TypeOK, NEW lat \in 0 .. MaxLat, Memory(lat)
    PROVE  /\ mem' \in [Line -> Data]
           /\ reply' \in -1 .. (MaxLat - 1)
           /\ Due(lat) \in -1 .. MaxLat
           /\ ~mem_req /\ reply = -1 => Due(lat) = -1
           /\ reply' # -1 => Due(lat) > 0
<1>1. Due(lat) \in -1 .. MaxLat
  BY MemArbiterAssumption DEF TypeOK, Due
<1>2. reply' \in -1 .. (MaxLat - 1) /\ (reply' # -1 => Due(lat) > 0)
  BY <1>1, MemArbiterAssumption DEF Memory
<1>3. \E d \in Client : Selected \in Request(d)
  BY DEF TypeOK, Selected, Client
<1>4. Selected.line \in Line /\ Selected.data \in Data
  BY <1>3 DEF Request
<1>5. mem' \in [Line -> Data]
  BY <1>4 DEF Memory, TypeOK
<1> QED
  BY <1>1, <1>2, <1>5 DEF Due

LEMMA InitInv == Init => IInv
<1> SUFFICES ASSUME Init PROVE IInv
  OBVIOUS
<1>1. PICK l \in Line, d \in Data :
         cache = [c \in Client |->
            [st |-> "idle", rq |-> [line |-> l, store |-> FALSE, data |-> d], rsp |-> d]]
  BY DEF Init
<1>2. \A c \in Client : cache[c] \in CacheRec(c) /\ cache[c].st = "idle"
  BY <1>1 DEF CacheRec, Request
<1>3. TypeOK
  <2>1. reply \in -1 .. (MaxLat - 1)
    BY MemArbiterAssumption DEF Init
  <2>2. /\ state \in Client \cup {"IDLE"} /\ last_gnt \in Client /\ mem_req \in BOOLEAN
        /\ req \in [Client -> BOOLEAN]
    BY DEF Init, Client
  <2>3. DOMAIN cache = Client
    BY <1>1
  <2> QED
    BY <1>2, <2>1, <2>2, <2>3 DEF Init, TypeOK, CacheRec
<1>4. NoLostRequest
  BY <1>2 DEF Init, NoLostRequest, Client
<1> QED
  BY <1>3, <1>4 DEF IInv

LEMMA IdleInv ==
    ASSUME IInv, Idle
    PROVE  IInv'
<1> USE DEF IInv
<1>1. PICK lat \in 0 .. MaxLat : Memory(lat)
  BY DEF Idle
<1>2. PICK d \in Cache("L1D"), i \in Cache("L1I") :
         cache' = [c \in Client |-> IF c = "L1D" THEN d ELSE i]
  BY DEF Idle
<1>3. DOMAIN cache' = Client /\ \A c \in Client : cache'[c] \in Cache(c)
  BY <1>2 DEF Client
<1>4. /\ req' = [c \in Client |-> Wants(c)]
      /\ last_gnt' = last_gnt
      /\ state = "IDLE"
      /\ \/ \E c \in Client : Granted(c) /\ state' = c /\ mem_req' = TRUE
         \/ (\A c \in Client : ~Wants(c)) /\ state' = state /\ mem_req' = mem_req
  BY DEF Idle
<1>5. \A c \in Client : Wants(c) \in BOOLEAN
  BY DEF Wants, TypeOK
<1>6. ~mem_req /\ reply = -1
  BY <1>4 DEF NoLostRequest
<1>7. reply' = -1
  BY <1>1, <1>6 DEF Memory, Due
<1>8. TypeOK'
  <2>1. \A c \in Client : cache'[c] \in CacheRec(c)
    BY <1>3, CacheStep
  <2>2. mem' \in [Line -> Data] /\ reply' \in -1 .. (MaxLat - 1)
    BY <1>1, MemoryStep
  <2>3. state' \in Client \cup {"IDLE"} /\ mem_req' \in BOOLEAN /\ last_gnt' \in Client
    BY <1>4 DEF TypeOK
  <2>4. req' \in [Client -> BOOLEAN]
    BY <1>4, <1>5
  <2> QED
    BY <1>3, <2>1, <2>2, <2>3, <2>4 DEF TypeOK, CacheRec, Request
<1>9. NoLostRequest'
  <2>1. mem_req' <=> state' # "IDLE"
    BY <1>4, <1>6 DEF Client
  <2>2. ASSUME NEW c \in Client
        PROVE  /\ cache'[c].st = "wait" <=> req'[c] \/ state' = c
               /\ cache'[c].st = "pulse" => ~req'[c]
    <3>1. req'[c] <=> req[c] \/ cache[c].st = "pulse"
      BY <1>4 DEF Wants
    <3>2. state' = c => req'[c]
      BY <1>4 DEF Granted, Client
    <3>3. cache[c].st = "wait" <=> req[c]
      BY <1>4 DEF NoLostRequest, Client
    <3>4. cache[c].st \in {"idle", "pulse", "wait"}
      BY DEF TypeOK
    <3>5. \/ cache'[c].st = cache[c].st /\ cache'[c].st = "idle"
          \/ cache[c].st = "idle" /\ cache'[c].st = "pulse"
          \/ cache[c].st # "idle" /\ cache'[c].st = "wait"
      BY <1>3, CacheStep
    <3> QED
      BY <3>1, <3>2, <3>3, <3>4, <3>5
  <2> QED
    BY <1>7, <2>1, <2>2 DEF NoLostRequest
<1> QED
  BY <1>8, <1>9

LEMMA GntInv ==
    ASSUME IInv, NEW g \in Client, Gnt(g)
    PROVE  IInv'
<1> USE DEF IInv
<1>1. PICK lat \in 0 .. MaxLat :
         /\ Memory(lat)
         /\ \E k \in IF Due(lat) = 0 THEN Answered(g) ELSE Cache(g), o \in Cache(Other(g)) :
               cache' = [d \in Client |-> IF d = g THEN k ELSE o]
         /\ state' = IF Due(lat) = 0 THEN "IDLE" ELSE g
         /\ mem_req' = (mem_req /\ Due(lat) # 0)
  BY DEF Gnt
<1>2. PICK k \in IF Due(lat) = 0 THEN Answered(g) ELSE Cache(g), o \in Cache(Other(g)) :
         cache' = [d \in Client |-> IF d = g THEN k ELSE o]
  BY <1>1
<1>3. /\ Other(g) \in Client /\ Other(g) # g
      /\ \A d \in Client : d = g \/ d = Other(g)
  BY DEF Other, Client
<1>4. DOMAIN cache' = Client /\ cache'[g] = k /\ cache'[Other(g)] = o
  BY <1>2, <1>3
<1>5. /\ req' = [d \in Client |-> d # g /\ Wants(d)]
      /\ last_gnt' = g
      /\ state = g
  BY DEF Gnt
<1>6. mem_req /\ g # "IDLE"
  BY <1>5 DEF NoLostRequest, Client
<1>7. cache[g].st = "wait" /\ (cache[Other(g)].st = "wait" <=> req[Other(g)])
  BY <1>3, <1>5 DEF NoLostRequest
<1>8. k \in CacheRec(g) /\ o \in CacheRec(Other(g))
  BY <1>2, <1>3, CacheStep, AnsweredStep
<1>9. k.st = IF Due(lat) = 0 THEN "idle" ELSE "wait"
  BY <1>2, <1>7, CacheStep, AnsweredStep
<1>10. TypeOK'
  <2>1. \A c \in Client : cache'[c] \in CacheRec(c)
    BY <1>3, <1>4, <1>8
  <2>2. mem' \in [Line -> Data] /\ reply' \in -1 .. (MaxLat - 1)
    BY <1>1, MemoryStep
  <2>3. state' \in Client \cup {"IDLE"} /\ mem_req' \in BOOLEAN /\ last_gnt' \in Client
    BY <1>1, <1>5, <1>6
  <2>4. req' \in [Client -> BOOLEAN]
    BY <1>5 DEF Wants, TypeOK
  <2> QED
    BY <1>4, <2>1, <2>2, <2>3, <2>4 DEF TypeOK, CacheRec, Request
<1>11. NoLostRequest'
  <2>1. mem_req' <=> state' # "IDLE"
    BY <1>1, <1>6
  <2>2. reply' # -1 => mem_req'
    <3>1. reply' # -1 => Due(lat) > 0
      BY <1>1, MemoryStep
    <3>2. Due(lat) \in -1 .. MaxLat
      BY <1>1, MemoryStep
    <3>3. Due(lat) > 0 => Due(lat) # 0
      BY <3>2, MemArbiterAssumption
    <3> QED
      BY <1>1, <1>6, <3>1, <3>3
  <2>3. /\ cache'[g].st = "wait" <=> req'[g] \/ state' = g
        /\ cache'[g].st = "pulse" => ~req'[g]
    BY <1>1, <1>4, <1>5, <1>6, <1>9
  <2>4. /\ cache'[Other(g)].st = "wait" <=> req'[Other(g)] \/ state' = Other(g)
        /\ cache'[Other(g)].st = "pulse" => ~req'[Other(g)]
    <3>1. state' # Other(g)
      BY <1>1, <1>3 DEF Client
    <3>2. req'[Other(g)] <=> req[Other(g)] \/ cache[Other(g)].st = "pulse"
      BY <1>3, <1>5 DEF Wants
    <3>3. cache[Other(g)].st \in {"idle", "pulse", "wait"}
      BY <1>3 DEF TypeOK
    <3>4. \/ o.st = cache[Other(g)].st /\ o.st = "idle"
          \/ cache[Other(g)].st = "idle" /\ o.st = "pulse"
          \/ cache[Other(g)].st # "idle" /\ o.st = "wait"
      BY <1>2, <1>3, CacheStep
    <3> QED
      BY <1>4, <1>7, <3>1, <3>2, <3>3, <3>4
  <2> QED
    BY <1>3, <2>1, <2>2, <2>3, <2>4 DEF NoLostRequest
<1> QED
  BY <1>10, <1>11

(***************************************************************************)
(* No request of a cache is lost or answered twice, and memory never       *)
(* replies to a port without a request, for every latency.                 *)
(***************************************************************************)
THEOREM ArbiterInvariant == Spec => [](TypeOK /\ NoLostRequest)
<1>1. IInv /\ [Next]_vars => IInv'
  <2> SUFFICES ASSUME IInv, [Next]_vars PROVE IInv'
    OBVIOUS
  <2>1. CASE Idle
    BY <2>1, IdleInv
  <2>2. CASE \E c \in Client : Gnt(c)
    BY <2>2, GntInv
  <2>3. CASE UNCHANGED vars
    BY <2>3 DEF vars, IInv, TypeOK, NoLostRequest, Request
  <2> QED
    BY <2>1, <2>2, <2>3 DEF Next
<1> QED
  BY InitInv, <1>1, PTL DEF Spec, IInv


-----------------------------------------------------------------------------
(* Refinement.                                                             *)

\* A cache that is not answered proceeds as MemPort allows, and keeps its answer.
LEMMA CacheProceeds ==
    ASSUME TypeOK, NEW c \in Client, cache'[c] \in Cache(c)
    PROVE  Port!Proceeds(c) /\ Answer'[c] = Answer[c]
<1>1. /\ Outstanding[c] = IF cache[c].st = "idle" THEN {} ELSE {cache[c].rq}
      /\ Outstanding'[c] = IF cache'[c].st = "idle" THEN {} ELSE {cache'[c].rq}
      /\ Answer[c] = cache[c].rsp
      /\ Answer'[c] = cache'[c].rsp
  BY DEF Outstanding, Answer
<1>2. /\ cache'[c] \in CacheRec(c)
      /\ cache'[c].rsp = cache[c].rsp
      /\ \/ cache'[c].st = cache[c].st /\ cache'[c].rq = cache[c].rq /\ cache'[c].st = "idle"
         \/ cache[c].st = "idle" /\ cache'[c].st = "pulse"
         \/ cache[c].st # "idle" /\ cache'[c].st = "wait" /\ cache'[c].rq = cache[c].rq
  BY CacheStep
<1>3. cache'[c].rq \in Request(c)
  BY <1>2 DEF CacheRec
<1> QED
  BY <1>1, <1>2, <1>3 DEF Port!Proceeds

LEMMA PortInit == Init => Port!Init
<1> SUFFICES ASSUME Init PROVE Port!Init
  OBVIOUS
<1>1. PICK l \in Line, d \in Data :
         cache = [c \in Client |->
            [st |-> "idle", rq |-> [line |-> l, store |-> FALSE, data |-> d], rsp |-> d]]
  BY DEF Init
<1>2. \A c \in Client : cache[c].st = "idle" /\ cache[c].rsp \in Data
  BY <1>1
<1>3. Outstanding = [c \in Client |-> {}]
  BY <1>2 DEF Outstanding
<1>4. Answer \in [Client -> Data]
  BY <1>2 DEF Answer
<1>5. mem \in [Line -> Data]
  BY DEF Init
<1> QED
  BY <1>3, <1>4, <1>5 DEF Port!Init

LEMMA IdleRefines ==
    ASSUME IInv, Idle
    PROVE  Port!Clock
<1>1. \A c \in Client : cache'[c] \in Cache(c)
  <2>1. PICK d \in Cache("L1D"), i \in Cache("L1I") :
           cache' = [c \in Client |-> IF c = "L1D" THEN d ELSE i]
    BY DEF Idle
  <2> QED
    BY <2>1 DEF Client
<1>2. \A c \in Client : Port!Proceeds(c) /\ Answer'[c] = Answer[c]
  BY <1>1, CacheProceeds DEF IInv
<1>3. Answer' = Answer
  BY <1>2 DEF Answer
<1>4. mem' = mem
  <2>1. ~mem_req /\ reply = -1
    BY DEF Idle, IInv, NoLostRequest
  <2> QED
    BY <2>1 DEF Idle, Memory, Due
<1> QED
  BY <1>2, <1>3, <1>4 DEF Port!Clock

LEMMA GntRefines ==
    ASSUME IInv, NEW g \in Client, Gnt(g)
    PROVE  Port!Clock
<1>1. PICK lat \in 0 .. MaxLat :
         /\ Memory(lat)
         /\ \E k \in IF Due(lat) = 0 THEN Answered(g) ELSE Cache(g), o \in Cache(Other(g)) :
               cache' = [d \in Client |-> IF d = g THEN k ELSE o]
  BY DEF Gnt
<1>2. PICK k \in IF Due(lat) = 0 THEN Answered(g) ELSE Cache(g), o \in Cache(Other(g)) :
         cache' = [d \in Client |-> IF d = g THEN k ELSE o]
  BY <1>1
<1>3. /\ Other(g) \in Client /\ Other(g) # g
      /\ \A d \in Client : d = g \/ d = Other(g)
  BY DEF Other, Client
<1>4. cache'[g] = k /\ cache'[Other(g)] \in Cache(Other(g))
  BY <1>2, <1>3
<1>5. TypeOK /\ state = g /\ cache[g].st = "wait"
  BY DEF Gnt, IInv, NoLostRequest
<1>6. Port!Proceeds(Other(g)) /\ Answer'[Other(g)] = Answer[Other(g)]
  BY <1>3, <1>4, <1>5, CacheProceeds
<1>7. CASE Due(lat) # 0
  <2>1. cache'[g] \in Cache(g)
    BY <1>2, <1>4, <1>7
  <2>2. Port!Proceeds(g) /\ Answer'[g] = Answer[g]
    BY <1>5, <2>1, CacheProceeds
  <2>3. Answer' = Answer
    BY <1>3, <1>6, <2>2 DEF Answer
  <2>4. mem' = mem
    BY <1>1, <1>7 DEF Memory
  <2>5. \A c \in Client : Port!Proceeds(c)
    BY <1>3, <1>6, <2>2
  <2> QED
    BY <2>3, <2>4, <2>5 DEF Port!Clock
<1>8. CASE Due(lat) = 0
  <2>1. k \in Answered(g)
    BY <1>2, <1>8
  <2>2. Selected = cache[g].rq
    BY <1>5 DEF Selected, Client
  <2>3. k.st = "idle" /\ (~Selected.store => k.rsp = mem[Selected.line])
    BY <1>5, <2>1, AnsweredStep
  <2>4. /\ Outstanding[g] = {cache[g].rq}
        /\ Outstanding'[g] = {}
        /\ Answer'[g] = k.rsp
    BY <1>4, <1>5, <2>3 DEF Outstanding, Answer
  <2>5. mem' = IF cache[g].rq.store
               THEN [mem EXCEPT ![cache[g].rq.line] = cache[g].rq.data] ELSE mem
    BY <1>1, <1>8, <2>2 DEF Memory
  <2>6. Port!Serve(g)
    BY <2>2, <2>3, <2>4, <2>5 DEF Port!Serve
  <2>7. \A d \in Client \ {g} : Port!Proceeds(d) /\ Answer'[d] = Answer[d]
    BY <1>3, <1>6
  <2> QED
    BY <2>6, <2>7 DEF Port!Clock
<1> QED
  BY <1>7, <1>8

(***************************************************************************)
(* The arbiter, the caches' handshake and the memory of the test bench     *)
(* implement MemPort: every request is performed once, on its own line,    *)
(* and answered to the cache that made it, for every memory latency.       *)
(***************************************************************************)
THEOREM ArbiterIsPort == Spec => ImplementsPort
<1>1. IInv /\ [Next]_vars => [Port!Clock]_(Port!vars)
  <2> SUFFICES ASSUME IInv, [Next]_vars PROVE [Port!Clock]_(Port!vars)
    OBVIOUS
  <2>1. CASE Idle
    BY <2>1, IdleRefines
  <2>2. CASE \E c \in Client : Gnt(c)
    BY <2>2, GntRefines
  <2>3. CASE UNCHANGED vars
    BY <2>3 DEF vars, Port!vars, Outstanding, Answer
  <2> QED
    BY <2>1, <2>2, <2>3 DEF Next
<1>2. Spec => []IInv
  BY ArbiterInvariant, PTL DEF IInv
<1> QED
  BY PortInit, <1>1, <1>2, PTL DEF Spec, ImplementsPort, Port!Spec
=============================================================================
