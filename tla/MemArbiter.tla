----------------------------- MODULE MemArbiter -----------------------------
(***************************************************************************)
(* The arbiter between the two caches and memory (core_l1d_l1i.sv), one    *)
(* clock per step, with the request handshake of the caches (l1d.sv,       *)
(* l1i.sv) and the memory of the test bench (top.cc).                      *)
(*                                                                         *)
(* A cache raises mem_req_valid for one clock, holds address, opcode and   *)
(* data, and waits for mem_rsp_valid.  The arbiter remembers the pulse,    *)
(* grants one cache at a time, and keeps mem_req_valid up until memory     *)
(* answers.                                                                *)
(***************************************************************************)
EXTENDS Integers

CONSTANTS Line,      \* cache lines of memory
          Data,      \* contents of a line
          MaxLat     \* the largest latency of memory, in clocks (--memlat)

ASSUME MemArbiterAssumption == Line # {} /\ Data # {} /\ MaxLat \in Nat

Client == {"L1D", "L1I"}

VARIABLES state,     \* r_state: whose request is at memory, or "IDLE"
          last_gnt,  \* r_last_gnt: who was granted last
          req,       \* req[c]: r_l1d_req, r_l1i_req
          mem_req,   \* r_req, which is mem_req_valid
          cache,     \* cache[c].st: "idle", "pulse" (mem_req_valid) or "wait";
                     \*   .rq: address, opcode and data held; .rsp: line last received
          mem,       \* the memory of the test bench
          reply      \* mem_reply_cycle - cycle, -1 if no reply is scheduled

vars == <<state, last_gnt, req, mem_req, cache, mem, reply>>

\* The instruction cache only loads.
Request(c) ==
    [line : Line, store : IF c = "L1D" THEN BOOLEAN ELSE {FALSE}, data : Data]

Other(c) == IF c = "L1D" THEN "L1I" ELSE "L1D"

-----------------------------------------------------------------------------
(* The arbiter.                                                            *)

MutWantsPulse(c) == cache[c].st = "pulse"
Wants(c) == req[c] \/ cache[c].st = "pulse"       \* n_l1d_req, n_l1i_req

Granted(c) == Wants(c) /\ (Wants(Other(c)) => last_gnt # c)

\* mem_req_addr, mem_req_opcode, mem_req_store_data
MutSelectedL1D == cache["L1D"].rq
Selected == IF state = "L1I" THEN cache["L1I"].rq ELSE cache["L1D"].rq

-----------------------------------------------------------------------------
(* Memory.  A reply is scheduled when mem_req_valid is seen and none is    *)
(* scheduled; when it is due the request is read from the port.            *)

MutDueLate(lat) == IF reply # -1 THEN reply ELSE IF mem_req THEN lat + 1 ELSE -1
Due(lat) == IF reply # -1 THEN reply ELSE IF mem_req THEN lat ELSE -1

Memory(lat) ==
    /\ reply' = IF Due(lat) > 0 THEN Due(lat) - 1 ELSE -1
    /\ mem' = IF Due(lat) = 0 /\ Selected.store
              THEN [mem EXCEPT ![Selected.line] = Selected.data] ELSE mem

-----------------------------------------------------------------------------
(* The caches.                                                             *)

\* A cache that is not answered issues a request, drops mem_req_valid, waits
\* or idles.
Cache(c) ==
    IF cache[c].st = "idle"
    THEN {cache[c]} \cup {[cache[c] EXCEPT !.st = "pulse", !.rq = r] : r \in Request(c)}
    ELSE {[cache[c] EXCEPT !.st = "wait"]}

\* l1d_mem_rsp_valid, l1i_mem_rsp_valid: the line memory sends is taken.  The
\* answer to a store is whatever memory drives, and is not looked at.
Answered(c) ==
    {[cache[c] EXCEPT !.st = "idle", !.rsp = d] :
        d \in IF Selected.store THEN Data ELSE {mem[Selected.line]}}

-----------------------------------------------------------------------------
Idle ==
    /\ state = "IDLE"
    /\ \E lat \in 0 .. MaxLat : Memory(lat)
    /\ cache' \in {[c \in Client |-> IF c = "L1D" THEN d ELSE i] :
                      d \in Cache("L1D"), i \in Cache("L1I")}
    /\ req' = [c \in Client |-> Wants(c)]
    /\ \/ \E c \in Client : Granted(c) /\ state' = c /\ mem_req' = TRUE
       \/ (\A c \in Client : ~Wants(c)) /\ UNCHANGED <<state, mem_req>>
    /\ UNCHANGED last_gnt

\* GNT_L1D, GNT_L1I
Gnt(c) ==
    /\ state = c
    /\ last_gnt' = c
    /\ req' = [d \in Client |-> d # c /\ Wants(d)]
    /\ \E lat \in 0 .. MaxLat :
          /\ Memory(lat)
          /\ \E k \in IF Due(lat) = 0 THEN Answered(c) ELSE Cache(c), o \in Cache(Other(c)) :
                cache' = [d \in Client |-> IF d = c THEN k ELSE o]
          /\ state' = IF Due(lat) = 0 THEN "IDLE" ELSE c
          /\ mem_req' = (mem_req /\ Due(lat) # 0)

Init ==
    /\ state = "IDLE"
    /\ last_gnt = "L1D"
    /\ req = [c \in Client |-> FALSE]
    /\ mem_req = FALSE
    /\ \E l \in Line, d \in Data :
          cache = [c \in Client |->
                      [st |-> "idle", rq |-> [line |-> l, store |-> FALSE, data |-> d], rsp |-> d]]
    /\ mem \in [Line -> Data]
    /\ reply = -1

Next == Idle \/ \E c \in Client : Gnt(c)

Spec == Init /\ [][Next]_vars

\* The clock never stops, and that is all the arbiter needs.
LiveSpec == Spec /\ WF_vars(Next)

-----------------------------------------------------------------------------
\* The registers of the arbiter, of the caches and of the test bench have their
\* types.
TypeOK ==
    /\ state \in Client \cup {"IDLE"}
    /\ last_gnt \in Client
    /\ req \in [Client -> BOOLEAN]
    /\ mem_req \in BOOLEAN
    /\ DOMAIN cache = Client
    /\ \A c \in Client :
          cache[c] \in [st : {"idle", "pulse", "wait"}, rq : Request(c), rsp : Data]
    /\ mem \in [Line -> Data]
    /\ reply \in -1 .. (MaxLat - 1)

(***************************************************************************)
(* The one-clock pulse of a cache is never forgotten and never counted     *)
(* twice: a cache waits exactly when its request is remembered or granted, *)
(* the granted cache is still waiting, and memory has a reply scheduled    *)
(* only while a request stands at the port (top.cc asserts mem_req_valid   *)
(* when the reply is due).                                                 *)
(***************************************************************************)
NoLostRequest ==
    /\ mem_req <=> state # "IDLE"
    /\ reply # -1 => mem_req
    /\ \A c \in Client :
          /\ cache[c].st = "wait" <=> req[c] \/ state = c
          /\ cache[c].st = "pulse" => ~req[c]

Outstanding == [c \in Client |-> IF cache[c].st = "idle" THEN {} ELSE {cache[c].rq}]
Answer == [c \in Client |-> cache[c].rsp]

(***************************************************************************)
(* The port implements MemPort: every request is performed once, with its  *)
(* own address, opcode and data, and its cache gets the answer, however    *)
(* the requests of the two caches interleave.                              *)
(***************************************************************************)
Port == INSTANCE MemPort WITH outstanding <- Outstanding, answer <- Answer
ImplementsPort == Port!Spec

(***************************************************************************)
(* Neither cache starves: every request is answered, even when the other   *)
(* cache asks again as soon as it is served.                               *)
(***************************************************************************)
NoStarvation == \A c \in Client : cache[c].st = "pulse" ~> cache[c].st = "idle"
=============================================================================
