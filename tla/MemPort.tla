------------------------------ MODULE MemPort ------------------------------
(***************************************************************************)
(* What the shared memory port promises the two caches: each may have one  *)
(* request outstanding; a request is performed once, on its own line, at   *)
(* some moment between its issue and its answer, and at most one request   *)
(* is performed in a clock.                                                *)
(***************************************************************************)
CONSTANTS Client, Line, Data, Request(_)

VARIABLES outstanding,   \* outstanding[c]: {the request c waits for}, or {}
          mem,           \* memory, line by line
          answer         \* answer[c]: the line c was last sent

vars == <<outstanding, mem, answer>>

Init ==
    /\ outstanding = [c \in Client |-> {}]
    /\ mem \in [Line -> Data]
    /\ answer \in [Client -> Data]

\* What a clock may do to a client that is not served in it.
Proceeds(c) ==
    \/ outstanding'[c] = outstanding[c]
    \/ outstanding[c] = {} /\ \E r \in Request(c) : outstanding'[c] = {r}

Serve(c) ==
    \E r \in outstanding[c] :
        /\ outstanding'[c] = {}
        /\ mem' = IF r.store THEN [mem EXCEPT ![r.line] = r.data] ELSE mem
        /\ ~r.store => answer'[c] = mem[r.line]

Clock ==
    \/ /\ \A c \in Client : Proceeds(c)
       /\ UNCHANGED <<mem, answer>>
    \/ \E c \in Client :
          /\ Serve(c)
          /\ \A d \in Client \ {c} : Proceeds(d) /\ answer'[d] = answer[d]

Spec == Init /\ [][Clock]_vars
=============================================================================
