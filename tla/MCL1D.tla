------------------------------- MODULE MCL1D -------------------------------
(***************************************************************************)
(* Programs for the data cache.                                            *)
(***************************************************************************)
EXTENDS L1D

O(op, set, tag, word) == [op |-> op, set |-> set, tag |-> tag, word |-> word]
Load(s, t, w) == O("load", s, t, w)
Store(s, t, w) == O("store", s, t, w)
FlushAll == O("flush", 0, "a", 0)
Move == O("move", 0, "a", 0)
FlushLine(s) == O("flushcl", s, "a", 0)

\* Loads and stores that meet in a set, in a line and in a word.
Accesses == {Store(0, "a", 0), Store(0, "a", 1), Store(0, "b", 0), Load(0, "a", 0), Load(0, "b", 0)}
Short == [1 .. 3 -> Accesses]
Longer == {
    \* write-back of a dirty line, then the line again
    <<Store(0, "a", 0), Load(0, "b", 0), Store(0, "b", 1), Load(0, "a", 0), Load(0, "b", 1)>>,
    \* stores to both words of a line, a move and a load behind them
    <<Load(0, "a", 0), Store(0, "a", 0), Store(0, "a", 1), Move, Load(0, "a", 0), Load(0, "a", 1)>>,
    \* two dirty sets to walk, and the last one
    <<Store(0, "a", 0), Store(1, "b", 0), Store(2, "a", 0), FlushAll, Load(1, "b", 0), Load(2, "a", 0)>>,
    <<Store(0, "b", 1), FlushLine(0), Load(0, "b", 1), FlushLine(0), Store(0, "a", 1), FlushAll>>,
    <<Store(1, "a", 0), Load(0, "a", 0), Store(0, "a", 0), Store(1, "b", 0), FlushLine(1), Load(1, "a", 0)>>,
    \* a slot is used again while the retired store that had it still waits
    <<Store(0, "a", 0), Move, Move, Move, Store(0, "a", 1), Load(0, "a", 0)>>
}
MCPrograms == Short \cup Longer
=============================================================================
