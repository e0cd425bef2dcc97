------------------------------- MODULE Word -------------------------------
(***************************************************************************)
(* Fixed-width integers and byte-addressed memory, as the interpreters use *)
(* them.  A byte has ByteBits bits, so a halfword HW = 2 * ByteBits, a     *)
(* word WW = 4 * ByteBits and a doubleword DW = 8 * ByteBits bits (8, 16,  *)
(* 32 and 64 in the code).  A value is the number its bit pattern stands   *)
(* for when read unsigned; U and S are the casts to uintN_t and intN_t.    *)
(***************************************************************************)
EXTENDS Integers, Sequences

CONSTANTS
    ByteBits,  \* bits per byte
    EL         \* template parameter of the interpreters: little-endian guest

ASSUME WordAssumption == ByteBits \in Nat \ {0} /\ EL \in BOOLEAN

HW == 2 * ByteBits
WW == 4 * ByteBits
DW == 8 * ByteBits

\* What the proofs use of exponentiation: a law of arithmetic, not a condition.
ASSUME PowersOfTwo == \A n \in 0 .. DW : 2^(n + 1) = 2 * 2^n

Unsigned(n) == 0 .. 2^n - 1                          \* uintN_t
U(x, n) == x % 2^n
S(x, n) == IF U(x, n) < 2^(n - 1) THEN U(x, n) ELSE U(x, n) - 2^n
SExt(x, n, m) == U(S(x, n), m)
Inv(x, n) == 2^n - 1 - U(x, n)                       \* ~x

\* term[0] + ... + term[n - 1]
Sum(term, n) ==
    LET upTo[k \in 0 .. n] == IF k = 0 THEN 0 ELSE upTo[k - 1] + term[k - 1]
    IN  upTo[n]

\* The bitwise operators, on values of up to DW bits: what they have in common
\* is counted once by an inclusive or, not at all by an exclusive one.
Bit(x, b) == (x \div 2^b) % 2
x & y == Sum([b \in 0 .. DW - 1 |-> Bit(x, b) * Bit(y, b) * 2^b], DW)
x | y == x + y - (x & y)
x ^^ y == x + y - 2 * (x & y)

\* C++'s / and %, which round towards zero.
Abs(x) == IF x < 0 THEN -x ELSE x
Quot(a, b) == IF (a < 0) = (b < 0) THEN Abs(a) \div Abs(b) ELSE -(Abs(a) \div Abs(b))
Rem(a, b) == a - b * Quot(a, b)

setBit(x, v, b) ==
    LET t  == 2^b
        tt == Inv(t, WW) & x
    IN  tt | (t & Inv(v - 1, WW))

\* What 1 << n gives: for n = 32 it is undefined, and u is what the build made
\* of it (x86 shifts by n % 32 and gives 1; a compiler that folds it gives 0).
Shl1(n, u) == IF n < WW THEN 2^n ELSE u

(***************************************************************************)
(* sparse_mem is one anonymous mapping of 2^32 zero bytes.  A memory is    *)
(* the function of the bytes written so far; the others read as zero.      *)
(***************************************************************************)
ByteOf(x, j) == (x \div 2^(ByteBits * j)) % 2^ByteBits
ByteAt(mem, a) == IF a \in DOMAIN mem THEN mem[a] ELSE 0

get(mem, a, k) == Sum([j \in 0 .. k - 1 |-> ByteAt(mem, a + j) * 2^(ByteBits * j)], k)

set(mem, a, k, v) ==
    [b \in DOMAIN mem \cup (a .. a + k - 1) |-> IF b \in a .. a + k - 1 THEN ByteOf(v, b - a) ELSE mem[b]]

clear(mem) == [a \in {} |-> 0]

\* The host is little-endian: a value of k bytes changes its byte order unless
\* the guest is little-endian too.
Reversed(x, k) == Sum([j \in 0 .. k - 1 |-> ByteOf(x, k - 1 - j) * 2^(ByteBits * j)], k)
bswap(x, k) == IF EL THEN x ELSE Reversed(x, k)

Load(mem, a, k) == bswap(get(mem, a, k), k)
Store(mem, a, k, v) == set(mem, a, k, bswap(U(v, k * ByteBits), k))
=============================================================================
