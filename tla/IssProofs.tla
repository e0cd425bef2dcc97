----------------------------- MODULE IssProofs -----------------------------
(***************************************************************************)
(* Proofs about the interpreters, for words of any size.                   *)
(***************************************************************************)
EXTENDS IssRun, TLAPS, WellFoundedInduction

-----------------------------------------------------------------------------
(* Arithmetic.                                                             *)

LEMMA LeastNatural ==
    ASSUME NEW T, T \subseteq Nat, T # {}
    PROVE  \E n \in T : \A m \in T : n <= m
<1>1. PICK n \in T : \A m \in T : ~(<<m, n>> \in OpToRel(<, Nat))
  BY NatLessThanWellFounded, WFMin
<1>2. \A m \in T : ~(m < n)
  BY <1>1 DEF OpToRel
<1> QED  BY <1>2

LEMMA MulMono ==
    ASSUME NEW a \in Int, NEW d \in Int, d > 0, a >= 1
    PROVE  a * d >= d
OBVIOUS

LEMMA DivMod ==
    ASSUME NEW a \in Int, NEW d \in Int, d > 0
    PROVE  /\ a \div d \in Int /\ a % d \in Int
           /\ 0 <= a % d /\ a % d < d
           /\ a = (a \div d) * d + (a % d)
OBVIOUS

LEMMA DivModUnique ==
    ASSUME NEW a \in Int, NEW d \in Int, d > 0, NEW q \in Int, NEW r \in Int,
           a = q * d + r, 0 <= r, r < d
    PROVE  a \div d = q /\ a % d = r
<1>1. /\ a \div d \in Int /\ a % d \in Int
      /\ 0 <= a % d /\ a % d < d
      /\ a = (a \div d) * d + (a % d)
  BY DivMod
<1> DEFINE p == a \div d
<1> HIDE DEF p
<1>2. (q - p) * d = (a % d) - r
  BY <1>1 DEF p
<1>3. ~(q - p >= 1)
  BY <1>1, <1>2, MulMono DEF p
<1>4. ~(p - q >= 1)
  <2>1. (p - q) * d = r - (a % d)
    BY <1>1 DEF p
  <2> QED  BY <2>1, <1>1, MulMono DEF p
<1> QED  BY <1>1, <1>2, <1>3, <1>4 DEF p

\* Multiplication by something positive keeps an order.
LEMMA MulLeq ==
    ASSUME NEW a \in Int, NEW b \in Int, NEW d \in Int, d >= 0, a <= b
    PROVE  a * d <= b * d
<1>1. (b - a) * d >= 0
  OBVIOUS
<1> QED  BY <1>1

LEMMA ModSmall ==
    ASSUME NEW a \in Int, NEW d \in Int, 0 <= a, a < d
    PROVE  a % d = a /\ a \div d = 0
<1>1. a = 0 * d + a /\ d > 0
  OBVIOUS
<1> QED  BY <1>1, DivModUnique

\* Adding a multiple of the modulus.
LEMMA ModShift ==
    ASSUME NEW a \in Int, NEW d \in Int, d > 0, NEW k \in Int
    PROVE  (a + k * d) % d = a % d /\ (a + k * d) \div d = (a \div d) + k
<1>1. /\ a \div d \in Int /\ a % d \in Int
      /\ 0 <= a % d /\ a % d < d
      /\ a = (a \div d) * d + (a % d)
  BY DivMod
<1> DEFINE q == a \div d
           r == a % d
<1>2. a + k * d = (q + k) * d + r
  <2> HIDE DEF q, r
  <2>1. q \in Int /\ r \in Int /\ a = q * d + r
    BY <1>1 DEF q, r
  <2> QED  BY <2>1
<1>3. q + k \in Int /\ a + k * d \in Int
  BY <1>1
<1> HIDE DEF q, r
<1>4. r \in Int /\ 0 <= r /\ r < d
  BY <1>1 DEF r
<1>5. (a + k * d) \div d = q + k /\ (a + k * d) % d = r
  BY <1>2, <1>3, <1>4, DivModUnique
<1> QED  BY <1>5 DEF q, r

\* Residues are equal exactly if the difference is a multiple.
LEMMA ModEqual ==
    ASSUME NEW a \in Int, NEW b \in Int, NEW d \in Int, d > 0, NEW k \in Int, a = b + k * d
    PROVE  a % d = b % d
BY ModShift

LEMMA ModOfProduct ==
    ASSUME NEW a \in Int, NEW c \in Int, NEW d \in Int, c > 0, d > 0
    PROVE  /\ (a % (c * d)) % d = a % d
           /\ (a % (c * d)) \div d = (a \div d) % c
           /\ a \div (c * d) = (a \div d) \div c
           /\ a % (c * d) = ((a \div d) % c) * d + (a % d)
<1> DEFINE q == a \div d
           r == a % d
           h == q \div c
           m == q % c
<1>1. q \in Int /\ r \in Int /\ 0 <= r /\ r < d /\ a = q * d + r
  BY DivMod
<1> HIDE DEF q, r
<1>2. h \in Int /\ m \in Int /\ 0 <= m /\ m < c /\ q = h * c + m
  BY <1>1, DivMod
<1> HIDE DEF h, m
<1>3. c * d \in Int /\ c * d > 0
  BY MulMono
<1>4. a = h * (c * d) + (m * d + r)
  <2>1. a = (h * c + m) * d + r
    BY <1>1, <1>2
  <2>2. (h * c + m) * d = h * (c * d) + m * d
    BY <1>2
  <2>3. m * d \in Int /\ h * (c * d) \in Int
    BY <1>2, <1>3
  <2> QED  BY <2>1, <2>2, <2>3, <1>1
<1>5. 0 <= m * d + r /\ m * d + r < c * d
  <2>1. m * d >= 0
    BY <1>2
  <2>2. m * d <= (c - 1) * d
    BY <1>2, MulLeq
  <2>3. (c - 1) * d = c * d - d /\ m * d \in Int
    BY <1>2
  <2> QED  BY <2>1, <2>2, <2>3, <1>1, <1>3
<1>6. m * d + r \in Int
  BY <1>1, <1>2
<1>7. a \div (c * d) = h /\ a % (c * d) = m * d + r
  BY <1>2, <1>3, <1>4, <1>5, <1>6, DivModUnique
<1>8. (m * d + r) \div d = m /\ (m * d + r) % d = r
  BY <1>1, <1>2, <1>6, DivModUnique
<1> QED  BY <1>7, <1>8 DEF q, r, h, m

-----------------------------------------------------------------------------
(* Powers of two.                                                          *)

LEMMA Widths == /\ ByteBits \in Nat /\ ByteBits >= 1
                /\ HW \in Nat /\ WW \in Nat /\ DW \in Nat
                /\ HW = 2 * ByteBits /\ WW = 4 * ByteBits /\ DW = 8 * ByteBits
BY WordAssumption DEF HW, WW, DW

LEMMA PowPos == \A n \in 0 .. (DW + 1) : 2^n \in Nat /\ 2^n >= 1
<1> DEFINE T == {n \in 0 .. (DW + 1) : ~(2^n \in Nat /\ 2^n >= 1)}
<1>1. ASSUME T # {} PROVE FALSE
  <2>0. T \subseteq Nat
    BY Widths
  <2>1. PICK n \in T : \A m \in T : n <= m
    <3> HIDE DEF T
    <3> QED  BY <1>1, <2>0, LeastNatural
  <2>2. ASSUME n = 0 PROVE FALSE
    <3>1. 2^n = 2^0
      BY <2>2, Zenon
    <3> QED  BY <3>1, <2>1
  <2>3. n - 1 \in 0 .. DW /\ n - 1 \notin T
    BY <2>1, <2>2, Widths
  <2>4. 2^(n - 1) \in Nat /\ 2^(n - 1) >= 1
    BY <2>3, Widths
  <2>5. 2^((n - 1) + 1) = 2 * 2^(n - 1)
    BY <2>3, PowersOfTwo
  <2>6. (n - 1) + 1 = n
    BY <2>1, Widths
  <2> QED  BY <2>1, <2>4, <2>5, <2>6
<1> QED  BY <1>1

LEMMA PowAdd ==
    ASSUME NEW m \in Nat, NEW k \in Nat, m + k <= DW + 1
    PROVE  2^(m + k) = 2^m * 2^k
<1> DEFINE T == {n \in 0 .. k : 2^(m + n) # 2^m * 2^n}
<1>1. ASSUME T # {} PROVE FALSE
  <2>0. T \subseteq Nat
    OBVIOUS
  <2>1. PICK n \in T : \A j \in T : n <= j
    <3> HIDE DEF T
    <3> QED  BY <1>1, <2>0, LeastNatural
  <2>2. ASSUME n = 0 PROVE FALSE
    <3>1. 2^m \in Nat /\ m + n = m
      BY <2>2, PowPos, Widths
    <3>2. 2^n = 2^0
      BY <2>2, Zenon
    <3> QED  BY <3>1, <3>2, <2>1
  <2>3. /\ n - 1 \in 0 .. k /\ n - 1 \notin T
        /\ n - 1 \in 0 .. DW /\ m + (n - 1) \in 0 .. DW
        /\ (n - 1) + 1 = n /\ (m + (n - 1)) + 1 = m + n
    BY <2>1, <2>2, Widths
  <2>4. 2^(m + (n - 1)) = 2^m * 2^(n - 1)
    BY <2>3
  <2>5. 2^n = 2 * 2^(n - 1) /\ 2^(m + n) = 2 * 2^(m + (n - 1))
    BY <2>3, PowersOfTwo
  <2>6. 2^m \in Nat /\ 2^(n - 1) \in Nat /\ 2^(m + (n - 1)) \in Nat
    BY <2>3, PowPos, Widths
  <2>7. 2^m * (2 * 2^(n - 1)) = 2 * (2^m * 2^(n - 1))
    BY <2>6
  <2> QED  BY <2>1, <2>4, <2>5, <2>7
<1> QED  BY <1>1

LEMMA PowMono ==
    ASSUME NEW m \in Nat, NEW n \in Nat, m <= n, n <= DW + 1
    PROVE  /\ 2^m \in Nat /\ 2^n \in Nat /\ 1 <= 2^m /\ 2^m <= 2^n
           /\ 2^(n - m) \in Nat /\ 1 <= 2^(n - m) /\ 2^n = 2^(n - m) * 2^m
           /\ m < n => 2 * 2^m <= 2^n
<1>1. n - m \in Nat /\ (n - m) + m = n
  OBVIOUS
<1>2. 2^n = 2^(n - m) * 2^m
  BY <1>1, PowAdd
<1>3. /\ 2^m \in Nat /\ 2^n \in Nat /\ 1 <= 2^m
      /\ 2^(n - m) \in Nat /\ 1 <= 2^(n - m)
  BY <1>1, PowPos, Widths
<1>4. 2^m <= 2^n
  BY <1>2, <1>3, MulMono
<1>5. ASSUME m < n PROVE 2 * 2^m <= 2^n
  <2>1. /\ n - m \in 0 .. (DW + 1) /\ (n - m) - 1 \in 0 .. DW
        /\ ((n - m) - 1) + 1 = n - m
    BY <1>5, Widths
  <2>2. 2^(n - m) = 2 * 2^((n - m) - 1) /\ 2^((n - m) - 1) \in Nat /\ 2^((n - m) - 1) >= 1
    BY <2>1, PowersOfTwo, PowPos, Widths
  <2>3. 2^(n - m) >= 2
    BY <2>2
  <2> QED  BY <2>3, <1>2, <1>3, MulLeq
<1> QED  BY <1>2, <1>3, <1>4, <1>5

-----------------------------------------------------------------------------
(* Sums.                                                                   *)

\* The equations of the recursive function in Sum.
Sums(f, term, n) == f = [k \in 0 .. n |-> IF k = 0 THEN 0 ELSE f[k - 1] + term[k - 1]]

LEMMA SumsExist ==
    ASSUME NEW term, NEW n \in Nat
    PROVE  \E f : Sums(f, term, n)
<1> DEFINE T == {m \in 0 .. n : ~(\E f : Sums(f, term, m))}
<1>1. ASSUME T # {} PROVE FALSE
  <2>0. T \subseteq Nat
    OBVIOUS
  <2>1. PICK m \in T : \A j \in T : m <= j
    <3> HIDE DEF T
    <3> QED  BY <1>1, <2>0, LeastNatural
  <2>2. ASSUME m = 0 PROVE FALSE
    <3> DEFINE g == [k \in 0 .. m |-> 0]
    <3>1. g = [k \in 0 .. m |-> IF k = 0 THEN 0 ELSE g[k - 1] + term[k - 1]]
      BY <2>2
    <3> QED  BY <3>1, <2>1 DEF Sums
  <2>3. m - 1 \in 0 .. n /\ m - 1 \notin T
    BY <2>1, <2>2
  <2>4. PICK f : Sums(f, term, m - 1)
    BY <2>3
  <2> DEFINE g == [k \in 0 .. m |-> IF k = m THEN f[m - 1] + term[m - 1] ELSE f[k]]
  <2>5. ASSUME NEW k \in 0 .. m
        PROVE  g[k] = IF k = 0 THEN 0 ELSE g[k - 1] + term[k - 1]
    <3>1. CASE k = m
      <4>1. k # 0 /\ k - 1 \in 0 .. m /\ k - 1 # m
        BY <3>1, <2>1, <2>2
      <4> QED  BY <4>1, <3>1
    <3>2. CASE k # m
      <4>1. k \in 0 .. (m - 1)
        BY <3>2, <2>1
      <4>2. f[k] = IF k = 0 THEN 0 ELSE f[k - 1] + term[k - 1]
        BY <4>1, <2>4 DEF Sums
      <4>3. k # 0 => k - 1 \in 0 .. m /\ k - 1 # m
        BY <4>1, <2>1
      <4> QED  BY <4>2, <4>3, <3>2
    <3> QED  BY <3>1, <3>2
  <2>6. g = [k \in 0 .. m |-> IF k = 0 THEN 0 ELSE g[k - 1] + term[k - 1]]
    <3> DEFINE h == [k \in 0 .. m |-> IF k = 0 THEN 0 ELSE g[k - 1] + term[k - 1]]
    <3>1. \A k \in 0 .. m : g[k] = h[k]
      BY <2>5
    <3> QED  BY <3>1, Zenon
  <2> QED  BY <2>6, <2>1 DEF Sums
<1>2. n \in 0 .. n
  OBVIOUS
<1> QED  BY <1>1, <1>2

LEMMA SumsUnique ==
    ASSUME NEW term, NEW n \in Nat, NEW m \in Nat, n <= m,
           NEW f, Sums(f, term, n), NEW g, Sums(g, term, m)
    PROVE  f[n] = g[n]
<1> DEFINE T == {k \in 0 .. n : f[k] # g[k]}
<1>1. ASSUME T # {} PROVE FALSE
  <2>0. T \subseteq Nat
    OBVIOUS
  <2>1. PICK k \in T : \A j \in T : k <= j
    <3> HIDE DEF T
    <3> QED  BY <1>1, <2>0, LeastNatural
  <2>2. k \in 0 .. n /\ k \in 0 .. m /\ f[k] # g[k]
    BY <2>1
  <2>3. /\ f[k] = IF k = 0 THEN 0 ELSE f[k - 1] + term[k - 1]
        /\ g[k] = IF k = 0 THEN 0 ELSE g[k - 1] + term[k - 1]
    BY <2>2 DEF Sums
  <2>4. k # 0 => k - 1 \in 0 .. n /\ k - 1 \notin T
    BY <2>1, <2>2
  <2> QED  BY <2>2, <2>3, <2>4
<1>2. n \in 0 .. n
  OBVIOUS
<1> QED  BY <1>1, <1>2

LEMMA SumIs ==
    ASSUME NEW term, NEW n \in Nat
    PROVE  \E f : Sums(f, term, n) /\ Sum(term, n) = f[n]
<1> DEFINE u == CHOOSE f : f = [k \in 0 .. n |-> IF k = 0 THEN 0 ELSE f[k - 1] + term[k - 1]]
<1>1. Sums(u, term, n)
  BY SumsExist, Zenon DEF Sums
<1>2. Sum(term, n) = u[n]
  BY Zenon DEF Sum
<1> QED  BY <1>1, <1>2

\* The two equations by which every fact about a sum is proved.
LEMMA SumStep ==
    ASSUME NEW term, NEW n \in Nat
    PROVE  Sum(term, 0) = 0 /\ Sum(term, n + 1) = Sum(term, n) + term[n]
<1>1. PICK f : Sums(f, term, n) /\ Sum(term, n) = f[n]
  BY SumIs
<1>2. n + 1 \in Nat /\ n + 1 # 0 /\ (n + 1) - 1 = n /\ n <= n + 1 /\ n + 1 \in 0 .. (n + 1)
  OBVIOUS
<1>3. PICK g : Sums(g, term, n + 1) /\ Sum(term, n + 1) = g[n + 1]
  BY <1>2, SumIs
<1>4. g[n + 1] = g[n] + term[n]
  BY <1>2, <1>3 DEF Sums
<1>5. f[n] = g[n]
  BY <1>1, <1>2, <1>3, SumsUnique
<1>6. PICK h : Sums(h, term, 0) /\ Sum(term, 0) = h[0]
  BY SumIs
<1>7. h[0] = 0
  BY <1>6 DEF Sums
<1> QED  BY <1>1, <1>3, <1>4, <1>5, <1>6, <1>7

\* A sum of numbers is a number.
LEMMA SumType ==
    ASSUME NEW n \in Nat, NEW term, \A k \in 0 .. (n - 1) : term[k] \in Nat
    PROVE  Sum(term, n) \in Nat
<1> DEFINE T == {k \in 0 .. n : Sum(term, k) \notin Nat}
<1>1. ASSUME T # {} PROVE FALSE
  <2>0. T \subseteq Nat
    OBVIOUS
  <2>1. PICK k \in T : \A j \in T : k <= j
    <3> HIDE DEF T
    <3> QED  BY <1>1, <2>0, LeastNatural
  <2>2. k # 0
    BY <2>1, SumStep
  <2>3. k - 1 \in Nat /\ k - 1 \in 0 .. (n - 1) /\ k - 1 \notin T /\ (k - 1) + 1 = k /\ k - 1 \in 0 .. n
    BY <2>1, <2>2
  <2>4. Sum(term, k) = Sum(term, k - 1) + term[k - 1]
    BY <2>3, SumStep
  <2> QED  BY <2>1, <2>3, <2>4
<1>2. n \in 0 .. n
  OBVIOUS
<1> QED  BY <1>1, <1>2

-----------------------------------------------------------------------------
(* Bits.                                                                   *)

LEMMA BitRange ==
    ASSUME NEW x \in Int, NEW b \in 0 .. DW
    PROVE  Bit(x, b) \in {0, 1} /\ x \div 2^b \in Int
<1>1. 2^b \in Nat /\ 2^b >= 1
  BY PowPos, Widths
<1>2. x \div 2^b \in Int
  BY <1>1, DivMod
<1> QED  BY <1>2 DEF Bit

\* The low k + 1 bits are the low k and one more.
LEMMA LowBits ==
    ASSUME NEW x \in Int, NEW k \in 0 .. DW
    PROVE  /\ x % 2^(k + 1) = (x % 2^k) + Bit(x, k) * 2^k
           /\ x % 2^k \in Nat /\ x % 2^k < 2^k
<1>1. 2^k \in Nat /\ 2^k >= 1 /\ 2^(k + 1) = 2 * 2^k
  BY PowPos, PowersOfTwo, Widths
<1>2. x % (2 * 2^k) = Bit(x, k) * 2^k + (x % 2^k)
  BY <1>1, ModOfProduct DEF Bit
<1>3. x % 2^k \in Int /\ 0 <= x % 2^k /\ x % 2^k < 2^k
  BY <1>1, DivMod
<1>4. Bit(x, k) \in {0, 1}
  BY BitRange
<1> QED  BY <1>1, <1>2, <1>3, <1>4

AndTerm(x, y) == [b \in 0 .. DW - 1 |-> Bit(x, b) * Bit(y, b) * 2^b]
AndLow(x, y, k) == Sum(AndTerm(x, y), k)

LEMMA AndStep ==
    ASSUME NEW x \in Int, NEW y \in Int, NEW k \in 0 .. (DW - 1)
    PROVE  /\ AndLow(x, y, 0) = 0 /\ (x & y) = AndLow(x, y, DW)
           /\ AndLow(x, y, k + 1) = AndLow(x, y, k) + Bit(x, k) * Bit(y, k) * 2^k
<1>1. k \in Nat
  BY Widths
<1>2. Sum(AndTerm(x, y), k + 1) = Sum(AndTerm(x, y), k) + AndTerm(x, y)[k]
  BY <1>1, SumStep
<1>3. AndTerm(x, y)[k] = Bit(x, k) * Bit(y, k) * 2^k
  BY DEF AndTerm
<1>4. Sum(AndTerm(x, y), 0) = 0
  BY <1>1, SumStep
<1>5. (x & y) = Sum(AndTerm(x, y), DW)
  BY DEF &, AndTerm
<1> QED  BY <1>2, <1>3, <1>4, <1>5 DEF AndLow

\* How a conjunction compares with its operands, for the low k bits.
LEMMA AndLowRange ==
    ASSUME NEW x \in Int, NEW y \in Int, NEW k \in 0 .. DW
    PROVE  /\ AndLow(x, y, k) \in Nat
           /\ AndLow(x, y, k) <= x % 2^k /\ AndLow(x, y, k) <= y % 2^k
           /\ (x % 2^k) + (y % 2^k) - AndLow(x, y, k) < 2^k
<1> DEFINE P(n) == /\ AndLow(x, y, n) \in Nat
                   /\ AndLow(x, y, n) <= x % 2^n /\ AndLow(x, y, n) <= y % 2^n
                   /\ (x % 2^n) + (y % 2^n) - AndLow(x, y, n) < 2^n
           T == {n \in 0 .. DW : ~P(n)}
<1>1. ASSUME T # {} PROVE FALSE
  <2>0. T \subseteq Nat
    OBVIOUS
  <2>1. PICK n \in T : \A j \in T : n <= j
    <3> HIDE DEF T
    <3> QED  BY <1>1, <2>0, LeastNatural
  <2>2. ASSUME n = 0 PROVE FALSE
    <3>1. 2^n = 2^0
      BY <2>2, Zenon
    <3>2. x % 2^n = 0 /\ y % 2^n = 0
      BY <3>1
    <3>3. AndLow(x, y, n) = 0
      BY <2>2, AndStep, Widths
    <3> QED  BY <2>1, <3>1, <3>2, <3>3
  <2> DEFINE m == n - 1
  <2>3. m \in 0 .. (DW - 1) /\ m \in 0 .. DW /\ m \notin T /\ m + 1 = n
    BY <2>1, <2>2, Widths
  <2>4. P(m)
    BY <2>3
  <2> HIDE DEF m
  <2>5. AndLow(x, y, n) = AndLow(x, y, m) + Bit(x, m) * Bit(y, m) * 2^m
    BY <2>3, AndStep
  <2>6. /\ x % 2^n = (x % 2^m) + Bit(x, m) * 2^m /\ x % 2^m \in Nat
        /\ y % 2^n = (y % 2^m) + Bit(y, m) * 2^m /\ y % 2^m \in Nat
    BY <2>3, LowBits
  <2>7. 2^n = 2 * 2^m /\ 2^m \in Nat /\ 2^m >= 1
    BY <2>3, PowersOfTwo, PowPos, Widths
  <2>8. Bit(x, m) \in {0, 1} /\ Bit(y, m) \in {0, 1}
    BY <2>3, BitRange
  <2>9. P(n)
    BY <2>4, <2>5, <2>6, <2>7, <2>8
  <2> QED  BY <2>1, <2>9
<1> QED  BY <1>1

\* A conjunction, an inclusive and an exclusive or of n-bit values have n bits.
LEMMA BitwiseRange ==
    ASSUME NEW n \in 0 .. DW, NEW x \in 0 .. (2^n - 1), NEW y \in 0 .. (2^n - 1)
    PROVE  /\ (x & y) \in 0 .. (2^n - 1) /\ (x & y) <= x /\ (x & y) <= y
           /\ (x | y) \in 0 .. (2^n - 1)
           /\ (x ^^ y) \in 0 .. (2^n - 1)
<1>1. 2^n \in Nat /\ 2^DW \in Nat /\ 2^n <= 2^DW
  BY PowMono, Widths
<1>2. x \in Int /\ y \in Int /\ x % 2^DW = x /\ y % 2^DW = y /\ x % 2^n = x /\ y % 2^n = y
  BY <1>1, ModSmall
<1>3. (x & y) = AndLow(x, y, DW)
  <2>1. 0 \in 0 .. (DW - 1)
    BY Widths
  <2> QED  BY <2>1, <1>2, AndStep
<1>4. (x & y) \in Nat /\ (x & y) <= x /\ (x & y) <= y
  <2>1. DW \in 0 .. DW
    BY Widths
  <2> QED  BY <2>1, <1>2, <1>3, AndLowRange
<1>5. AndLow(x, y, n) = AndLow(x, y, DW)
  <2> DEFINE T == {k \in 0 .. DW : k >= n /\ AndLow(x, y, k) # AndLow(x, y, n)}
  <2>1. ASSUME T # {} PROVE FALSE
    <3>0. T \subseteq Nat
      OBVIOUS
    <3>1. PICK k \in T : \A j \in T : k <= j
      <4> HIDE DEF T
      <4> QED  BY <2>1, <3>0, LeastNatural
    <3>2. k # n
      BY <3>1
    <3>3. /\ k - 1 \in 0 .. (DW - 1) /\ k - 1 \in 0 .. DW /\ k - 1 >= n
          /\ k - 1 \notin T /\ (k - 1) + 1 = k
      BY <3>1, <3>2, Widths
    <3>4. AndLow(x, y, k) = AndLow(x, y, k - 1) + Bit(x, k - 1) * Bit(y, k - 1) * 2^(k - 1)
      BY <3>3, <1>2, AndStep
    <3>5. Bit(x, k - 1) = 0
      <4>1. 2^n <= 2^(k - 1) /\ 2^(k - 1) \in Nat
        BY <3>3, PowMono, Widths
      <4>2. x \div 2^(k - 1) = 0
        BY <4>1, <1>1, ModSmall
      <4> QED  BY <4>1, <4>2, <1>2 DEF Bit
    <3>6. Bit(y, k - 1) \in {0, 1} /\ 2^(k - 1) \in Nat /\ AndLow(x, y, k - 1) \in Nat
      BY <3>3, <1>2, BitRange, PowPos, AndLowRange, Widths
    <3> QED  BY <3>1, <3>3, <3>4, <3>5, <3>6
  <2>2. DW \in 0 .. DW /\ DW >= n
    BY Widths
  <2> QED  BY <2>1, <2>2
<1>6. x + y - (x & y) < 2^n
  BY <1>2, <1>3, <1>5, AndLowRange
<1> QED  BY <1>1, <1>4, <1>6 DEF |, ^^

-----------------------------------------------------------------------------
(* Casts.                                                                  *)

LEMMA Powers == /\ 2^ByteBits \in Nat /\ 2^ByteBits >= 2 /\ 2^HW \in Nat /\ 2^HW >= 4
                /\ 2^WW \in Nat /\ 2^WW >= 16 /\ 2^DW \in Nat /\ 2^DW >= 256
                /\ 2^HW = 2^ByteBits * 2^ByteBits /\ 2^WW = 2^HW * 2^HW /\ 2^DW = 2^WW * 2^WW
<1>1. /\ ByteBits \in Nat /\ HW = ByteBits + ByteBits /\ WW = HW + HW /\ DW = WW + WW
      /\ HW \in Nat /\ WW \in Nat /\ DW \in Nat /\ HW <= DW + 1 /\ WW <= DW + 1 /\ DW <= DW + 1
      /\ 0 < ByteBits /\ ByteBits <= DW + 1 /\ ByteBits \in 0 .. (DW + 1)
  BY Widths
<1>2. 2^HW = 2^ByteBits * 2^ByteBits
  BY <1>1, PowAdd
<1>3. 2^WW = 2^HW * 2^HW
  BY <1>1, PowAdd
<1>4. 2^DW = 2^WW * 2^WW
  BY <1>1, PowAdd
<1>5. 2^ByteBits \in Nat /\ 2^ByteBits >= 2
  <2>1. 2 * 2^0 <= 2^ByteBits /\ 2^ByteBits \in Nat
    BY <1>1, PowMono
  <2> QED  BY <2>1
<1>6. 2^HW \in Nat /\ 2^HW >= 4
  <2>1. 2^ByteBits * 2^ByteBits >= 2 * 2^ByteBits
    BY <1>5, MulLeq
  <2> QED  BY <2>1, <1>2, <1>5
<1>7. 2^WW \in Nat /\ 2^WW >= 16
  <2>1. 2^HW * 2^HW >= 4 * 2^HW
    BY <1>6, MulLeq
  <2> QED  BY <2>1, <1>3, <1>6
<1>8. 2^DW \in Nat /\ 2^DW >= 256
  <2>1. 2^WW * 2^WW >= 16 * 2^WW
    BY <1>7, MulLeq
  <2> QED  BY <2>1, <1>4, <1>7
<1> QED  BY <1>2, <1>3, <1>4, <1>5, <1>6, <1>7, <1>8

LEMMA URange ==
    ASSUME NEW x \in Int, NEW n \in 0 .. DW
    PROVE  U(x, n) \in Unsigned(n) /\ U(x, n) \in Nat /\ 2^n \in Nat /\ 2^n >= 1
<1>1. 2^n \in Nat /\ 2^n >= 1
  BY PowPos, Widths
<1> QED  BY <1>1, DivMod DEF U, Unsigned

LEMMA URanges ==
    ASSUME NEW x \in Int
    PROVE  /\ U(x, ByteBits) \in Unsigned(ByteBits) /\ U(x, HW) \in Unsigned(HW)
           /\ U(x, WW) \in Unsigned(WW) /\ U(x, DW) \in Unsigned(DW)
           /\ U(x, WW) \in Nat /\ U(x, DW) \in Nat
<1>1. ByteBits \in 0 .. DW /\ HW \in 0 .. DW /\ WW \in 0 .. DW /\ DW \in 0 .. DW
  BY Widths
<1> QED  BY <1>1, URange

LEMMA SRange ==
    ASSUME NEW x \in Int, NEW n \in 1 .. DW
    PROVE  /\ S(x, n) \in Int /\ -(2^(n - 1)) <= S(x, n) /\ S(x, n) < 2^(n - 1)
           /\ U(S(x, n), n) = U(x, n)
           /\ 2^n = 2 * 2^(n - 1) /\ 2^(n - 1) \in Nat /\ 2^(n - 1) >= 1
<1>1. n - 1 \in 0 .. DW /\ (n - 1) + 1 = n /\ n \in 0 .. DW
  BY Widths
<1>2. 2^n = 2 * 2^(n - 1) /\ 2^(n - 1) \in Nat /\ 2^(n - 1) >= 1
  BY <1>1, PowersOfTwo, PowPos, Widths
<1>3. U(x, n) \in Nat /\ U(x, n) < 2^n
  BY <1>1, <1>2, URange DEF Unsigned
<1>4. S(x, n) \in Int /\ -(2^(n - 1)) <= S(x, n) /\ S(x, n) < 2^(n - 1)
  BY <1>2, <1>3 DEF S
<1>5. U(S(x, n), n) = U(x, n)
  <2>1. CASE U(x, n) < 2^(n - 1)
    BY <2>1, <1>2, <1>3, ModSmall DEF S, U
  <2>2. CASE ~(U(x, n) < 2^(n - 1))
    <3>1. S(x, n) = U(x, n) + (-1) * 2^n
      BY <2>2, <1>2, <1>3 DEF S
    <3>2. U(U(x, n) + (-1) * 2^n, n) = U(U(x, n), n)
      BY <1>2, <1>3, ModShift DEF U
    <3>3. U(U(x, n), n) = U(x, n)
      BY <1>2, <1>3, ModSmall DEF U
    <3> QED  BY <3>1, <3>2, <3>3
  <2> QED  BY <2>1, <2>2
<1> QED  BY <1>2, <1>4, <1>5

LEMMA SInts ==
    ASSUME NEW x \in Int
    PROVE  S(x, ByteBits) \in Int /\ S(x, HW) \in Int /\ S(x, WW) \in Int /\ S(x, DW) \in Int
<1>1. ByteBits \in 1 .. DW /\ HW \in 1 .. DW /\ WW \in 1 .. DW /\ DW \in 1 .. DW
  BY Widths
<1> QED  BY <1>1, SRange

-----------------------------------------------------------------------------
(* The states of both interpreters, w bits wide.                           *)

Memories == UNION {[D -> Unsigned(ByteBits)] : D \in SUBSET Nat}
Frames == [taken : BOOLEAN, target : Unsigned(WW), link : Unsigned(WW)]
States(w) == [pc : Unsigned(w), gpr : [Registers -> Unsigned(w)], lo : Unsigned(w), hi : Unsigned(w),
              cpr0 : [Registers -> Unsigned(WW)], cpr1 : [Registers -> Unsigned(WW)], fcr : Unsigned(WW),
              icnt : Nat, brk : {0, 1}, mem : Memories, st : {"run", "exit", "abort", "signal"},
              w : {w}, frames : Seq(Frames)]

\* An instruction as it reaches a handler, with what the machine contributes.
Ready(i) ==
    /\ i \in [op : Ops, rs : Registers, rt : Registers, rd : Registers, sa : Registers, imm : Nat, tgt : Nat,
              fmt : {"S", "D", "W"}, u : {0, 1}, h : Int]
    /\ i.h <= Len(HostBytes)
    /\ i.imm < 2^HW \/ i.op = "monitor"
    /\ i.tgt * 4 < 2^JumpBits
    /\ i.op \in ShiftOps \cup {"ext"} => i.sa < WW
    /\ i.op \in {"ext", "ins"} => i.rd < WW
    /\ i.op = "ins" => i.sa <= i.rd
    /\ i.fmt = "D" => 31 \notin {i.rs, i.rt, i.rd, i.sa}
    /\ i.op \in {"ldc1", "sdc1"} => i.rt # 31
    /\ i.op \in {"ldxc1", "cvtd"} => i.sa # 31

\* What an instruction that is no transfer does to the control state: it goes on
\* to the next word, or stops the process where it is.
Straight(x, y) ==
    /\ y \in States(x.w) /\ y.frames = x.frames /\ y.icnt = x.icnt
    /\ \/ y.st = x.st /\ y.pc = U(x.pc + 4, x.w)
       \/ y.st \in {"exit", "abort", "signal"} /\ y.pc = x.pc

LEMMA Unsigneds ==
    /\ \A w \in {WW, DW} : \A x \in Unsigned(w) : x \in Nat /\ x \in Int /\ x < 2^w
    /\ \A w \in {WW, DW} : 0 \in Unsigned(w) /\ 1 \in Unsigned(w)
    /\ \A x \in Unsigned(ByteBits) : x \in Nat /\ x \in Int /\ x < 2^ByteBits
    /\ 0 \in Unsigned(ByteBits)
BY Powers DEF Unsigned

\* A cast leaves alone what fits.
LEMMA USmall ==
    ASSUME NEW w \in {WW, DW}, NEW x \in Unsigned(w)
    PROVE  U(x, w) = x /\ x \in Int /\ 0 <= x /\ x < 2^w /\ 2^w \in Nat
<1>1. 2^w \in Nat /\ x \in Int /\ 0 <= x /\ x < 2^w
  BY Powers DEF Unsigned
<1> QED  BY <1>1, ModSmall DEF U

LEMMA AdvStraight ==
    ASSUME NEW w \in {WW, DW}, NEW x \in States(w)
    PROVE  Straight(x, Adv(x))
<1>1. x.pc + 4 \in Int /\ x.w = w
  BY Unsigneds DEF States
<1>2. U(x.pc + 4, w) \in Unsigned(w)
  BY <1>1, URanges
<1> QED  BY <1>1, <1>2 DEF Straight, Adv, States

LEMMA StopStraight ==
    ASSUME NEW w \in {WW, DW}, NEW x \in States(w), NEW why \in {"exit", "abort", "signal"}
    PROVE  Straight(x, Stop(x, why))
BY DEF Straight, Stop, States

\* A step that first changes data only, and then goes on.
SameControl(x, y) ==
    /\ y \in States(x.w) /\ y.frames = x.frames /\ y.icnt = x.icnt /\ y.st = x.st /\ y.pc = x.pc

LEMMA ThenAdv ==
    ASSUME NEW w \in {WW, DW}, NEW x \in States(w), NEW y, SameControl(x, y)
    PROVE  Straight(x, Adv(y))
<1>1. x.w = w /\ y.w = w /\ y \in States(w)
  BY DEF States, SameControl
<1>2. Straight(y, Adv(y))
  BY <1>1, AdvStraight
<1> QED  BY <1>1, <1>2 DEF Straight, SameControl

LEMMA SetGpr ==
    ASSUME NEW w \in {WW, DW}, NEW x \in States(w), NEW r \in Registers, NEW v \in Unsigned(w)
    PROVE  SameControl(x, [x EXCEPT !.gpr[r] = v])
BY DEF SameControl, States

LEMMA SetHiLo ==
    ASSUME NEW w \in {WW, DW}, NEW x \in States(w), NEW h \in Unsigned(w), NEW l \in Unsigned(w)
    PROVE  SameControl(x, [x EXCEPT !.hi = h, !.lo = l])
BY DEF SameControl, States

LEMMA SetMem ==
    ASSUME NEW w \in {WW, DW}, NEW x \in States(w), NEW m \in Memories
    PROVE  SameControl(x, [x EXCEPT !.mem = m])
BY DEF SameControl, States

LEMMA GprStraight ==
    ASSUME NEW w \in {WW, DW}, NEW x \in States(w), NEW r \in Registers, NEW v \in Int
    PROVE  Straight(x, Gpr(x, r, v))
<1>1. U(v, x.w) \in Unsigned(w)
  BY URanges DEF States
<1> QED  BY <1>1, SetGpr, ThenAdv DEF Gpr

LEMMA HiLoStraight ==
    ASSUME NEW w \in {WW, DW}, NEW x \in States(w), NEW h \in Int, NEW l \in Int
    PROVE  Straight(x, HiLo(x, h, l))
<1>1. U(h, x.w) \in Unsigned(w) /\ U(l, x.w) \in Unsigned(w)
  BY URanges DEF States
<1> QED  BY <1>1, SetHiLo, ThenAdv DEF HiLo

-----------------------------------------------------------------------------
(* Memory.                                                                 *)

LEMMA IsMemory ==
    ASSUME NEW D \in SUBSET Nat, NEW m \in [D -> Unsigned(ByteBits)]
    PROVE  m \in Memories
BY DEF Memories

LEMMA MemoryIs ==
    ASSUME NEW m \in Memories
    PROVE  /\ DOMAIN m \in SUBSET Nat /\ m \in [DOMAIN m -> Unsigned(ByteBits)]
           /\ \A a \in DOMAIN m : a \in Nat /\ m[a] \in Unsigned(ByteBits)
BY DEF Memories

LEMMA ShiftPow ==
    ASSUME NEW j \in 0 .. 8
    PROVE  /\ ByteBits * j \in 0 .. DW /\ 2^(ByteBits * j) \in Nat /\ 2^(ByteBits * j) >= 1
<1>1. ByteBits * j \in 0 .. DW /\ ByteBits * j \in 0 .. (DW + 1)
  BY Widths
<1> QED  BY <1>1, PowPos

LEMMA ByteRange ==
    ASSUME NEW x \in Int, NEW j \in 0 .. 8
    PROVE  ByteOf(x, j) \in Unsigned(ByteBits) /\ ByteOf(x, j) \in Nat
<1>1. x \div 2^(ByteBits * j) \in Int
  BY ShiftPow, DivMod
<1> QED  BY <1>1, Powers, DivMod DEF ByteOf, Unsigned

LEMMA ByteAtRange ==
    ASSUME NEW m \in Memories, NEW a
    PROVE  ByteAt(m, a) \in Unsigned(ByteBits) /\ ByteAt(m, a) \in Nat
BY MemoryIs, Unsigneds DEF ByteAt

LEMMA GetRange ==
    ASSUME NEW m \in Memories, NEW a \in Int, NEW k \in 0 .. 8
    PROVE  get(m, a, k) \in Nat
<1> DEFINE f == [j \in 0 .. k - 1 |-> ByteAt(m, a + j) * 2^(ByteBits * j)]
<1>1. ASSUME NEW j \in 0 .. (k - 1)
      PROVE  f[j] \in Nat
  <2>1. j \in 0 .. 8 /\ f[j] = ByteAt(m, a + j) * 2^(ByteBits * j)
    OBVIOUS
  <2>2. ByteAt(m, a + j) \in Nat /\ 2^(ByteBits * j) \in Nat
    BY <2>1, ShiftPow, ByteAtRange
  <2> QED  BY <2>1, <2>2
<1>2. get(m, a, k) = Sum(f, k)
  BY DEF get
<1> HIDE DEF f
<1> QED  BY <1>1, <1>2, SumType

LEMMA SwapRange ==
    ASSUME NEW x \in Nat, NEW k \in 0 .. 8
    PROVE  Reversed(x, k) \in Nat /\ bswap(x, k) \in Nat
<1> DEFINE f == [j \in 0 .. k - 1 |-> ByteOf(x, k - 1 - j) * 2^(ByteBits * j)]
<1>1. ASSUME NEW j \in 0 .. (k - 1)
      PROVE  f[j] \in Nat
  <2>1. j \in 0 .. 8 /\ f[j] = ByteOf(x, k - 1 - j) * 2^(ByteBits * j) /\ k - 1 - j \in 0 .. 8
    OBVIOUS
  <2>2. ByteOf(x, k - 1 - j) \in Nat /\ 2^(ByteBits * j) \in Nat
    <3>0. x \in Int
      OBVIOUS
    <3>1. \A b \in 0 .. 8 : ByteOf(x, b) \in Nat
      BY <3>0, ByteRange
    <3> QED  BY <2>1, <3>1, ShiftPow
  <2> QED  BY <2>1, <2>2
<1>2. Reversed(x, k) = Sum(f, k)
  BY DEF Reversed
<1> HIDE DEF f
<1>3. Reversed(x, k) \in Nat
  BY <1>1, <1>2, SumType
<1> QED  BY <1>3 DEF bswap

LEMMA LoadRange ==
    ASSUME NEW m \in Memories, NEW a \in Int, NEW k \in 0 .. 8
    PROVE  Load(m, a, k) \in Nat
BY GetRange, SwapRange DEF Load

LEMMA SetRange ==
    ASSUME NEW m \in Memories, NEW a \in Nat, NEW k \in 0 .. 8, NEW v \in Int
    PROVE  set(m, a, k, v) \in Memories
<1> DEFINE D == DOMAIN m \cup (a .. a + k - 1)
<1>1. D \in SUBSET Nat
  BY MemoryIs
<1>2. \A b \in a .. a + k - 1 : ByteOf(v, b - a) \in Unsigned(ByteBits)
  <2>1. \A j \in 0 .. 8 : ByteOf(v, j) \in Unsigned(ByteBits)
    BY ByteRange
  <2>2. \A b \in a .. a + k - 1 : b - a \in 0 .. 8
    OBVIOUS
  <2> QED  BY <2>1, <2>2, Zenon
<1>3. \A b \in DOMAIN m : m[b] \in Unsigned(ByteBits)
  BY MemoryIs
<1>4. set(m, a, k, v) \in [D -> Unsigned(ByteBits)]
  BY <1>2, <1>3 DEF set
<1> HIDE DEF D
<1> QED  BY <1>1, <1>4, IsMemory

LEMMA StoreRange ==
    ASSUME NEW m \in Memories, NEW a \in Nat, NEW k \in {1, 2, 4, 8}, NEW v \in Int
    PROVE  Store(m, a, k, v) \in Memories
<1>1. k * ByteBits \in 0 .. DW /\ k \in 0 .. 8
  BY Widths
<1>2. U(v, k * ByteBits) \in Nat
  BY <1>1, URange
<1>3. bswap(U(v, k * ByteBits), k) \in Int
  <2>1. \A y \in Nat : bswap(y, k) \in Nat
    BY <1>1, SwapRange
  <2> QED  BY <1>2, <2>1
<1> QED  BY <1>1, <1>3, SetRange DEF Store

LEMMA PutRange ==
    ASSUME NEW m \in Memories, NEW a \in Nat, NEW bytes \in Seq(Unsigned(ByteBits))
    PROVE  PutBytes(m, a, bytes) \in Memories
<1> DEFINE D == DOMAIN m \cup (a .. a + Len(bytes) - 1)
<1>1. D \in SUBSET Nat
  BY MemoryIs
<1>2. \A b \in a .. a + Len(bytes) - 1 : bytes[b - a + 1] \in Unsigned(ByteBits)
  OBVIOUS
<1>3. \A b \in DOMAIN m : m[b] \in Unsigned(ByteBits)
  BY MemoryIs
<1>4. PutBytes(m, a, bytes) \in [D -> Unsigned(ByteBits)]
  BY <1>2, <1>3 DEF PutBytes
<1> HIDE DEF D
<1> QED  BY <1>1, <1>4, IsMemory

LEMMA ZeroedRange ==
    ASSUME NEW m \in Memories, NEW addrs \in SUBSET Int
    PROVE  Zeroed(m, addrs) \in Memories
<1> DEFINE z == UNION {U(a, WW) .. U(a, WW) + 3 : a \in addrs}
           D == DOMAIN m \cup z
<1>1. z \in SUBSET Nat
  BY URanges
<1>2. Zeroed(m, addrs) = [b \in D |-> IF b \in z THEN 0 ELSE m[b]]
  BY DEF Zeroed
<1> HIDE DEF z
<1>3. D \in SUBSET Nat
  BY <1>1, MemoryIs
<1>4. \A b \in DOMAIN m : m[b] \in Unsigned(ByteBits)
  BY MemoryIs
<1>5. Zeroed(m, addrs) \in [D -> Unsigned(ByteBits)]
  BY <1>2, <1>4, Unsigneds
<1> HIDE DEF D
<1> QED  BY <1>3, <1>5, IsMemory

LEMMA MemStraight ==
    ASSUME NEW w \in {WW, DW}, NEW x \in States(w), NEW a \in Nat, NEW k \in {1, 2, 4, 8}, NEW v \in Int
    PROVE  Straight(x, Mem(x, a, k, v))
<1>1. x.mem \in Memories
  BY DEF States
<1>2. Store(x.mem, a, k, v) \in Memories
  BY <1>1, StoreRange
<1> QED  BY <1>2, SetMem, ThenAdv DEF Mem

-----------------------------------------------------------------------------
(* What a handler reads.                                                   *)

LEMMA Reads ==
    ASSUME NEW w \in {WW, DW}, NEW x \in States(w)
    PROVE  /\ \A r \in Registers : x.gpr[r] \in Unsigned(w) /\ x.gpr[r] \in Nat /\ x.gpr[r] \in Int
           /\ \A r \in Registers : x.cpr0[r] \in Unsigned(WW) /\ x.cpr0[r] \in Nat /\ x.cpr0[r] \in Int
           /\ \A r \in Registers : x.cpr1[r] \in Unsigned(WW) /\ x.cpr1[r] \in Nat /\ x.cpr1[r] \in Int
           /\ x.hi \in Unsigned(w) /\ x.lo \in Unsigned(w) /\ x.hi \in Int /\ x.lo \in Int
           /\ x.fcr \in Unsigned(WW) /\ x.fcr \in Int /\ x.pc \in Unsigned(w) /\ x.pc \in Int
           /\ x.mem \in Memories /\ x.w = w
BY Unsigneds DEF States

LEMMA Fields ==
    ASSUME NEW i, Ready(i)
    PROVE  /\ i.rs \in Registers /\ i.rt \in Registers /\ i.rd \in Registers /\ i.sa \in Registers
           /\ i.imm \in Nat /\ i.imm \in Int /\ i.tgt \in Nat /\ i.u \in {0, 1} /\ i.h \in Int /\ i.op \in Ops
           /\ i.sa \in Nat /\ i.rd \in Nat /\ i.rt \in Nat /\ S(i.imm, HW) \in Int
           /\ i.fmt \in {"S", "D", "W"}
<1>1. i.imm \in Int
  BY DEF Ready
<1>2. S(i.imm, HW) \in Int
  BY <1>1, SInts
<1>3. /\ i.rs \in Registers /\ i.rt \in Registers /\ i.rd \in Registers /\ i.sa \in Registers
      /\ i.imm \in Nat /\ i.tgt \in Nat /\ i.u \in {0, 1} /\ i.h \in Int /\ i.op \in Ops /\ i.fmt \in {"S", "D", "W"}
  BY DEF Ready
<1>4. \A r \in Registers : r \in Nat
  BY DEF Registers
<1> QED  BY <1>1, <1>2, <1>3, <1>4

LEMMA BitwiseInt ==
    ASSUME NEW x \in Int, NEW y \in Int
    PROVE  (x & y) \in Nat /\ (x & y) \in Int /\ (x | y) \in Int /\ (x ^^ y) \in Int
<1>1. 0 \in 0 .. (DW - 1) /\ DW \in 0 .. DW
  BY Widths
<1>2. (x & y) = AndLow(x, y, DW) /\ AndLow(x, y, DW) \in Nat
  BY <1>1, AndStep, AndLowRange
<1> QED  BY <1>2 DEF |, ^^

\* Masking with n bits leaves n bits.
LEMMA AndBound ==
    ASSUME NEW n \in 0 .. DW, NEW x \in Int, NEW y \in Unsigned(n)
    PROVE  (x & y) \in Unsigned(n) /\ (x & y) <= y
<1>1. 0 \in 0 .. (DW - 1) /\ DW \in 0 .. DW
  BY Widths
<1>2. 2^n \in Nat /\ 2^DW \in Nat /\ 2^n <= 2^DW /\ y \in Int
  BY PowMono, Widths DEF Unsigned
<1>3. y % 2^DW = y
  BY <1>2, ModSmall DEF Unsigned
<1>4. (x & y) = AndLow(x, y, DW) /\ AndLow(x, y, DW) \in Nat /\ AndLow(x, y, DW) <= y % 2^DW
  BY <1>1, <1>2, AndStep, AndLowRange
<1> QED  BY <1>2, <1>3, <1>4 DEF Unsigned

LEMMA InvRange ==
    ASSUME NEW x \in Int, NEW n \in 0 .. DW
    PROVE  Inv(x, n) \in Unsigned(n) /\ Inv(x, n) \in Int
<1>1. U(x, n) \in Nat /\ U(x, n) < 2^n /\ 2^n \in Nat
  BY URange DEF Unsigned
<1> QED  BY <1>1 DEF Inv, Unsigned

LEMMA InvInt ==
    ASSUME NEW x \in Int
    PROVE  Inv(x, WW) \in Unsigned(WW) /\ Inv(x, WW) \in Int /\ Inv(x, DW) \in Unsigned(DW) /\ Inv(x, DW) \in Int
<1>1. WW \in 0 .. DW /\ DW \in 0 .. DW
  BY Widths
<1> QED  BY <1>1, InvRange

LEMMA ExtInt ==
    ASSUME NEW x \in Int
    PROVE  SExt(x, WW, DW) \in Int /\ SExt(x, WW, DW) \in Unsigned(DW)
<1>1. S(x, WW) \in Int
  BY SInts
<1> QED  BY <1>1, URanges DEF SExt

LEMMA SetBitRange ==
    ASSUME NEW x \in Unsigned(WW), NEW v \in Int, NEW b \in 0 .. 8
    PROVE  setBit(x, v, b) \in Unsigned(WW)
<1> DEFINE e == 2^b
<1>1. e \in Int /\ WW \in 0 .. DW /\ x \in Int
  BY PowPos, Widths DEF Unsigned
<1> HIDE DEF e
<1>2. Inv(v - 1, WW) \in Unsigned(WW)
  BY InvInt
<1>3. (e & Inv(v - 1, WW)) \in Unsigned(WW)
  BY <1>1, <1>2, AndBound
<1>4. Inv(e, WW) \in Int
  BY <1>1, InvInt
<1>5. (Inv(e, WW) & x) \in Unsigned(WW)
  BY <1>1, <1>4, AndBound
<1>6. \A y, z \in Unsigned(WW) : (y | z) \in Unsigned(WW)
  BY <1>1, BitwiseRange DEF Unsigned
<1>7. setBit(x, v, b) = ((Inv(e, WW) & x) | (e & Inv(v - 1, WW)))
  BY DEF setBit, e
<1> QED  BY <1>3, <1>5, <1>6, <1>7

LEMMA SplitStraight ==
    ASSUME NEW w \in {WW, DW}, NEW x \in States(w), NEW y \in Int
    PROVE  Straight(x, HiLo(x, U(y, DW) \div 2^WW, y))
<1>1. U(y, DW) \in Int
  BY URanges
<1>2. U(y, DW) \div 2^WW \in Int
  BY <1>1, Powers, DivMod
<1> QED  BY <1>2, HiLoStraight

\* The number of leading zeros exists.
LEMMA LeadingZeros ==
    ASSUME NEW x \in Unsigned(WW)
    PROVE  LET lead == CHOOSE n \in 0 .. WW : x \div 2^(WW - n) = 0 /\ (n = WW \/ x \div 2^(WW - n - 1) = 1)
           IN  lead \in Int /\ lead \in 0 .. WW
<1> DEFINE T == {k \in 0 .. WW : x < 2^k}
<1>1. T \subseteq Nat /\ WW \in T /\ x \in Int /\ 0 <= x
  BY Widths, Powers DEF Unsigned
<1>2. PICK k \in T : \A j \in T : k <= j
  <2> HIDE DEF T
  <2> QED  BY <1>1, LeastNatural
<1>3. k \in 0 .. WW /\ x < 2^k
  BY <1>2
<1>4. x \div 2^k = 0
  <2>1. 2^k \in Int
    BY <1>3, PowPos, Widths
  <2> QED  BY <2>1, <1>1, <1>3, ModSmall
<1>5. k = 0 \/ x \div 2^(k - 1) = 1
  <2>1. SUFFICES ASSUME k # 0 PROVE x \div 2^(k - 1) = 1
    OBVIOUS
  <2> DEFINE j == k - 1
  <2>2. j \in 0 .. WW /\ j \in 0 .. DW /\ j + 1 = k /\ j \notin T
    BY <2>1, <1>2, Widths
  <2>3. 2^j <= x /\ 2^j \in Nat /\ 2^j >= 1 /\ 2^k = 2 * 2^j
    BY <2>2, <1>1, PowersOfTwo, PowPos, Widths
  <2> HIDE DEF j
  <2>4. x = 1 * 2^j + (x - 2^j) /\ 0 <= x - 2^j /\ x - 2^j < 2^j
    BY <2>3, <1>1, <1>3
  <2>5. x \div 2^j = 1
    BY <2>3, <2>4, <1>1, DivModUnique
  <2> QED  BY <2>5 DEF j
<1> DEFINE n == WW - k
<1>6. n \in 0 .. WW /\ WW - n = k /\ WW - n - 1 = k - 1 /\ (k = 0 => n = WW)
  BY <1>3, Widths
<1>7. x \div 2^(WW - n) = 0 /\ (n = WW \/ x \div 2^(WW - n - 1) = 1)
  <2> HIDE DEF n
  <2> QED  BY <1>4, <1>5, <1>6, Zenon
<1>8. \A m \in 0 .. WW : m \in Int
  BY Widths
<1> HIDE DEF n, T
<1> QED  BY <1>6, <1>7, <1>8, Zenon

-----------------------------------------------------------------------------
(* The handlers of interpret.cc.                                           *)

LEMMA AccInt ==
    ASSUME NEW x \in States(WW)
    PROVE  Acc(x) \in Int
<1>1. x.hi \in Int /\ x.lo \in Int
  BY Reads
<1>2. x.hi * 2^WW \in Int
  BY <1>1, Powers
<1>3. U(x.hi * 2^WW, DW) \in Int /\ SExt(x.lo, WW, DW) \in Int
  BY <1>1, <1>2, URanges, ExtInt
<1> QED  BY <1>3, BitwiseInt DEF Acc

LEMMA Special2Straight ==
    ASSUME NEW x \in States(WW), NEW i, Ready(i)
    PROVE  Straight(x, execSpecial2(x, i))
<1> DEFINE rs == x.gpr[i.rs]
           rt == x.gpr[i.rt]
           sprod == S(rs, WW) * S(rt, WW)
<1>1. rs \in Int /\ rt \in Int /\ rs \in Unsigned(WW) /\ i.rd \in Registers
  BY Reads, Fields
<1>2. S(rs, WW) \in Int /\ S(rt, WW) \in Int
  BY <1>1, SInts
<1>3. sprod \in Int /\ Acc(x) \in Int /\ sprod + Acc(x) \in Int /\ rs * rt + Acc(x) \in Int /\ Acc(x) - sprod \in Int
  BY <1>1, <1>2, AccInt
<1>4. CASE i.op = "madd"
  <2>1. execSpecial2(x, i) = HiLo(x, U(sprod + Acc(x), DW) \div 2^WW, sprod + Acc(x))
    BY <1>4 DEF execSpecial2
  <2> QED  BY <2>1, <1>3, SplitStraight
<1>5. CASE i.op = "maddu"
  <2>1. execSpecial2(x, i) = HiLo(x, U(rs * rt + Acc(x), DW) \div 2^WW, rs * rt + Acc(x))
    BY <1>5 DEF execSpecial2
  <2> QED  BY <2>1, <1>3, SplitStraight
<1>6. CASE i.op = "mul"
  <2>1. execSpecial2(x, i) = Gpr(x, i.rd, sprod)
    BY <1>6 DEF execSpecial2
  <2> QED  BY <2>1, <1>1, <1>3, GprStraight
<1>7. CASE i.op = "msub"
  <2>1. execSpecial2(x, i) = HiLo(x, U(Acc(x) - sprod, DW) \div 2^WW, Acc(x) - sprod)
    BY <1>7 DEF execSpecial2
  <2> QED  BY <2>1, <1>3, SplitStraight
<1>8. CASE i.op = "clz"
  <2> DEFINE n == CHOOSE n \in 0 .. WW : rs \div 2^(WW - n) = 0 /\ (n = WW \/ rs \div 2^(WW - n - 1) = 1)
  <2>1. execSpecial2(x, i) = Gpr(x, i.rd, n)
    BY <1>8 DEF execSpecial2
  <2>2. n \in Int
    BY <1>1, LeadingZeros
  <2> HIDE DEF n
  <2> QED  BY <2>1, <2>2, <1>1, GprStraight
<1>9. CASE i.op \notin {"madd", "maddu", "mul", "msub", "clz"}
  <2>1. execSpecial2(x, i) = Stop(x, "exit")
    BY <1>9 DEF execSpecial2
  <2> QED  BY <2>1, StopStraight
<1> QED  BY <1>4, <1>5, <1>6, <1>7, <1>8, <1>9

\* The result of an undefined shift is a number all the same.
LEMMA Shl1Int ==
    ASSUME NEW n \in 0 .. DW, NEW u \in {0, 1}
    PROVE  Shl1(n, u) \in Int
<1>1. 2^n \in Nat
  BY PowPos, Widths
<1> QED  BY <1>1 DEF Shl1

LEMMA FieldPows ==
    ASSUME NEW i, Ready(i), i.op \in ShiftOps \cup {"ext", "ins"}
    PROVE  2^i.sa \in Nat /\ 2^i.sa >= 1
<1>1. i.sa \in 0 .. (DW + 1)
  <2>1. i.sa < WW
    <3>1. i.op = "ins" => i.sa <= i.rd /\ i.rd < WW
      BY DEF Ready
    <3>2. i.op # "ins" => i.sa < WW
      BY DEF Ready
    <3> QED  BY <3>1, <3>2, Fields, Widths
  <2> QED  BY <2>1, Fields, Widths
<1> QED  BY <1>1, PowPos

LEMMA Special3Straight ==
    ASSUME NEW x \in States(WW), NEW i, Ready(i)
    PROVE  Straight(x, execSpecial3(x, i))
<1> DEFINE rs == x.gpr[i.rs]
           rt == x.gpr[i.rt]
           mask == U(Shl1(i.rd - i.sa + 1, i.u) - 1, WW)
<1>1. rs \in Int /\ rt \in Int /\ i.rd \in Registers /\ i.rt \in Registers /\ i.u \in {0, 1} /\ i.sa \in Nat /\ i.rd \in Nat
  BY Reads, Fields
<1>2. S(rs, WW) \in Int /\ S(rt, ByteBits) \in Int /\ S(rt, HW) \in Int
  BY <1>1, SInts
<1>4. CASE i.op = "seb"
  <2>1. execSpecial3(x, i) = Gpr(x, i.rd, S(rt, ByteBits))
    BY <1>4 DEF execSpecial3
  <2> QED  BY <2>1, <1>1, <1>2, GprStraight
<1>5. CASE i.op = "seh"
  <2>1. execSpecial3(x, i) = Gpr(x, i.rd, S(rt, HW))
    BY <1>5 DEF execSpecial3
  <2> QED  BY <2>1, <1>1, <1>2, GprStraight
<1>6. CASE i.op = "ext"
  <2> DEFINE v == U(S(rs, WW) \div 2^i.sa, WW) & U(Shl1(i.rd + 1, i.u) - 1, WW)
  <2>1. execSpecial3(x, i) = Gpr(x, i.rt, v)
    BY <1>6 DEF execSpecial3
  <2>2. S(rs, WW) \div 2^i.sa \in Int
    BY <1>2, <1>6, FieldPows, DivMod
  <2>3. i.rd + 1 \in 0 .. DW
    BY <1>1, <1>6, Widths, SMTT(40) DEF Ready
  <2>4. Shl1(i.rd + 1, i.u) - 1 \in Int
    BY <2>3, <1>1, Shl1Int
  <2>5. v \in Int
    BY <2>2, <2>4, URanges, BitwiseInt
  <2> HIDE DEF v
  <2> QED  BY <2>1, <2>5, <1>1, GprStraight
<1>7. CASE i.op = "ins"
  <2> DEFINE v == (rt & Inv(mask * 2^i.sa, WW)) | U((rs & mask) * 2^i.sa, WW)
  <2>1. execSpecial3(x, i) = Gpr(x, i.rt, v)
    BY <1>7 DEF execSpecial3
  <2>2. i.rd - i.sa + 1 \in 0 .. DW
    BY <1>1, <1>7, Widths, SMTT(40) DEF Ready
  <2>3. mask \in Int
    <3>1. Shl1(i.rd - i.sa + 1, i.u) - 1 \in Int
      BY <2>2, <1>1, Shl1Int
    <3> QED  BY <3>1, URanges
  <2> HIDE DEF mask
  <2>4. 2^i.sa \in Nat
    BY <1>7, FieldPows
  <2>5. (rs & mask) * 2^i.sa \in Int /\ mask * 2^i.sa \in Int
    <3>1. (rs & mask) \in Int
      BY <2>3, <1>1, BitwiseInt
    <3> QED  BY <2>3, <2>4, <3>1
  <2>6. U((rs & mask) * 2^i.sa, WW) \in Int /\ Inv(mask * 2^i.sa, WW) \in Int
    BY <2>5, URanges, InvInt
  <2>7. v \in Int
    BY <2>6, <1>1, BitwiseInt
  <2> HIDE DEF v
  <2> QED  BY <2>1, <2>7, <1>1, GprStraight
<1>8. CASE i.op = "rdhwr"
  <2>1. execSpecial3(x, i) = IF i.rd = 29 THEN Gpr(x, i.rt, x.cpr0[29]) ELSE Stop(x, "abort")
    BY <1>8 DEF execSpecial3
  <2>2. x.cpr0[29] \in Int
    BY Reads DEF Registers
  <2> QED  BY <2>1, <2>2, <1>1, GprStraight, StopStraight
<1>9. CASE i.op \notin {"seb", "seh", "ext", "ins", "rdhwr"}
  <2>1. execSpecial3(x, i) = Stop(x, "exit")
    BY <1>9 DEF execSpecial3
  <2> QED  BY <2>1, StopStraight
<1> QED  BY <1>4, <1>5, <1>6, <1>7, <1>8, <1>9

LEMMA AddressRange ==
    ASSUME NEW w \in {WW, DW}, NEW x \in States(w), NEW i, Ready(i)
    PROVE  /\ EA(x, i) \in Unsigned(WW) /\ EA(x, i) \in Nat /\ EA(x, i) \in Int
           /\ Aligned(x, i) \in Nat /\ Aligned(x, i) \in Int /\ Aligned(x, i) <= EA(x, i) /\ EA(x, i) <= Aligned(x, i) + 3
           /\ ma(x, i) \in 0 .. 3
           /\ OldWord(x, i) \in Nat /\ OldWord(x, i) \in Int
<1>1. x.gpr[i.rs] + S(i.imm, HW) \in Int
  BY Reads, Fields
<1>2. EA(x, i) \in Unsigned(WW) /\ EA(x, i) \in Nat
  BY <1>1, URanges DEF EA
<1>3. Aligned(x, i) \in Nat /\ Aligned(x, i) <= EA(x, i) /\ EA(x, i) <= Aligned(x, i) + 3 /\ ma(x, i) \in 0 .. 3
  BY <1>2 DEF Aligned, ma
<1>4. OldWord(x, i) \in Nat
  BY <1>3, Reads, LoadRange DEF OldWord
<1> QED  BY <1>2, <1>3, <1>4

LEMMA LowRange ==
    ASSUME NEW k \in 0 .. 4
    PROVE  Low(k) \in Int /\ High(k) \in Int /\ 2^(ByteBits * k) \in Nat /\ 2^(ByteBits * k) >= 1
           /\ Shl1(ByteBits * k, 0) \in Int /\ Shl1(ByteBits * k, 1) \in Int
<1>1. 2^(ByteBits * k) \in Nat /\ 2^(ByteBits * k) >= 1 /\ ByteBits * k \in 0 .. DW
  BY ShiftPow
<1>2. Low(k) \in Int
  BY <1>1 DEF Low
<1>3. High(k) \in Int
  BY <1>2, InvInt DEF High
<1> QED  BY <1>1, <1>2, <1>3, Shl1Int

LEMMA PlainLoads ==
    ASSUME NEW w \in {WW, DW}, NEW x \in States(w), NEW i, Ready(i)
    PROVE  /\ Straight(x, _lw(x, i)) /\ Straight(x, _lh(x, i)) /\ Straight(x, _lb(x, i))
           /\ Straight(x, _lbu(x, i)) /\ Straight(x, _lhu(x, i))
<1>1. EA(x, i) \in Int /\ x.mem \in Memories /\ i.rt \in Registers
  BY AddressRange, Reads, Fields
<1>2. Load(x.mem, EA(x, i), 4) \in Int /\ Load(x.mem, EA(x, i), 2) \in Int /\ get(x.mem, EA(x, i), 1) \in Int
  <2>1. \A k \in 0 .. 8 : Load(x.mem, EA(x, i), k) \in Nat /\ get(x.mem, EA(x, i), k) \in Nat
    BY <1>1, LoadRange, GetRange
  <2> QED  BY <2>1
<1>3. S(Load(x.mem, EA(x, i), 2), HW) \in Int /\ S(get(x.mem, EA(x, i), 1), ByteBits) \in Int
  BY <1>2, SInts
<1> QED  BY <1>1, <1>2, <1>3, GprStraight DEF _lw, _lh, _lb, _lbu, _lhu

LEMMA StoreByte ==
    ASSUME NEW w \in {WW, DW}, NEW x \in States(w), NEW a \in Nat, NEW k \in 0 .. 8, NEW v \in Int
    PROVE  Straight(x, Adv([x EXCEPT !.mem = set(@, a, k, v)]))
<1>1. set(x.mem, a, k, v) \in Memories
  BY Reads, SetRange
<1> QED  BY <1>1, SetMem, ThenAdv

LEMMA PlainStores ==
    ASSUME NEW w \in {WW, DW}, NEW x \in States(w), NEW i, Ready(i)
    PROVE  /\ Straight(x, _sw(x, i)) /\ Straight(x, _sc(x, i)) /\ Straight(x, _sh(x, i)) /\ Straight(x, _sb(x, i))
<1>1. EA(x, i) \in Nat /\ i.rt \in Registers /\ x.gpr[i.rt] \in Int
  BY AddressRange, Reads, Fields
<1>2. Straight(x, _sw(x, i)) /\ Straight(x, _sh(x, i))
  BY <1>1, MemStraight DEF _sw, _sh
<1>3. Straight(x, _sb(x, i))
  <2>1. U(x.gpr[i.rt], ByteBits) \in Int
    BY <1>1, URanges DEF Unsigned
  <2> QED  BY <2>1, <1>1, StoreByte DEF _sb
<1>4. Straight(x, _sc(x, i))
  <2> DEFINE y == Mem(x, EA(x, i), 4, x.gpr[i.rt])
  <2>1. Straight(x, y) /\ y \in States(w)
    BY <1>1, MemStraight, Reads, ZenonT(40) DEF Straight
  <2>2. SameControl(y, [y EXCEPT !.gpr[i.rt] = 1]) /\ y.w = w /\ x.w = w
    <3> HIDE DEF y
    <3>1. 1 \in Unsigned(w)
      BY Unsigneds
    <3> QED  BY <2>1, <1>1, <3>1, SetGpr, Reads
  <2>3. _sc(x, i) = [y EXCEPT !.gpr[i.rt] = 1]
    BY DEF _sc
  <2> HIDE DEF y
  <2> QED  BY <2>1, <2>2, <2>3 DEF Straight, SameControl
<1> QED  BY <1>2, <1>3, <1>4

LEMMA UnalignedStraight ==
    ASSUME NEW w \in {WW, DW}, NEW x \in States(w), NEW i, Ready(i)
    PROVE  /\ Straight(x, _swl(x, i)) /\ Straight(x, _swr(x, i))
           /\ Straight(x, _lwl(x, i)) /\ Straight(x, _lwr(x, i))
<1> DEFINE old == OldWord(x, i)
           rt == x.gpr[i.rt]
           k == ma(x, i)
<1>1. old \in Int /\ rt \in Int /\ k \in 0 .. 3 /\ i.rt \in Registers /\ Aligned(x, i) \in Nat /\ i.u \in {0, 1}
  BY AddressRange, Reads, Fields
<1>2. 4 - k \in 0 .. 4 /\ 3 - k \in 0 .. 4 /\ k + 1 \in 0 .. 4 /\ 4 - (k + 1) \in 0 .. 4 /\ k \in 0 .. 4
  BY <1>1
<1>3. ASSUME NEW j \in 0 .. 4
      PROVE  /\ Low(j) \in Int /\ High(j) \in Int /\ Shl1(ByteBits * j, i.u) - 1 \in Int
             /\ rt \div 2^(ByteBits * j) \in Int /\ old \div 2^(ByteBits * j) \in Int
             /\ U(rt * 2^(ByteBits * j), WW) \in Int /\ U(old * 2^(ByteBits * j), WW) \in Int
  <2> HIDE DEF old, rt
  <2>1. 2^(ByteBits * j) \in Nat /\ 2^(ByteBits * j) >= 1
    BY LowRange
  <2>2. rt \div 2^(ByteBits * j) \in Int /\ old \div 2^(ByteBits * j) \in Int
    BY <1>1, <2>1, DivMod
  <2>3. rt * 2^(ByteBits * j) \in Int /\ old * 2^(ByteBits * j) \in Int
    BY <1>1, <2>1
  <2> QED  BY <2>2, <2>3, <1>1, LowRange, URanges
<1> HIDE DEF old, rt, k
<1>4. Straight(x, _swl(x, i))
  <2> DEFINE v == (old & Inv(Shl1(ByteBits * (4 - k), i.u) - 1, WW)) | (rt \div 2^(ByteBits * k))
  <2>1. _swl(x, i) = Mem(x, Aligned(x, i), 4, v)
    BY DEF _swl, old, rt, k
  <2>2. v \in Int
    <3>1. Inv(Shl1(ByteBits * (4 - k), i.u) - 1, WW) \in Int /\ rt \div 2^(ByteBits * k) \in Int
      BY <1>2, <1>3, InvInt
    <3> QED  BY <3>1, <1>1, BitwiseInt
  <2> HIDE DEF v
  <2> QED  BY <2>1, <2>2, <1>1, MemStraight
<1>5. Straight(x, _swr(x, i))
  <2> DEFINE v == U(rt * 2^(ByteBits * (3 - k)), WW) | (Low(3 - k) & old)
  <2>1. _swr(x, i) = Mem(x, Aligned(x, i), 4, v)
    BY DEF _swr, old, rt, k
  <2>2. v \in Int
    <3>1. U(rt * 2^(ByteBits * (3 - k)), WW) \in Int /\ Low(3 - k) \in Int
      BY <1>2, <1>3
    <3> QED  BY <3>1, <1>1, BitwiseInt
  <2> HIDE DEF v
  <2> QED  BY <2>1, <2>2, <1>1, MemStraight
<1>6. Straight(x, _lwl(x, i))
  <2> DEFINE v == U(old * 2^(ByteBits * k), WW) | (rt & Low(k))
  <2>1. _lwl(x, i) = Gpr(x, i.rt, v)
    BY DEF _lwl, old, rt, k
  <2>2. v \in Int
    <3>1. U(old * 2^(ByteBits * k), WW) \in Int /\ Low(k) \in Int
      BY <1>2, <1>3
    <3> QED  BY <3>1, <1>1, BitwiseInt
  <2> HIDE DEF v
  <2> QED  BY <2>1, <2>2, <1>1, GprStraight
<1>7. Straight(x, _lwr(x, i))
  <2> DEFINE v == (rt & High(k + 1)) | (old \div 2^(ByteBits * (4 - (k + 1))))
  <2>1. _lwr(x, i) = Gpr(x, i.rt, v)
    BY DEF _lwr, old, rt, k
  <2>2. v \in Int
    <3>1. old \div 2^(ByteBits * (4 - (k + 1))) \in Int /\ High(k + 1) \in Int
      BY <1>2, <1>3
    <3> QED  BY <3>1, <1>1, BitwiseInt
  <2> HIDE DEF v
  <2> QED  BY <2>1, <2>2, <1>1, GprStraight
<1> QED  BY <1>4, <1>5, <1>6, <1>7

-----------------------------------------------------------------------------
(* Coprocessors 0 and 1.                                                   *)

LEMMA SetCpr ==
    ASSUME NEW w \in {WW, DW}, NEW x \in States(w), NEW r \in Registers, NEW v \in Unsigned(WW)
    PROVE  /\ SameControl(x, [x EXCEPT !.cpr0[r] = v]) /\ SameControl(x, [x EXCEPT !.cpr1[r] = v])
           /\ SameControl(x, [x EXCEPT !.fcr = v])
BY DEF SameControl, States

\* Host arithmetic on numbers gives numbers.
FpuOps == {"add", "sub", "mul", "div", "abs", "neg", "sqrt", "eq", "lt", "le", "one", "max",
           "to_single", "to_double", "to_int", "of_int"}
FpuTotal == \A op \in FpuOps, n \in {WW, DW}, a \in Int, b \in Int : Fpu(op, n, a, b) \in Int

\* The first of the registers of an n-bit value.
First(r, n) == r \in Registers /\ (n = DW => r # 31)

LEMMA FRegInt ==
    ASSUME NEW w \in {WW, DW}, NEW x \in States(w), NEW n \in {WW, DW}, NEW r, First(r, n)
    PROVE  FReg(x, r, n) \in Int
<1>1. \A q \in Registers : x.cpr1[q] \in Int
  BY Reads
<1>2. CASE n = WW
  BY <1>1, <1>2 DEF FReg, First
<1>3. CASE n # WW
  <2>1. n = DW /\ r \in Registers /\ r + 1 \in Registers
    BY <1>3 DEF First, Registers
  <2>2. x.cpr1[r] \in Int /\ x.cpr1[r + 1] \in Int /\ 2^WW \in Int
    BY <1>1, <2>1, Powers
  <2>3. FReg(x, r, n) = x.cpr1[r] + x.cpr1[r + 1] * 2^WW
    BY <1>3 DEF FReg
  <2> QED  BY <2>2, <2>3
<1> QED  BY <1>2, <1>3

LEMMA HighWord ==
    ASSUME NEW v \in Int
    PROVE  U(v, DW) \div 2^WW \in Unsigned(WW)
<1>1. 2^WW \in Nat /\ 2^WW >= 16 /\ 2^DW = 2^WW * 2^WW
  BY Powers
<1>2. v \div 2^WW \in Int
  BY <1>1, DivMod
<1>3. U(v, DW) \div 2^WW = (v \div 2^WW) % 2^WW
  BY <1>1, ModOfProduct, SMTT(40) DEF U
<1> QED  BY <1>1, <1>2, <1>3, DivMod DEF Unsigned

LEMMA SetFSame ==
    ASSUME NEW w \in {WW, DW}, NEW x \in States(w), NEW n \in {WW, DW}, NEW r, First(r, n), NEW v \in Int
    PROVE  SameControl(x, SetF(x, r, n, v))
<1>1. U(v, WW) \in Unsigned(WW) /\ U(v, DW) \div 2^WW \in Unsigned(WW) /\ r \in Registers
  BY URanges, HighWord DEF First
<1>2. CASE n = WW
  BY <1>1, <1>2, SetCpr DEF SetF
<1>3. CASE n # WW
  <2> DEFINE l == U(v, WW)
             h == U(v, DW) \div 2^WW
  <2>1. SetF(x, r, n, v) = [x EXCEPT !.cpr1[r] = l, !.cpr1[r + 1] = h]
    BY <1>3 DEF SetF
  <2>2. r + 1 \in Registers
    BY <1>3 DEF First, Registers
  <2>3. l \in Unsigned(WW) /\ h \in Unsigned(WW)
    BY <1>1
  <2> HIDE DEF l, h
  <2>4. SameControl(x, [x EXCEPT !.cpr1[r] = l, !.cpr1[r + 1] = h])
    BY <2>2, <2>3, <1>1 DEF SameControl, States
  <2> QED  BY <2>1, <2>4
<1> QED  BY <1>2, <1>3

LEMMA SetFStraight ==
    ASSUME NEW w \in {WW, DW}, NEW x \in States(w), NEW n \in {WW, DW}, NEW r, First(r, n), NEW v \in Int
    PROVE  Straight(x, Adv(SetF(x, r, n, v)))
BY SetFSame, ThenAdv

\* The registers an instruction names hold values of its format.
LEMMA Operands ==
    ASSUME NEW i, Ready(i)
    PROVE  /\ Bits(i.fmt) \in {WW, DW}
           /\ First(i.rs, Bits(i.fmt)) /\ First(i.rt, Bits(i.fmt)) /\ First(i.rd, Bits(i.fmt)) /\ First(i.sa, Bits(i.fmt))
           /\ First(i.rs, WW) /\ First(i.rt, WW) /\ First(i.rd, WW) /\ First(i.sa, WW)
           /\ i.fmt = "D" => First(i.rs, DW) /\ First(i.rt, DW) /\ First(i.rd, DW) /\ First(i.sa, DW)
           /\ ~Odd(i.sa) => First(i.sa, DW)
           /\ i.op \in {"ldxc1", "cvtd"} => First(i.sa, DW)
           /\ i.op \in {"ldc1", "sdc1"} => First(i.rt, DW)
<1>1. WW # DW
  BY Widths
<1>2. i.rs \in Registers /\ i.rt \in Registers /\ i.rd \in Registers /\ i.sa \in Registers
  BY Fields
<1>3. i.fmt = "D" => i.rs # 31 /\ i.rt # 31 /\ i.rd # 31 /\ i.sa # 31
  BY DEF Ready
<1>4. (i.op \in {"ldc1", "sdc1"} => i.rt # 31) /\ (i.op \in {"ldxc1", "cvtd"} => i.sa # 31)
  BY DEF Ready
<1>5. ~Odd(i.sa) => i.sa # 31
  BY DEF Odd
<1> QED  BY <1>1, <1>2, <1>3, <1>4, <1>5 DEF Bits, First

LEMMA Coproc1Memory ==
    ASSUME NEW w \in {WW, DW}, NEW x \in States(w), NEW i, Ready(i)
    PROVE  /\ i.op = "ldc1" => Straight(x, _ldc1(x, i)) /\ Straight(x, Adv(SetF(x, i.rt, DW, Load(x.mem, EA(x, i), 8))))
           /\ i.op = "sdc1" => Straight(x, _sdc1(x, i)) /\ Straight(x, Mem(x, EA(x, i), 8, FReg(x, i.rt, DW)))
           /\ Straight(x, _lwc1(x, i)) /\ Straight(x, _swc1(x, i))
           /\ Straight(x, lxc1(x, i, 4)) /\ (i.op = "ldxc1" => Straight(x, lxc1(x, i, 8)))
<1>1. EA(x, i) \in Int /\ EA(x, i) \in Nat /\ x.mem \in Memories /\ i.rt \in Registers /\ x.cpr1[i.rt] \in Int
  BY AddressRange, Reads, Fields
<1>2. \A a \in Int : Load(x.mem, a, 4) \in Int /\ Load(x.mem, a, 8) \in Int
  <2>1. \A a \in Int, k \in 0 .. 8 : Load(x.mem, a, k) \in Nat
    BY <1>1, LoadRange
  <2> QED  BY <2>1
<1>3. i.op = "ldc1" => Straight(x, Adv(SetF(x, i.rt, DW, Load(x.mem, EA(x, i), 8))))
  BY <1>1, <1>2, Operands, SetFStraight
<1>4. i.op = "sdc1" => Straight(x, Mem(x, EA(x, i), 8, FReg(x, i.rt, DW)))
  BY <1>1, Operands, FRegInt, MemStraight
<1>5. Straight(x, _lwc1(x, i)) /\ Straight(x, _swc1(x, i))
  BY <1>1, <1>2, Operands, SetFStraight, MemStraight DEF _lwc1, _swc1
<1>6. Straight(x, lxc1(x, i, 4)) /\ (i.op = "ldxc1" => Straight(x, lxc1(x, i, 8)))
  <2>1. U(x.gpr[i.rs] + x.gpr[i.rt], WW) \in Int
    BY Reads, Fields, URanges
  <2>2. 4 * ByteBits = WW /\ 8 * ByteBits = DW
    BY Widths
  <2> QED  BY <2>1, <2>2, <1>2, Operands, SetFStraight DEF lxc1
<1> QED  BY <1>3, <1>4, <1>5, <1>6 DEF _ldc1, _sdc1

LEMMA Coproc1xStraight ==
    ASSUME FpuTotal, NEW w \in {WW, DW}, NEW x \in States(w), NEW i, Ready(i)
    PROVE  Straight(x, execCoproc1x(x, i)) /\ Straight(x, execCoproc1x_64(x, i))
<1>1. Straight(x, c1xExec(x, i))
  <2> DEFINE n == Bits(i.fmt)
             prod == Fpu("mul", n, FReg(x, i.rd, n), FReg(x, i.rt, n))
  <2>1. n \in {WW, DW} /\ First(i.sa, n) /\ FReg(x, i.rd, n) \in Int /\ FReg(x, i.rt, n) \in Int /\ FReg(x, i.rs, n) \in Int
    BY Operands, FRegInt
  <2> HIDE DEF n
  <2>2. prod \in Int
    BY <2>1 DEF FpuTotal, FpuOps
  <2> HIDE DEF prod
  <2>3. Fpu("add", n, prod, FReg(x, i.rs, n)) \in Int /\ Fpu("sub", n, prod, FReg(x, i.rs, n)) \in Int
    BY <2>1, <2>2 DEF FpuTotal, FpuOps
  <2>4. CASE i.op = "fmadd"
    <3>1. c1xExec(x, i) = Adv(SetF(x, i.sa, n, Fpu("add", n, prod, FReg(x, i.rs, n))))
      BY <2>4 DEF c1xExec, prod, n
    <3> QED  BY <3>1, <2>1, <2>3, SetFStraight
  <2>5. CASE i.op = "fmsub"
    <3>1. c1xExec(x, i) = Adv(SetF(x, i.sa, n, Fpu("sub", n, prod, FReg(x, i.rs, n))))
      BY <2>5 DEF c1xExec, prod, n
    <3> QED  BY <3>1, <2>1, <2>3, SetFStraight
  <2>6. CASE i.op \notin {"fmadd", "fmsub"}
    <3>1. c1xExec(x, i) = Stop(x, "exit")
      BY <2>6 DEF c1xExec
    <3> QED  BY <3>1, StopStraight
  <2> QED  BY <2>4, <2>5, <2>6
<1>2. Straight(x, Stop(x, "exit"))
  BY StopStraight
<1>3. Straight(x, lxc1(x, i, 4)) /\ (i.op = "ldxc1" => Straight(x, lxc1(x, i, 8)))
  BY Coproc1Memory
<1> QED  BY <1>1, <1>2, <1>3 DEF execCoproc1x, execCoproc1x_64

LEMMA MoveStraight ==
    ASSUME NEW w \in {WW, DW}, NEW x \in States(w), NEW i, NEW n \in {WW, DW},
           First(i.sa, n), First(i.rd, n), NEW cond \in BOOLEAN
    PROVE  Straight(x, MoveIf(x, i, n, cond))
<1>1. FReg(x, i.rd, n) \in Int
  BY FRegInt
<1>2. Straight(x, Adv(SetF(x, i.sa, n, FReg(x, i.rd, n)))) /\ Straight(x, Adv(x))
  BY <1>1, SetFStraight, AdvStraight
<1> QED  BY <1>2 DEF MoveIf

LEMMA MovesStraight ==
    ASSUME NEW w \in {WW, DW}, NEW x \in States(w), NEW i, Ready(i)
    PROVE  /\ Straight(x, _fmovn(x, i)) /\ Straight(x, _fmovz(x, i)) /\ Straight(x, _fmovc(x, i))
           /\ i.op \in {"fmovn", "fmovz", "fmovc"} => Straight(x, Moves_64(x, i))
           /\ Straight(x, _movci(x, i)) /\ Straight(x, _movci_64(x, i))
<1>1. First(i.sa, WW) /\ First(i.rd, WW) /\ (i.fmt = "D" => First(i.sa, DW) /\ First(i.rd, DW))
  BY Operands
<1>2. \A c \in BOOLEAN : Straight(x, MoveIf(x, i, WW, c)) /\ (i.fmt = "D" => Straight(x, MoveIf(x, i, DW, c)))
  BY <1>1, MoveStraight
<1>3. /\ (x.gpr[i.rt] # 0) \in BOOLEAN /\ (x.gpr[i.rt] = 0) \in BOOLEAN /\ OnCode(x, i) \in BOOLEAN
  BY DEF OnCode
<1>4. Straight(x, Stop(x, "exit"))
  BY StopStraight
<1>5. i.fmt = "D" => /\ Straight(x, _movnd(x, i)) /\ Straight(x, _movzd(x, i)) /\ Straight(x, _movcd(x, i))
  BY <1>2, <1>3, Zenon DEF _movnd, _movzd, _movcd
<1>6. Straight(x, _movns(x, i)) /\ Straight(x, _movzs(x, i)) /\ Straight(x, _movcs(x, i))
  BY <1>2, <1>3, Zenon DEF _movns, _movzs, _movcs
<1>7. Straight(x, _fmovn(x, i)) /\ Straight(x, _fmovz(x, i)) /\ Straight(x, _fmovc(x, i))
  BY <1>4, <1>5, <1>6 DEF _fmovn, _fmovz, _fmovc
<1>8. ASSUME i.op \in {"fmovn", "fmovz", "fmovc"} PROVE Straight(x, Moves_64(x, i))
  <2>1. CASE i.fmt \notin {"S", "D"}
    BY <2>1, <1>4 DEF Moves_64
  <2>2. CASE i.fmt \in {"S", "D"}
    <3>1. \A c \in BOOLEAN : Straight(x, MoveIf(x, i, Bits(i.fmt), c))
      BY <2>2, <1>2 DEF Bits
    <3>2. /\ Straight(x, MoveIf(x, i, Bits(i.fmt), x.gpr[i.rt] # 0))
          /\ Straight(x, MoveIf(x, i, Bits(i.fmt), x.gpr[i.rt] = 0))
          /\ Straight(x, MoveIf(x, i, Bits(i.fmt), OnCode(x, i)))
      BY <3>1, <1>3, Zenon
    <3> QED  BY <3>2, <2>2, <1>8 DEF Moves_64
  <2> QED  BY <2>1, <2>2
<1>9. Straight(x, _movci(x, i)) /\ Straight(x, _movci_64(x, i))
  BY Reads, Fields, GprStraight DEF _movci, _movci_64
<1> QED  BY <1>7, <1>8, <1>9

LEMMA CompareStraight ==
    ASSUME FpuTotal, NEW w \in {WW, DW}, NEW x \in States(w), NEW i, Ready(i)
    PROVE  Straight(x, _c(x, i)) /\ Straight(x, fpCmp_64(x, i))
<1> DEFINE n == Bits(i.fmt)
           Set(op) == Adv([x EXCEPT !.fcr = setBit(@, Fpu(op, n, FReg(x, i.rd, n), FReg(x, i.rt, n)), i.sa \div 4)])
<1>1. n \in {WW, DW} /\ FReg(x, i.rd, n) \in Int /\ FReg(x, i.rt, n) \in Int
  BY Operands, FRegInt
<1>2. i.sa \div 4 \in 0 .. 8
  BY Fields DEF Registers
<1>3. ASSUME NEW op \in {"eq", "lt", "le"}
      PROVE  Straight(x, Set(op))
  <2> DEFINE v == Fpu(op, n, FReg(x, i.rd, n), FReg(x, i.rt, n))
             f == setBit(x.fcr, v, i.sa \div 4)
  <2>1. v \in Int
    <3> HIDE DEF n
    <3> QED  BY <1>1 DEF FpuTotal, FpuOps
  <2>2. Set(op) = Adv([x EXCEPT !.fcr = f])
    OBVIOUS
  <2> HIDE DEF v
  <2>3. f \in Unsigned(WW)
    BY <2>1, <1>2, Reads, SetBitRange
  <2> HIDE DEF f, Set
  <2>4. 0 \in Registers
    BY DEF Registers
  <2> QED  BY <2>2, <2>3, <2>4, SetCpr, ThenAdv
<1>4. Straight(x, Stop(x, "exit"))
  BY StopStraight
<1>5. Straight(x, fpCmp(x, i, n))
  <2>1. CASE i.op \in {"c.un", "c.eq"}
    <3>1. fpCmp(x, i, n) = Set("eq")
      BY <2>1 DEF fpCmp
    <3> QED  BY <3>1, <1>3
  <2>2. CASE i.op = "c.lt"
    <3>1. fpCmp(x, i, n) = Set("lt")
      BY <2>2 DEF fpCmp
    <3> QED  BY <3>1, <1>3
  <2>3. CASE i.op = "c.le"
    <3>1. fpCmp(x, i, n) = Set("le")
      BY <2>3 DEF fpCmp
    <3> QED  BY <3>1, <1>3
  <2>4. CASE i.op \notin {"c.un", "c.eq", "c.lt", "c.le"}
    <3>1. fpCmp(x, i, n) = Stop(x, "exit")
      BY <2>4 DEF fpCmp
    <3> QED  BY <3>1, <1>4
  <2> QED  BY <2>1, <2>2, <2>3, <2>4
<1>6. Straight(x, fpCmp_64(x, i))
  <2> DEFINE cond == IF i.op = "c.lt" THEN "lt" ELSE IF i.op = "c.le" THEN "le" ELSE "eq"
  <2>1. fpCmp_64(x, i) = IF i.fmt \notin {"S", "D"} THEN Stop(x, "exit") ELSE Set(cond)
    BY DEF fpCmp_64
  <2>2. cond \in {"eq", "lt", "le"}
    OBVIOUS
  <2> HIDE DEF cond, Set
  <2> QED  BY <2>1, <2>2, <1>3, <1>4
<1> QED  BY <1>4, <1>5, <1>6 DEF _c

LEMMA FpuUnary ==
    ASSUME FpuTotal
    PROVE  /\ \A op \in {"to_single", "to_double", "to_int", "of_int", "abs", "neg", "sqrt", "eq"}, n \in {WW, DW}, a \in Int :
                 Fpu(op, n, a, 0) \in Int
           /\ \A op \in {"one", "max"}, n \in {WW, DW} : Fpu(op, n, 0, 0) \in Int
<1>1. 0 \in Int
  OBVIOUS
<1>2. {"to_single", "to_double", "to_int", "of_int", "abs", "neg", "sqrt", "eq", "one", "max"} \subseteq FpuOps
  BY DEF FpuOps
<1>3. \A op \in FpuOps : \A n \in {WW, DW} : \A a \in Int : \A b \in Int : Fpu(op, n, a, b) \in Int
  BY Zenon DEF FpuTotal
<1>4. \A op \in FpuOps : \A n \in {WW, DW} : \A a \in Int : Fpu(op, n, a, 0) \in Int
  BY <1>1, <1>3, Zenon
<1>5. \A op \in FpuOps : \A n \in {WW, DW} : Fpu(op, n, 0, 0) \in Int
  BY <1>1, <1>3, Zenon
<1> QED  BY <1>2, <1>4, <1>5

LEMMA ConvertStraight ==
    ASSUME FpuTotal, NEW w \in {WW, DW}, NEW x \in States(w), NEW i, Ready(i)
    PROVE  /\ Straight(x, _truncw(x, i)) /\ Straight(x, _cvts(x, i)) /\ Straight(x, _truncw_64(x, i))
           /\ i.op = "cvtd" => Straight(x, _cvtd(x, i))
           /\ Straight(x, Convert_64(x, i))
<1> DEFINE n == Bits(i.fmt)
           c == Fpu("to_int", n, FReg(x, i.rd, n), 0)
           f == x.cpr1[i.rd]
           single == Fpu("to_single", DW, FReg(x, i.rd, DW), 0)
           double == Fpu("to_double", WW, f, 0)
           ofintw == Fpu("of_int", WW, S(f, WW), 0)
           ofintd == Fpu("of_int", DW, S(f, WW), 0)
<1>1. n \in {WW, DW} /\ FReg(x, i.rd, n) \in Int /\ f \in Int /\ (i.fmt = "D" => FReg(x, i.rd, DW) \in Int)
  BY Operands, FRegInt, Reads, Fields
<1>2. S(f, WW) \in Int
  BY <1>1, SInts
<1>3. c \in Int /\ U(c, WW) \in Int
  <2>1. c \in Int
    <3> HIDE DEF n
    <3> QED  BY <1>1, FpuUnary
  <2> HIDE DEF c
  <2> QED  BY <2>1, URanges
<1>4. (i.fmt = "D" => single \in Int) /\ double \in Int /\ ofintw \in Int /\ ofintd \in Int
  BY <1>1, <1>2, FpuUnary
<1>5. /\ \A v \in Int : Straight(x, Adv(SetF(x, i.sa, WW, v)))
      /\ ~Odd(i.sa) => \A v \in Int : Straight(x, Adv(SetF(x, i.sa, DW, v)))
      /\ i.op = "cvtd" => \A v \in Int : Straight(x, Adv(SetF(x, i.sa, DW, v)))
  BY Operands, SetFStraight
<1>6. Straight(x, Stop(x, "exit")) /\ Straight(x, Stop(x, "abort"))
  BY StopStraight
<1>7. Straight(x, _truncw(x, i))
  <2>1. _truncw(x, i) = IF Odd(i.sa) \/ Odd(i.rd) THEN Stop(x, "abort")
                        ELSE IF i.fmt \in {"S", "D"} THEN Adv(SetF(x, i.sa, DW, U(c, WW))) ELSE Stop(x, "exit")
    BY DEF _truncw
  <2> HIDE DEF c
  <2> QED  BY <2>1, <1>3, <1>5, <1>6
<1>8. Straight(x, _truncw_64(x, i))
  <2>1. _truncw_64(x, i) = IF i.fmt \in {"S", "D"} THEN Adv(SetF(x, i.sa, WW, c)) ELSE Stop(x, "exit")
    BY DEF _truncw_64
  <2> HIDE DEF c
  <2> QED  BY <2>1, <1>3, <1>5, <1>6
<1>9. Straight(x, _cvts(x, i))
  <2>1. CASE Odd(i.sa) \/ Odd(i.rd)
    BY <2>1, <1>6 DEF _cvts
  <2>2. CASE ~(Odd(i.sa) \/ Odd(i.rd)) /\ i.fmt = "D"
    <3>1. _cvts(x, i) = Adv(SetF(x, i.sa, DW, single))
      BY <2>2 DEF _cvts
    <3> HIDE DEF single
    <3> QED  BY <3>1, <2>2, <1>4, <1>5
  <2>3. CASE ~(Odd(i.sa) \/ Odd(i.rd)) /\ i.fmt = "W"
    <3>1. _cvts(x, i) = Adv(SetF(x, i.sa, DW, ofintw))
      BY <2>3 DEF _cvts
    <3> HIDE DEF ofintw
    <3> QED  BY <3>1, <2>3, <1>4, <1>5
  <2>4. CASE ~(Odd(i.sa) \/ Odd(i.rd)) /\ i.fmt \notin {"D", "W"}
    <3>1. _cvts(x, i) = Stop(x, "exit")
      BY <2>4 DEF _cvts
    <3> QED  BY <3>1, <1>6
  <2> QED  BY <2>1, <2>2, <2>3, <2>4
<1>10. ASSUME i.op = "cvtd" PROVE Straight(x, _cvtd(x, i)) /\ Straight(x, Convert_64(x, i))
  <2>1. CASE i.fmt = "S"
    <3>1. _cvtd(x, i) = Adv(SetF(x, i.sa, DW, double)) /\ Convert_64(x, i) = Adv(SetF(x, i.sa, DW, double))
      BY <2>1, <1>10 DEF _cvtd, Convert_64
    <3> HIDE DEF double
    <3> QED  BY <3>1, <1>4, <1>5, <1>10
  <2>2. CASE i.fmt = "W"
    <3>1. _cvtd(x, i) = Adv(SetF(x, i.sa, DW, ofintd)) /\ Convert_64(x, i) = Adv(SetF(x, i.sa, DW, ofintd))
      BY <2>2, <1>10 DEF _cvtd, Convert_64
    <3> HIDE DEF ofintd
    <3> QED  BY <3>1, <1>4, <1>5, <1>10
  <2>3. CASE i.fmt \notin {"S", "W"}
    <3>1. _cvtd(x, i) = Stop(x, "exit") /\ Convert_64(x, i) = Stop(x, "exit")
      BY <2>3, <1>10 DEF _cvtd, Convert_64
    <3> QED  BY <3>1, <1>6
  <2> QED  BY <2>1, <2>2, <2>3
<1>11. ASSUME i.op = "cvts" PROVE Straight(x, Convert_64(x, i))
  <2>1. CASE i.fmt = "D"
    <3>1. Convert_64(x, i) = Adv(SetF(x, i.sa, WW, single))
      BY <2>1, <1>11 DEF Convert_64
    <3> HIDE DEF single
    <3> QED  BY <3>1, <2>1, <1>4, <1>5
  <2>2. CASE i.fmt = "W"
    <3>1. Convert_64(x, i) = Adv(SetF(x, i.sa, WW, ofintw))
      BY <2>2, <1>11 DEF Convert_64
    <3> HIDE DEF ofintw
    <3> QED  BY <3>1, <1>4, <1>5
  <2>3. CASE i.fmt \notin {"D", "W"}
    <3>1. Convert_64(x, i) = Stop(x, "exit")
      BY <2>3, <1>11 DEF Convert_64
    <3> QED  BY <3>1, <1>6
  <2> QED  BY <2>1, <2>2, <2>3
<1>12. ASSUME i.op \notin {"cvts", "cvtd"} PROVE Straight(x, Convert_64(x, i))
  <2>1. Convert_64(x, i) = Stop(x, "exit")
    BY <1>12 DEF Convert_64
  <2> QED  BY <2>1, <1>6
<1> QED  BY <1>7, <1>8, <1>9, <1>10, <1>11, <1>12

LEMMA ArithmeticStraight ==
    ASSUME FpuTotal, NEW w \in {WW, DW}, NEW x \in States(w), NEW i, Ready(i), i.op \in FpOps,
           NEW n \in {WW, DW}, First(i.rd, n), First(i.rt, n), First(i.sa, n)
    PROVE  Straight(x, execFP(x, i, n))
<1> DEFINE fs == FReg(x, i.rd, n)
           ft == FReg(x, i.rt, n)
           one == Fpu("one", n, 0, 0)
           root == Fpu("sqrt", n, fs, 0)
<1>1. fs \in Int /\ ft \in Int
  BY FRegInt
<1> HIDE DEF fs, ft
<1>2. one \in Int /\ root \in Int /\ Fpu("max", n, 0, 0) \in Int /\ Fpu("abs", n, fs, 0) \in Int /\ Fpu("neg", n, fs, 0) \in Int
  BY <1>1, FpuUnary
<1> HIDE DEF one, root
<1>3. \A op \in {"add", "sub", "mul", "div"}, a \in {fs, one}, b \in {fs, ft, root} : Fpu(op, n, a, b) \in Int
  BY <1>1, <1>2 DEF FpuTotal, FpuOps
<1>4. \A v \in Int : Straight(x, Adv(SetF(x, i.sa, n, v)))
  BY SetFStraight
<1>5. CASE i.op = "fabs"
  <2>1. execFP(x, i, n) = Adv(SetF(x, i.sa, n, Fpu("abs", n, fs, 0)))
    BY <1>5 DEF execFP, fs
  <2> QED  BY <2>1, <1>2, <1>4
<1>6. CASE i.op = "fneg"
  <2>1. execFP(x, i, n) = Adv(SetF(x, i.sa, n, Fpu("neg", n, fs, 0)))
    BY <1>6 DEF execFP, fs
  <2> QED  BY <2>1, <1>2, <1>4
<1>7. CASE i.op = "fmov"
  <2>1. execFP(x, i, n) = Adv(SetF(x, i.sa, n, fs))
    BY <1>7 DEF execFP, fs
  <2> QED  BY <2>1, <1>1, <1>4
<1>8. CASE i.op = "fadd"
  <2>1. execFP(x, i, n) = Adv(SetF(x, i.sa, n, Fpu("add", n, fs, ft)))
    BY <1>8 DEF execFP, fs, ft
  <2> QED  BY <2>1, <1>3, <1>4
<1>9. CASE i.op = "fsub"
  <2>1. execFP(x, i, n) = Adv(SetF(x, i.sa, n, Fpu("sub", n, fs, ft)))
    BY <1>9 DEF execFP, fs, ft
  <2> QED  BY <2>1, <1>3, <1>4
<1>10. CASE i.op = "fmul"
  <2>1. execFP(x, i, n) = Adv(SetF(x, i.sa, n, Fpu("mul", n, fs, ft)))
    BY <1>10 DEF execFP, fs, ft
  <2> QED  BY <2>1, <1>3, <1>4
<1>11. CASE i.op = "fsqrt"
  <2>1. execFP(x, i, n) = Adv(SetF(x, i.sa, n, root))
    BY <1>11 DEF execFP, fs, root
  <2> QED  BY <2>1, <1>2, <1>4
<1>12. CASE i.op = "fdiv"
  <2>1. \/ execFP(x, i, n) = Adv(SetF(x, i.sa, n, Fpu("max", n, 0, 0)))
        \/ execFP(x, i, n) = Adv(SetF(x, i.sa, n, Fpu("div", n, fs, ft)))
    BY <1>12 DEF execFP, fs, ft
  <2> QED  BY <2>1, <1>2, <1>3, <1>4
<1>13. CASE i.op = "rsqrt"
  <2>1. execFP(x, i, n) = Adv(SetF(x, i.sa, n, Fpu("div", n, one, root)))
    BY <1>13 DEF execFP, fs, one, root
  <2> QED  BY <2>1, <1>3, <1>4
<1>14. CASE i.op = "recip"
  <2>1. execFP(x, i, n) = Adv(SetF(x, i.sa, n, Fpu("div", n, one, fs)))
    BY <1>14 DEF execFP, fs, one
  <2> QED  BY <2>1, <1>3, <1>4
<1> QED  BY <1>5, <1>6, <1>7, <1>8, <1>9, <1>10, <1>11, <1>12, <1>13, <1>14 DEF FpOps

LEMMA Coproc1Straight ==
    ASSUME FpuTotal, NEW x \in States(WW), NEW i, Ready(i)
    PROVE  Straight(x, execCoproc1(x, i))
<1>1. Straight(x, _mfc1(x, i)) /\ Straight(x, _mtc1(x, i))
  BY Reads, Fields, GprStraight, SetCpr, ThenAdv DEF _mfc1, _mtc1
<1>2. i.op \in FpOps => Straight(x, do_fp_op(x, i))
  <2>1. SUFFICES ASSUME i.op \in FpOps PROVE Straight(x, do_fp_op(x, i))
    OBVIOUS
  <2>2. CASE i.fmt = "D"
    BY <2>1, <2>2, Operands, ArithmeticStraight DEF do_fp_op
  <2>3. CASE i.fmt # "D" /\ Odd(i.sa)
    BY <2>3, StopStraight DEF do_fp_op
  <2>4. CASE i.fmt # "D" /\ ~Odd(i.sa)
    <3> DEFINE y == execFP(x, i, WW)
    <3>1. Straight(x, y) /\ x.w = WW
      BY <2>1, Operands, ArithmeticStraight, Reads
    <3>2. do_fp_op(x, i) = [y EXCEPT !.cpr1[i.sa + 1] = 0]
      BY <2>4 DEF do_fp_op
    <3> HIDE DEF y
    <3>3. y \in States(WW) /\ i.sa + 1 \in Registers /\ 0 \in Unsigned(WW)
      BY <3>1, <2>4, Fields, Unsigneds DEF Straight, Registers, Odd
    <3>4. SameControl(y, [y EXCEPT !.cpr1[i.sa + 1] = 0]) /\ y.w = WW
      BY <3>3, SetCpr, Reads
    <3> QED  BY <3>1, <3>2, <3>4 DEF Straight, SameControl
  <2> QED  BY <2>2, <2>3, <2>4
<1>3. Straight(x, _c(x, i)) /\ Straight(x, _truncw(x, i)) /\ Straight(x, _cvts(x, i))
      /\ (i.op = "cvtd" => Straight(x, _cvtd(x, i)))
  BY CompareStraight, ConvertStraight
<1>4. Straight(x, _fmovc(x, i)) /\ Straight(x, _fmovz(x, i)) /\ Straight(x, _fmovn(x, i))
  BY MovesStraight
<1>5. Straight(x, Stop(x, "exit"))
  BY StopStraight
<1> QED  BY <1>1, <1>2, <1>3, <1>4, <1>5 DEF execCoproc1, FpOps

LEMMA Coproc0Straight ==
    ASSUME NEW x \in States(WW), NEW i, Ready(i)
    PROVE  Straight(x, Coproc0(x, i))
<1>1. SR \in Registers /\ i.rt \in Registers /\ i.rd \in Registers /\ x.cpr0[SR] \in Unsigned(WW) /\ x.w = WW
  BY Reads, Fields DEF SR, Registers
<1>2. setBit(x.cpr0[SR], 0, 0) \in Unsigned(WW) /\ setBit(x.cpr0[SR], 1, 0) \in Unsigned(WW)
  BY <1>1, SetBitRange
<1>3. ASSUME NEW v \in Unsigned(WW)
      PROVE  Straight(x, Adv(IF i.rt # 0 THEN [[x EXCEPT !.cpr0[SR] = v] EXCEPT !.gpr[i.rt] = x.cpr0[SR]]
                                         ELSE [x EXCEPT !.cpr0[SR] = v]))
  <2> DEFINE y == [x EXCEPT !.cpr0[SR] = v]
             z == [y EXCEPT !.gpr[i.rt] = x.cpr0[SR]]
  <2>1. SameControl(x, y)
    BY <1>1, SetCpr
  <2>2. y \in States(WW)
    BY <1>1, <2>1 DEF SameControl
  <2> HIDE DEF y
  <2>3. SameControl(y, z) /\ y.w = WW
    BY <1>1, <2>2, SetGpr, Reads
  <2> HIDE DEF z
  <2>4. SameControl(x, z)
    BY <1>1, <2>1, <2>3 DEF SameControl
  <2>5. Straight(x, Adv(IF i.rt # 0 THEN z ELSE y))
    BY <2>1, <2>4, ThenAdv
  <2> QED  BY <2>5 DEF y, z
<1>4. CASE i.op = "wait"
  BY <1>4, StopStraight, AdvStraight DEF Coproc0
<1>5. CASE i.op = "di"
  <2> DEFINE v == setBit(x.cpr0[SR], 0, 0)
  <2>1. Coproc0(x, i) = Adv(IF i.rt # 0 THEN [[x EXCEPT !.cpr0[SR] = v] EXCEPT !.gpr[i.rt] = x.cpr0[SR]]
                                         ELSE [x EXCEPT !.cpr0[SR] = v])
    BY <1>5 DEF Coproc0
  <2> HIDE DEF v
  <2> QED  BY <2>1, <1>2, <1>3 DEF v
<1>6. CASE i.op = "ei"
  <2> DEFINE v == setBit(x.cpr0[SR], 1, 0)
  <2>1. Coproc0(x, i) = Adv(IF i.rt # 0 THEN [[x EXCEPT !.cpr0[SR] = v] EXCEPT !.gpr[i.rt] = x.cpr0[SR]]
                                         ELSE [x EXCEPT !.cpr0[SR] = v])
    BY <1>6 DEF Coproc0
  <2> HIDE DEF v
  <2> QED  BY <2>1, <1>2, <1>3 DEF v
<1>7. CASE i.op = "mfc0"
  <2>1. Coproc0(x, i) = Gpr(x, i.rt, x.cpr0[i.rd])
    BY <1>7 DEF Coproc0
  <2> QED  BY <2>1, <1>1, Reads, GprStraight
<1>8. CASE i.op = "mtc0"
  <2>1. Coproc0(x, i) = Adv([x EXCEPT !.cpr0[i.rd] = x.gpr[i.rt]])
    BY <1>8 DEF Coproc0
  <2> QED  BY <2>1, <1>1, Reads, SetCpr, ThenAdv
<1>9. CASE i.op \notin {"wait", "di", "ei", "mfc0", "mtc0"}
  <2>1. Coproc0(x, i) = Stop(x, "exit")
    BY <1>9 DEF Coproc0
  <2> QED  BY <2>1, StopStraight
<1> QED  BY <1>4, <1>5, <1>6, <1>7, <1>8, <1>9

-----------------------------------------------------------------------------
(* Integer arithmetic.                                                     *)

LEMMA QuotRem ==
    ASSUME NEW a \in Int, NEW b \in Int, b # 0
    PROVE  /\ Quot(a, b) \in Int /\ Rem(a, b) \in Int
           /\ a = Quot(a, b) * b + Rem(a, b)
           /\ Abs(Rem(a, b)) < Abs(b) /\ (a >= 0 => Rem(a, b) >= 0) /\ (a < 0 => Rem(a, b) <= 0)
<1> DEFINE n == Abs(a)
           d == Abs(b)
           q == n \div d
           r == n % d
<1>1. n \in Int /\ d \in Int /\ d > 0 /\ n >= 0 /\ (a >= 0 => n = a) /\ (a < 0 => n = -a)
      /\ (b >= 0 => d = b) /\ (b < 0 => d = -b)
  BY DEF Abs
<1> HIDE DEF n, d
<1>2. q \in Int /\ r \in Int /\ n = q * d + r /\ 0 <= r /\ r < d
  BY <1>1, DivMod
<1> HIDE DEF q, r
<1>3. Quot(a, b) = IF (a < 0) = (b < 0) THEN q ELSE -q
  BY DEF Quot, q, n, d
<1>4. Rem(a, b) = a - b * Quot(a, b)
  BY DEF Rem
<1>5. CASE a >= 0
  <2>1. b * Quot(a, b) = q * d
    BY <1>1, <1>2, <1>3, <1>5
  <2>2. Rem(a, b) = r /\ Quot(a, b) \in Int
    BY <2>1, <1>1, <1>2, <1>3, <1>4, <1>5
  <2>3. b * Quot(a, b) = Quot(a, b) * b
    BY <2>2
  <2> QED  BY <2>1, <2>2, <2>3, <1>1, <1>2, <1>5 DEF Abs, d
<1>6. CASE a < 0
  <2>1. b * Quot(a, b) = -(q * d)
    BY <1>1, <1>2, <1>3, <1>6
  <2>2. Rem(a, b) = -r /\ Quot(a, b) \in Int
    BY <2>1, <1>1, <1>2, <1>3, <1>4, <1>6
  <2>3. b * Quot(a, b) = Quot(a, b) * b
    BY <2>2
  <2> QED  BY <2>1, <2>2, <2>3, <1>1, <1>2, <1>6 DEF Abs, d
<1> QED  BY <1>5, <1>6

LEMMA ShiftAmount ==
    ASSUME NEW w \in {WW, DW}, NEW x \in States(w), NEW i, Ready(i), i.op \in ShiftOps, NEW a \in {i.sa, x.gpr[i.rs] % WW}
    PROVE  a \in 0 .. WW /\ 2^a \in Nat /\ 2^a >= 1
<1>1. i.sa \in 0 .. WW
  BY Fields, Widths, SMTT(40) DEF Ready
<1>2. x.gpr[i.rs] % WW \in 0 .. WW
  <2>1. x.gpr[i.rs] \in Int /\ WW \in Int /\ WW > 0
    BY Reads, Fields, Widths
  <2> QED  BY <2>1, DivMod
<1>3. a \in 0 .. WW /\ a \in 0 .. (DW + 1)
  BY <1>1, <1>2, Widths
<1> QED  BY <1>3, PowPos

LEMMA ShiftsStraight ==
    ASSUME NEW x \in States(WW), NEW i, Ready(i), i.op \in ShiftOps, i.op # "monitor"
    PROVE  Straight(x, Shifts(x, i))
<1> DEFINE rt == x.gpr[i.rt]
           a == IF i.op \in {"sllv", "srlv", "srav"} THEN x.gpr[i.rs] % WW ELSE i.sa
<1>1. rt \in Int /\ i.rd \in Registers /\ S(rt, WW) \in Int
  BY Reads, Fields, SInts
<1>2. 2^a \in Nat /\ 2^a >= 1
  BY ShiftAmount
<1> HIDE DEF a
<1>3. rt * 2^a \in Int /\ rt \div 2^a \in Int /\ S(rt, WW) \div 2^a \in Int
  BY <1>1, <1>2, DivMod
<1>4. \A v \in Int : Straight(x, Gpr(x, i.rd, v))
  BY <1>1, GprStraight
<1>5. CASE i.op \in {"sll", "sllv"}
  <2>1. Shifts(x, i) = Gpr(x, i.rd, rt * 2^a)
    BY <1>5 DEF Shifts, a
  <2> QED  BY <2>1, <1>3, <1>4
<1>6. CASE i.op \in {"srl", "srlv"}
  <2>1. Shifts(x, i) = Gpr(x, i.rd, rt \div 2^a)
    BY <1>6 DEF Shifts, a
  <2> QED  BY <2>1, <1>3, <1>4
<1>7. CASE i.op \in {"sra", "srav"}
  <2>1. Shifts(x, i) = Gpr(x, i.rd, S(rt, WW) \div 2^a)
    BY <1>7 DEF Shifts, a
  <2> QED  BY <2>1, <1>3, <1>4
<1>8. CASE i.op = "movci"
  BY <1>8, MovesStraight DEF Shifts
<1> QED  BY <1>5, <1>6, <1>7, <1>8 DEF ShiftOps

LEMMA MulDivStraight ==
    ASSUME NEW x \in States(WW), NEW i, Ready(i), i.op \in MulDivOps
    PROVE  Straight(x, MulDiv(x, i))
<1> DEFINE rs == x.gpr[i.rs]
           rt == x.gpr[i.rt]
           p == S(rs, WW) * S(rt, WW)
<1>1. rs \in Int /\ rt \in Int /\ rs >= 0 /\ rt \in Unsigned(WW) /\ rt >= 0 /\ i.rd \in Registers /\ x.hi \in Int /\ x.lo \in Int
  BY Reads, Fields DEF Unsigned
<1>2. S(rs, WW) \in Int /\ S(rt, WW) \in Int
  BY <1>1, SInts
<1>3. p \in Int /\ rs * rt \in Int
  BY <1>1, <1>2
<1>4. CASE i.op \in {"mfhi", "mflo"}
  <2>1. MulDiv(x, i) \in {Gpr(x, i.rd, x.hi), Gpr(x, i.rd, x.lo)}
    BY <1>4 DEF MulDiv
  <2> QED  BY <2>1, <1>1, GprStraight
<1>5. CASE i.op \in {"mthi", "mtlo"}
  <2>1. MulDiv(x, i) \in {HiLo(x, rs, x.lo), HiLo(x, x.hi, rs)}
    BY <1>5 DEF MulDiv
  <2> QED  BY <2>1, <1>1, HiLoStraight
<1>6. CASE i.op = "mult"
  <2>1. MulDiv(x, i) = HiLo(x, U(p, DW) \div 2^WW, p)
    BY <1>6 DEF MulDiv
  <2> QED  BY <2>1, <1>3, SplitStraight
<1>7. CASE i.op = "multu"
  <2>1. MulDiv(x, i) = HiLo(x, U(rs * rt, DW) \div 2^WW, rs * rt)
    BY <1>7 DEF MulDiv
  <2> QED  BY <2>1, <1>3, SplitStraight
<1>8. CASE i.op = "divu"
  <2>1. MulDiv(x, i) = IF rt = 0 THEN Adv(x) ELSE HiLo(x, rs % rt, rs \div rt)
    BY <1>8 DEF MulDiv
  <2>2. rt # 0 => rs % rt \in Int /\ rs \div rt \in Int
    BY <1>1, DivMod
  <2> QED  BY <2>1, <2>2, AdvStraight, HiLoStraight
<1>9. CASE i.op = "div"
  <2> DEFINE r == Rem(S(rs, WW), S(rt, WW))
             q == Quot(S(rs, WW), S(rt, WW))
  <2>1. MulDiv(x, i) = IF rt = 0 THEN Adv(x)
                       ELSE IF rs = 2^(WW - 1) /\ rt = 2^WW - 1 /\ i.u = 1 THEN Stop(x, "signal") ELSE HiLo(x, r, q)
    BY <1>9 DEF MulDiv
  <2>2. rt # 0 => S(rt, WW) # 0
    <3>1. U(rt, WW) = rt /\ rt < 2^WW /\ 2^WW \in Nat
      BY <1>1, USmall
    <3> QED  BY <3>1, <1>1 DEF S
  <2>3. rt # 0 => r \in Int /\ q \in Int
    BY <2>2, <1>2, QuotRem
  <2> HIDE DEF r, q
  <2> QED  BY <2>1, <2>3, AdvStraight, StopStraight, HiLoStraight
<1> QED  BY <1>4, <1>5, <1>6, <1>7, <1>8, <1>9 DEF MulDivOps

LEMMA ArithStraight ==
    ASSUME NEW x \in States(WW), NEW i, Ready(i)
    PROVE  Straight(x, Arith(x, i))
<1> DEFINE rs == x.gpr[i.rs]
           rt == x.gpr[i.rt]
           old == x.gpr[i.rd]
<1>1. rs \in Int /\ rt \in Int /\ old \in Int /\ i.rd \in Registers
  BY Reads, Fields
<1>2. \A v \in Int : Straight(x, Gpr(x, i.rd, v))
  BY <1>1, GprStraight
<1>3. (rs & rt) \in Int /\ (rs | rt) \in Int /\ (rs ^^ rt) \in Int
  BY <1>1, BitwiseInt
<1>4. Inv(rs | rt, WW) \in Int
  BY <1>3, InvInt
<1>5. \A b \in BOOLEAN : Bool(b) \in Int
  BY DEF Bool
<1>6. Straight(x, Adv(x)) /\ Straight(x, Stop(x, "exit"))
  BY AdvStraight, StopStraight
<1>7. CASE i.op \in {"add", "addu", "subu"}
  <2>1. Arith(x, i) \in {Gpr(x, i.rd, rs + rt), Gpr(x, i.rd, rs - rt)}
    BY <1>7 DEF Arith
  <2>2. rs + rt \in Int /\ rs - rt \in Int
    BY <1>1
  <2> QED  BY <2>1, <2>2, <1>2
<1>8. CASE i.op \in {"and", "or", "xor", "nor"}
  <2>1. Arith(x, i) \in {Gpr(x, i.rd, rs & rt), Adv(x), Gpr(x, i.rd, rs | rt), Gpr(x, i.rd, rs ^^ rt), Gpr(x, i.rd, Inv(rs | rt, WW))}
    BY <1>8 DEF Arith
  <2> QED  BY <2>1, <1>2, <1>3, <1>4, <1>6
<1>9. CASE i.op \in {"slt", "sltu"}
  <2>1. Arith(x, i) \in {Gpr(x, i.rd, 0), Gpr(x, i.rd, 1)}
    BY <1>9 DEF Arith, Bool
  <2> QED  BY <2>1, <1>2
<1>10. CASE i.op \in {"movn", "movz"}
  <2>1. Arith(x, i) \in {Gpr(x, i.rd, rs), Gpr(x, i.rd, old)}
    BY <1>10 DEF Arith
  <2> QED  BY <2>1, <1>1, <1>2
<1>11. CASE i.op \notin {"add", "addu", "subu", "and", "or", "xor", "nor", "slt", "sltu", "movn", "movz"}
  <2>1. Arith(x, i) \in {Stop(x, "exit"), Adv(x)}
    BY <1>11 DEF Arith
  <2> QED  BY <2>1, <1>6
<1> QED  BY <1>7, <1>8, <1>9, <1>10, <1>11

LEMMA ImmediateStraight ==
    ASSUME NEW x \in States(WW), NEW i, Ready(i), i.op \in ImmediateOps
    PROVE  Straight(x, Immediate(x, i))
<1> DEFINE rs == x.gpr[i.rs]
           simm == S(i.imm, HW)
<1>1. rs \in Int /\ simm \in Int /\ i.imm \in Int /\ i.rt \in Registers /\ 2^HW \in Int
  BY Reads, Fields, Powers
<1>2. \A v \in Int : Straight(x, Gpr(x, i.rt, v))
  BY <1>1, GprStraight
<1>3. (rs & i.imm) \in Int /\ (rs | i.imm) \in Int /\ (rs ^^ i.imm) \in Int
  BY <1>1, BitwiseInt
<1>4. CASE i.op \in {"addi", "addiu"}
  <2>1. Immediate(x, i) = Gpr(x, i.rt, rs + simm) /\ rs + simm \in Int
    BY <1>1, <1>4 DEF Immediate
  <2> QED  BY <2>1, <1>2
<1>5. CASE i.op \in {"slti", "sltiu"}
  <2>1. Immediate(x, i) \in {Gpr(x, i.rt, 0), Gpr(x, i.rt, 1)}
    BY <1>5 DEF Immediate, Bool
  <2> QED  BY <2>1, <1>2
<1>6. CASE i.op \in {"andi", "ori", "xori"}
  <2>1. Immediate(x, i) \in {Gpr(x, i.rt, rs & i.imm), Gpr(x, i.rt, rs | i.imm), Gpr(x, i.rt, rs ^^ i.imm)}
    BY <1>6 DEF Immediate
  <2> QED  BY <2>1, <1>2, <1>3
<1>7. CASE i.op = "lui"
  <2>1. Immediate(x, i) = Gpr(x, i.rt, i.imm * 2^HW)
    BY <1>7 DEF Immediate
  <2>2. i.imm * 2^HW \in Int
    BY <1>1
  <2> QED  BY <2>1, <2>2, <1>2
<1> QED  BY <1>4, <1>5, <1>6, <1>7 DEF ImmediateOps

LEMMA LoadStoreStraight ==
    ASSUME NEW x \in States(WW), NEW i, Ready(i)
    PROVE  Straight(x, LoadStore(x, i))
<1>1. Straight(x, Adv(x)) /\ Straight(x, Stop(x, "exit"))
  BY AdvStraight, StopStraight
<1>2. /\ Straight(x, _lw(x, i)) /\ Straight(x, _lh(x, i)) /\ Straight(x, _lb(x, i))
      /\ Straight(x, _lbu(x, i)) /\ Straight(x, _lhu(x, i))
  BY PlainLoads
<1>3. /\ Straight(x, _sw(x, i)) /\ Straight(x, _sc(x, i)) /\ Straight(x, _sh(x, i)) /\ Straight(x, _sb(x, i))
  BY PlainStores
<1>4. /\ Straight(x, _swl(x, i)) /\ Straight(x, _swr(x, i)) /\ Straight(x, _lwl(x, i)) /\ Straight(x, _lwr(x, i))
  BY UnalignedStraight
<1>5. /\ i.op = "ldc1" => Straight(x, _ldc1(x, i))
      /\ i.op = "sdc1" => Straight(x, _sdc1(x, i))
      /\ Straight(x, _lwc1(x, i)) /\ Straight(x, _swc1(x, i))
  BY Coproc1Memory
<1> QED  BY <1>1, <1>2, <1>3, <1>4, <1>5 DEF LoadStore

-----------------------------------------------------------------------------
(* The monitor.                                                            *)

LEMMA ArgvIs ==
    /\ sysArgv \in Seq(Seq(Unsigned(ByteBits))) /\ sysArgc \in Nat /\ sysArgc = Len(sysArgv)
    /\ sysArgc \in Unsigned(WW)
    /\ \E n \in Nat : n = Min({MARGS, sysArgc}) /\ n <= sysArgc
<1>1. MARGS \in Nat /\ Len(ArgWords) \in Nat /\ MARGS + 1 < 2^WW /\ 2^WW \in Nat
  BY IssAssumption, Powers
<1>2. \A a, b \in Nat : Min({a, b}) \in Nat /\ Min({a, b}) <= a /\ Min({a, b}) <= b
  <2> SUFFICES ASSUME NEW a \in Nat, NEW b \in Nat
               PROVE  Min({a, b}) \in Nat /\ Min({a, b}) <= a /\ Min({a, b}) <= b
    OBVIOUS
  <2>1. \E m \in {a, b} : \A y \in {a, b} : m <= y
    OBVIOUS
  <2> QED  BY <2>1 DEF Min
<1> DEFINE m == Min({MARGS, Len(ArgWords)})
           tail == SubSeq(ArgWords, 1, m)
<1>3. m \in Nat /\ m <= MARGS /\ m <= Len(ArgWords)
  BY <1>1, <1>2
<1> HIDE DEF m
<1>4. tail \in Seq(Seq(Unsigned(ByteBits))) /\ Len(tail) = m
  BY <1>3, IssAssumption
<1>5. <<HostBytes>> \in Seq(Seq(Unsigned(ByteBits))) /\ Len(<<HostBytes>>) = 1
  BY IssAssumption
<1>6. sysArgv = <<HostBytes>> \o tail
  BY DEF sysArgv, m
<1> HIDE DEF tail
<1>7. sysArgv \in Seq(Seq(Unsigned(ByteBits))) /\ Len(sysArgv) = 1 + m
  BY <1>3, <1>4, <1>5, <1>6
<1>8. sysArgc \in Nat /\ sysArgc \in Unsigned(WW)
  BY <1>1, <1>3, <1>7 DEF sysArgc, Unsigned
<1> QED  BY <1>1, <1>2, <1>7, <1>8 DEF sysArgc

\* The memory after k arguments have been copied, by recursion on k.
CopyArg(x, m, k) == PutBytes(m, Load(m, U(x.gpr[R_a0] + 4 * (k - 1), WW), 4), Append(sysArgv[k], 0))
Copies(f, x, n) == f = [k \in 0 .. n |-> IF k = 0 THEN x.mem ELSE CopyArg(x, f[k - 1], k)]

LEMMA CopiesExist ==
    ASSUME NEW x, NEW n \in Nat
    PROVE  \E f : Copies(f, x, n)
<1> DEFINE T == {m \in 0 .. n : ~(\E f : Copies(f, x, m))}
<1>1. ASSUME T # {} PROVE FALSE
  <2>0. T \subseteq Nat
    OBVIOUS
  <2>1. PICK m \in T : \A j \in T : m <= j
    <3> HIDE DEF T
    <3> QED  BY <1>1, <2>0, LeastNatural
  <2>2. ASSUME m = 0 PROVE FALSE
    <3> DEFINE g == [k \in 0 .. m |-> x.mem]
    <3>1. g = [k \in 0 .. m |-> IF k = 0 THEN x.mem ELSE CopyArg(x, g[k - 1], k)]
      BY <2>2
    <3> QED  BY <3>1, <2>1 DEF Copies
  <2>3. m - 1 \in 0 .. n /\ m - 1 \notin T
    BY <2>1, <2>2
  <2>4. PICK f : Copies(f, x, m - 1)
    BY <2>3
  <2> DEFINE g == [k \in 0 .. m |-> IF k = m THEN CopyArg(x, f[m - 1], m) ELSE f[k]]
  <2>5. ASSUME NEW k \in 0 .. m
        PROVE  g[k] = IF k = 0 THEN x.mem ELSE CopyArg(x, g[k - 1], k)
    <3>1. CASE k = m
      <4>1. k # 0 /\ k - 1 \in 0 .. m /\ k - 1 # m
        BY <3>1, <2>1, <2>2
      <4> QED  BY <4>1, <3>1
    <3>2. CASE k # m
      <4>1. k \in 0 .. (m - 1)
        BY <3>2, <2>1
      <4>2. f[k] = IF k = 0 THEN x.mem ELSE CopyArg(x, f[k - 1], k)
        BY <4>1, <2>4 DEF Copies
      <4>3. k # 0 => k - 1 \in 0 .. m /\ k - 1 # m
        BY <4>1, <2>1
      <4> QED  BY <4>2, <4>3, <3>2
    <3> QED  BY <3>1, <3>2
  <2>6. g = [k \in 0 .. m |-> IF k = 0 THEN x.mem ELSE CopyArg(x, g[k - 1], k)]
    <3> DEFINE h == [k \in 0 .. m |-> IF k = 0 THEN x.mem ELSE CopyArg(x, g[k - 1], k)]
    <3>1. \A k \in 0 .. m : g[k] = h[k]
      BY <2>5
    <3> QED  BY <3>1, Zenon
  <2> QED  BY <2>6, <2>1 DEF Copies
<1>2. n \in 0 .. n
  OBVIOUS
<1> QED  BY <1>1, <1>2

LEMMA CopiesRange ==
    ASSUME NEW x, x.mem \in Memories, x.gpr[R_a0] \in Int, NEW n \in Nat, n <= sysArgc, NEW f, Copies(f, x, n)
    PROVE  f[n] \in Memories
<1> DEFINE T == {k \in 0 .. n : f[k] \notin Memories}
<1>1. ASSUME T # {} PROVE FALSE
  <2>0. T \subseteq Nat
    OBVIOUS
  <2>1. PICK k \in T : \A j \in T : k <= j
    <3> HIDE DEF T
    <3> QED  BY <1>1, <2>0, LeastNatural
  <2>2. f[k] = IF k = 0 THEN x.mem ELSE CopyArg(x, f[k - 1], k)
    BY <2>1 DEF Copies
  <2>3. k # 0
    BY <2>1, <2>2
  <2>4. k - 1 \in 0 .. n /\ k - 1 \notin T /\ k \in 1 .. sysArgc /\ k - 1 \in Int
    BY <2>1, <2>3, ArgvIs
  <2>5. f[k - 1] \in Memories
    BY <2>4
  <2> DEFINE m == f[k - 1]
             a == U(x.gpr[R_a0] + 4 * (k - 1), WW)
             bytes == Append(sysArgv[k], 0)
  <2>6. a \in Int
    <3>1. x.gpr[R_a0] + 4 * (k - 1) \in Int
      BY <2>4
    <3> QED  BY <3>1, URanges
  <2>7. sysArgv[k] \in Seq(Unsigned(ByteBits)) /\ bytes \in Seq(Unsigned(ByteBits))
    BY <2>4, ArgvIs, Unsigneds
  <2>8. CopyArg(x, m, k) = PutBytes(m, Load(m, a, 4), bytes)
    BY DEF CopyArg
  <2> HIDE DEF m, a, bytes
  <2>9. Load(m, a, 4) \in Nat
    <3>1. \A j \in 0 .. 8 : Load(m, a, j) \in Nat
      BY <2>5, <2>6, LoadRange DEF m
    <3> QED  BY <3>1
  <2>10. CopyArg(x, m, k) \in Memories
    BY <2>5, <2>7, <2>8, <2>9, PutRange DEF m
  <2> QED  BY <2>1, <2>2, <2>3, <2>10 DEF m
<1>2. n \in 0 .. n
  OBVIOUS
<1> QED  BY <1>1, <1>2

LEMMA GetargsIs ==
    ASSUME NEW x, x.mem \in Memories, x.gpr[R_a0] \in Int
    PROVE  \E m \in Memories : getargs(x) = [x EXCEPT !.mem = m, !.gpr[R_v0] = sysArgc]
<1> DEFINE n == Min({MARGS, sysArgc})
           u == CHOOSE f : f = [k \in 0 .. n |-> IF k = 0 THEN x.mem ELSE CopyArg(x, f[k - 1], k)]
<1>1. n \in Nat /\ n <= sysArgc
  BY ArgvIs
<1>2. Copies(u, x, n)
  <2> HIDE DEF n
  <2> QED  BY <1>1, CopiesExist, Zenon DEF Copies
<1>3. getargs(x) = [x EXCEPT !.mem = u[n], !.gpr[R_v0] = sysArgc]
  BY Zenon DEF getargs, CopyArg
<1>4. u[n] \in Memories
  <2> HIDE DEF n, u
  <2> QED  BY <1>1, <1>2, CopiesRange
<1> QED  BY <1>3, <1>4

\* What a system call does to the control state before it returns: only $2 and
\* memory change.
Called(x, y) == SameControl(x, y) /\ y.gpr[R_ra] = x.gpr[R_ra]

Answer(x, v, m) == [x EXCEPT !.gpr[R_v0] = v, !.mem = m]

LEMMA CallIs ==
    ASSUME NEW w \in {WW, DW}, NEW x \in States(w), NEW v \in Unsigned(w), NEW m \in Memories
    PROVE  /\ Called(x, [x EXCEPT !.gpr[R_v0] = v]) /\ Called(x, Answer(x, v, m))
           /\ Called(x, [x EXCEPT !.mem = m])
<1>1. R_v0 \in Registers /\ R_ra \in Registers /\ R_ra # R_v0
  BY DEF R_v0, R_ra, Registers
<1>2. /\ Answer(x, v, m) \in States(w)
      /\ [x EXCEPT !.gpr[R_v0] = v] \in States(w) /\ [x EXCEPT !.mem = m] \in States(w)
  BY <1>1 DEF States, Answer
<1>3. x.w = w /\ x = [x EXCEPT !.brk = x.brk]
  BY DEF States
<1> QED  BY <1>1, <1>2, <1>3 DEF Called, SameControl, States, Answer

\* A system call and the return to $31, or a process that stops.
Returned(x, y) ==
    /\ y \in States(x.w) /\ y.frames = x.frames /\ y.icnt = x.icnt /\ y.gpr[R_ra] = x.gpr[R_ra]
    /\ \/ y.st = "run" /\ y.pc = x.gpr[R_ra]
       \/ y.st = "exit" /\ y.pc = x.pc

LEMMA ReturnFrom ==
    ASSUME NEW w \in {WW, DW}, NEW x \in States(w), x.st = "run", NEW y, Called(x, y)
    PROVE  Returned(x, Back(y))
<1>1. y \in States(w) /\ y.st = "run" /\ x.w = w /\ R_ra \in Registers
  BY DEF Called, SameControl, States, R_ra, Registers
<1>2. y.gpr[R_ra] \in Unsigned(w) /\ y.gpr[R_ra] = x.gpr[R_ra]
  BY <1>1, Reads DEF Called
<1> DEFINE z == [y EXCEPT !.pc = y.gpr[R_ra]]
<1>3. z \in States(w) /\ z.frames = y.frames /\ z.icnt = y.icnt /\ z.gpr = y.gpr /\ z.st = y.st /\ z.pc = y.gpr[R_ra]
  BY <1>1, <1>2 DEF States
<1> HIDE DEF z
<1>4. Returned(x, z)
  BY <1>1, <1>2, <1>3 DEF Returned, Called, SameControl
<1> QED  BY <1>1, <1>4 DEF Back, z

LEMMA StopReturned ==
    ASSUME NEW w \in {WW, DW}, NEW x \in States(w)
    PROVE  Returned(x, Back(Stop(x, "exit")))
<1>1. Stop(x, "exit") \in States(w) /\ Stop(x, "exit").st = "exit" /\ Stop(x, "exit").frames = x.frames
      /\ Stop(x, "exit").icnt = x.icnt /\ Stop(x, "exit").gpr = x.gpr /\ Stop(x, "exit").pc = x.pc /\ x.w = w
  BY DEF Stop, States
<1>2. Back(Stop(x, "exit")) = Stop(x, "exit")
  BY <1>1 DEF Back
<1> QED  BY <1>1, <1>2 DEF Returned

LEMMA MonitorReturns ==
    ASSUME NEW x \in States(WW), x.st = "run", NEW i, Ready(i)
    PROVE  Returned(x, _monitorBody(x, i))
<1> DEFINE a0 == x.gpr[R_a0]
           a1 == x.gpr[R_a1]
           V0(v) == [x EXCEPT !.gpr[R_v0] = U(v, WW)]
           reason == i.imm \div 2
<1>1. a0 \in Int /\ a0 \in Nat /\ a0 \in Unsigned(WW) /\ a1 \in Nat /\ i.h \in Int /\ x.mem \in Memories /\ x.w = WW
  BY Reads, Fields DEF R_a0, R_a1, Registers
<1>2. \A y : Called(x, y) => Returned(x, Back(y))
  BY ReturnFrom
<1>3. Returned(x, Back(Stop(x, "exit")))
  BY StopReturned
<1>0. _monitorBody(x, i) = Back(SystemCall(x, i))
  BY DEF _monitorBody
<1>4. \A v \in Int : Called(x, V0(v))
  <2> TAKE v \in Int
  <2>1. U(v, WW) \in Unsigned(WW)
    BY URanges
  <2> QED  BY <2>1, <1>1, CallIs
<1>5. \A m \in Memories, v \in Unsigned(WW) : Called(x, Answer(x, v, m))
  BY CallIs
<1>6. CASE reason \in {6, 8, 9, 38, 50}
  <2>1. SystemCall(x, i) = V0(i.h)
    BY <1>6 DEF SystemCall
  <2> HIDE DEF V0
  <2> QED  BY <2>1, <1>0, <1>1, <1>2, <1>4
<1>7. CASE reason = 7
  <2>1. SystemCall(x, i) = per_page_read(x, i.h)
    BY <1>7 DEF SystemCall
  <2> DEFINE bytes == SubSeq(HostBytes, 1, IF i.h < 0 THEN 0 ELSE i.h)
  <2>2. bytes \in Seq(Unsigned(ByteBits))
    BY IssAssumption, <1>1 DEF Ready
  <2>3. per_page_read(x, i.h) = Answer(x, U(i.h, WW), PutBytes(x.mem, a1, bytes))
    BY DEF per_page_read, Answer
  <2> HIDE DEF bytes
  <2>4. PutBytes(x.mem, a1, bytes) \in Memories /\ U(i.h, WW) \in Unsigned(WW)
    BY <2>2, <1>1, PutRange, URanges
  <2>9. Called(x, SystemCall(x, i))
    BY <2>1, <2>3, <2>4, <1>5
  <2> QED  BY <2>9, <1>0, <1>2
<1>8. CASE reason = 10
  <2>1. SystemCall(x, i) \in {V0(i.h), V0(0)}
    BY <1>8 DEF SystemCall
  <2> HIDE DEF V0
  <2> QED  BY <2>1, <1>0, <1>1, <1>2, <1>4
<1>9. ASSUME NEW addrs \in SUBSET Int PROVE Called(x, ZeroWords(x, addrs))
  <2>1. Zeroed(x.mem, addrs) \in Memories /\ 0 \in Unsigned(WW)
    BY <1>1, ZeroedRange, Unsigneds
  <2>2. ZeroWords(x, addrs) = Answer(x, 0, Zeroed(x.mem, addrs))
    BY DEF ZeroWords, Answer, States
  <2> QED  BY <2>1, <2>2, <1>5
<1>10. CASE reason = 33
  <2>1. SystemCall(x, i) = ZeroWords(x, {a0, a0 + 4}) /\ {a0, a0 + 4} \in SUBSET Int
    BY <1>1, <1>10 DEF SystemCall
  <2> QED  BY <2>1, <1>0, <1>2, <1>9
<1>11. CASE reason = 34
  <2>1. SystemCall(x, i) = ZeroWords(x, {a0 + k : k \in 0 .. 3})
    BY <1>11 DEF SystemCall
  <2>2. {a0 + k : k \in 0 .. 3} \in SUBSET Int
    BY <1>1
  <2> QED  BY <2>1, <1>0, <2>2, <1>2, <1>9
<1>12. CASE reason = 35
  <2>1. SystemCall(x, i) = getargs(x)
    BY <1>12 DEF SystemCall
  <2>0. PICK m \in Memories : getargs(x) = [x EXCEPT !.mem = m, !.gpr[R_v0] = sysArgc]
    BY <1>1, GetargsIs
  <2>2. getargs(x) = Answer(x, sysArgc, m)
    BY <2>0 DEF Answer, States
  <2>9. Called(x, SystemCall(x, i))
    BY <2>1, <2>2, <1>5, ArgvIs
  <2> QED  BY <2>9, <1>0, <1>2
<1>13. CASE reason = 37
  <2> DEFINE m == IF Len(HostBytes) < a1 THEN PutBytes(x.mem, a0, Append(HostBytes, 0)) ELSE x.mem
  <2>1. SystemCall(x, i) = Answer(x, a0, m)
    <3>1. SystemCall(x, i) = [x EXCEPT !.mem = m, !.gpr[R_v0] = a0]
      BY <1>13 DEF SystemCall
    <3> HIDE DEF m
    <3> QED  BY <3>1 DEF Answer, States
  <2>2. Append(HostBytes, 0) \in Seq(Unsigned(ByteBits))
    BY IssAssumption, Unsigneds
  <2>3. m \in Memories
    BY <2>2, <1>1, PutRange
  <2> HIDE DEF m
  <2> QED  BY <2>1, <1>0, <2>3, <1>1, <1>2, <1>5
<1>14. CASE reason = 55
  <2> DEFINE z == Zeroed(x.mem, {a0 + 4, a0 + 8})
             m == Store(z, a0, 4, 2^(WW - 1))
             y == [ZeroWords(x, {a0 + 4, a0 + 8}) EXCEPT !.mem = Store(@, a0, 4, 2^(WW - 1))]
  <2>1. SystemCall(x, i) = y
    BY <1>14 DEF SystemCall
  <2>2. {a0 + 4, a0 + 8} \in SUBSET Int /\ 2^(WW - 1) \in Int
    BY <1>1, PowPos, Widths
  <2>3. z \in Memories
    BY <2>2, <1>1, ZeroedRange
  <2>4. m \in Memories
    <3> HIDE DEF z
    <3> QED  BY <2>2, <2>3, <1>1, StoreRange
  <2>5. y = Answer(x, 0, m)
    BY DEF ZeroWords, States, Answer
  <2> HIDE DEF y, m
  <2>9. Called(x, SystemCall(x, i))
    BY <2>1, <2>4, <2>5, <1>5, Unsigneds
  <2> QED  BY <2>9, <1>0, <1>2
<1>15. CASE reason \notin {6, 7, 8, 9, 10, 33, 34, 35, 37, 38, 50, 55}
  <2>1. SystemCall(x, i) = Stop(x, "exit")
    BY <1>15 DEF SystemCall
  <2> QED  BY <2>1, <1>0, <1>3
<1> QED  BY <1>6, <1>7, <1>8, <1>10, <1>11, <1>12, <1>13, <1>14, <1>15

-----------------------------------------------------------------------------
(* Branches, jumps and the return from a delay slot.                       *)

LEMMA WordInDouble == \A x \in Unsigned(WW) : x \in Unsigned(DW) /\ x \in Int
<1>1. 2^WW \in Nat /\ 2^DW \in Nat /\ 2^WW <= 2^DW
  BY PowMono, Widths
<1> QED  BY <1>1 DEF Unsigned

\* A transfer enters its slot: one more frame, the next word.
Entered(x, y, taken, target, link) ==
    /\ y \in States(x.w) /\ y.st = x.st /\ y.icnt = x.icnt /\ y.pc = U(x.pc + 4, x.w)
    /\ y.frames = <<[taken |-> taken, target |-> target, link |-> link]>> \o x.frames

LEMMA SlotEnters ==
    ASSUME NEW w \in {WW, DW}, NEW x \in States(w), NEW y, SameControl(x, y),
           NEW taken \in BOOLEAN, NEW target \in Unsigned(WW), NEW link \in Unsigned(WW)
    PROVE  Entered(x, Slot(y, taken, target, link), taken, target, link)
<1>1. x.w = w /\ y \in States(w) /\ y.w = w
  BY DEF States, SameControl
<1> DEFINE a == Adv(y)
           f == [taken |-> taken, target |-> target, link |-> link]
<1>2. a \in States(w) /\ a.frames = x.frames /\ a.icnt = x.icnt /\ a.st = x.st /\ a.pc = U(x.pc + 4, w)
  <2>1. Straight(y, a)
    BY <1>1, AdvStraight
  <2>2. a.st = y.st /\ a.pc = U(y.pc + 4, w)
    <3>1. y \in States(w)
      BY <1>1
    <3> QED  BY <3>1, <1>1 DEF Adv, States
  <2> QED  BY <1>1, <2>1, <2>2 DEF Straight, SameControl
<1>3. f \in Frames
  BY DEF Frames
<1>4. Slot(y, taken, target, link) = [a EXCEPT !.frames = <<f>> \o a.frames]
  BY DEF Slot
<1> HIDE DEF a, f
<1>5. <<f>> \o a.frames \in Seq(Frames)
  <2>1. a.frames \in Seq(Frames)
    BY <1>2 DEF States
  <2> QED  BY <2>1, <1>3
<1> DEFINE fs == <<f>> \o a.frames
           z == [a EXCEPT !.frames = fs]
<1>6. fs \in Seq(Frames)
  BY <1>5
<1> HIDE DEF fs
<1>7. z \in States(w) /\ z.frames = fs /\ z.icnt = a.icnt /\ z.st = a.st /\ z.pc = a.pc
  BY <1>2, <1>6 DEF States
<1>8. Slot(y, taken, target, link) = z
  BY <1>4 DEF fs
<1> HIDE DEF z
<1> QED  BY <1>1, <1>2, <1>7, <1>8 DEF Entered, fs, f

\* A branch-likely that is not taken skips its slot.
Skipped(x, y) ==
    /\ y \in States(x.w) /\ y.st = x.st /\ y.icnt = x.icnt /\ y.frames = x.frames
    /\ y.pc = U(U(x.pc + 4, x.w) + 4, x.w)

LEMMA SkipIs ==
    ASSUME NEW w \in {WW, DW}, NEW x \in States(w)
    PROVE  Skipped(x, Adv(Adv(x)))
<1> DEFINE a == Adv(x)
<1>1. x.w = w /\ Straight(x, a)
  BY AdvStraight, Reads
<1>2. a.st = x.st /\ a.pc = U(x.pc + 4, w) /\ a.w = w
  BY <1>1 DEF Adv, States
<1>3. a \in States(w) /\ a.frames = x.frames /\ a.icnt = x.icnt
  BY <1>1 DEF Straight
<1> HIDE DEF a
<1>4. Straight(a, Adv(a))
  BY <1>3, AdvStraight
<1>5. Adv(a).st = a.st /\ Adv(a).pc = U(a.pc + 4, w)
  BY <1>2, <1>3 DEF Adv, States
<1>6. Skipped(x, Adv(a))
  BY <1>1, <1>2, <1>3, <1>4, <1>5 DEF Skipped, Straight
<1> QED  BY <1>6 DEF a

LEMMA TakenBoolean ==
    ASSUME NEW w \in {WW, DW}, NEW x \in States(w), NEW i, Ready(i), i.op \in BranchOps
    PROVE  takeBranch(x, i) \in BOOLEAN
<1> DEFINE rs == S(x.gpr[i.rs], x.w)
<1>0. rs \in Int
  BY Reads, Fields, SInts
<1>1. CASE i.op \in {"beq", "beql"}
  BY <1>1 DEF takeBranch
<1>2. CASE i.op \in {"bne", "bnel"}
  BY <1>2 DEF takeBranch
<1>3. CASE i.op \in {"blez", "blezl"}
  <2>1. takeBranch(x, i) = (rs <= 0)
    BY <1>0, <1>3 DEF takeBranch
  <2>2. (rs <= 0) \in BOOLEAN
    BY <1>0
  <2> QED  BY <2>1, <2>2, Zenon
<1>4. CASE i.op \in {"bgtz", "bgtzl"}
  <2>1. takeBranch(x, i) = (rs > 0)
    BY <1>0, <1>4 DEF takeBranch
  <2>2. (rs > 0) \in BOOLEAN
    BY <1>0
  <2> QED  BY <2>1, <2>2, Zenon
<1>5. CASE i.op \in {"bgez", "bgezl", "bgezal"}
  <2>1. takeBranch(x, i) = (rs >= 0)
    BY <1>0, <1>5 DEF takeBranch
  <2>2. (rs >= 0) \in BOOLEAN
    BY <1>0
  <2> QED  BY <2>1, <2>2, Zenon
<1>6. CASE i.op \in {"bltz", "bltzl"}
  <2>1. takeBranch(x, i) = (rs < 0)
    BY <1>0, <1>6 DEF takeBranch
  <2>2. (rs < 0) \in BOOLEAN
    BY <1>0
  <2> QED  BY <2>1, <2>2, Zenon
<1>7. CASE i.op \in {"bc1t", "bc1tl"}
  BY <1>7 DEF takeBranch
<1>8. CASE i.op \in {"bc1f", "bc1fl"}
  BY <1>8 DEF takeBranch
<1> QED  BY <1>1, <1>2, <1>3, <1>4, <1>5, <1>6, <1>7, <1>8 DEF BranchOps, Likely

BranchTarget(x, i) == U(S(i.imm, HW) * 4 + U(x.pc + 4, WW), WW)

LEMMA BranchIs ==
    ASSUME NEW x \in States(WW), NEW i, Ready(i), i.op \in BranchOps
    PROVE  \/ i.op \in Likely /\ Skipped(x, branch(x, i))
           \/ \E taken \in BOOLEAN, link \in Unsigned(WW) : Entered(x, branch(x, i), taken, BranchTarget(x, i), link)
              /\ (i.op \in Likely => taken)
<1> DEFINE npc == U(x.pc + 4, WW)
           taken == takeBranch(x, i)
           link == IF i.op = "bgezal" THEN U(npc + 4, WW) ELSE 0
<1>1. branch(x, i) = IF i.op \in Likely /\ ~taken THEN Adv(Adv(x)) ELSE Slot(x, taken, BranchTarget(x, i), link)
  BY DEF branch, BranchTarget
<1>2. taken \in BOOLEAN
  BY TakenBoolean
<1>3. npc \in Int /\ BranchTarget(x, i) \in Unsigned(WW)
  <2>1. npc \in Int
    BY Reads, URanges
  <2> HIDE DEF npc
  <2>2. S(i.imm, HW) * 4 + npc \in Int
    BY <2>1, Fields
  <2> QED  BY <2>1, <2>2, URanges DEF BranchTarget, npc
<1>4. link \in Unsigned(WW)
  <2> HIDE DEF npc
  <2>1. npc + 4 \in Int
    BY <1>3
  <2> QED  BY <2>1, URanges, Unsigneds
<1>5. SameControl(x, x)
  BY Reads DEF SameControl
<1> HIDE DEF taken, link, npc
<1>6. CASE i.op \in Likely /\ ~taken
  BY <1>1, <1>6, SkipIs
<1>7. CASE ~(i.op \in Likely /\ ~taken)
  <2>1. Entered(x, branch(x, i), taken, BranchTarget(x, i), link)
    BY <1>1, <1>2, <1>3, <1>4, <1>5, <1>7, SlotEnters
  <2> QED  BY <2>1, <1>2, <1>4, <1>7
<1> QED  BY <1>6, <1>7

\* Where no bit is common, an inclusive or is a sum.
LEMMA OrDisjoint ==
    ASSUME NEW k \in 0 .. DW, NEW a \in 0 .. (2^k - 1), NEW b \in Int, b % 2^k = 0
    PROVE  (a & b) = 0 /\ (b & a) = 0 /\ (a | b) = a + b /\ (b | a) = a + b
<1>1. 2^k \in Nat /\ 2^k >= 1 /\ a \in Int
  BY PowPos, Widths
<1>2. ASSUME NEW m \in 0 .. (DW - 1)
      PROVE  Bit(a, m) * Bit(b, m) = 0 /\ Bit(b, m) * Bit(a, m) = 0
  <2>1. m \in 0 .. DW /\ Bit(a, m) \in {0, 1} /\ Bit(b, m) \in {0, 1}
    BY <1>1, Widths, BitRange
  <2>2. CASE m >= k
    <3>1. 2^k <= 2^m /\ 2^m \in Nat
      BY <2>1, <2>2, PowMono, Widths
    <3>2. a \div 2^m = 0
      BY <3>1, <1>1, ModSmall
    <3>3. Bit(a, m) = 0
      <4>1. Bit(a, m) = 0 % 2
        BY <3>2, Zenon DEF Bit
      <4> QED  BY <4>1
    <3> QED  BY <3>3, <2>1
  <2>3. CASE m < k
    <3> DEFINE j == k - m - 1
               q == b \div 2^k
    <3>1. j \in Nat /\ m \in Nat /\ k = (j + 1) + m /\ j + 1 \in Nat /\ j \in 0 .. DW /\ j + 1 <= DW + 1 /\ (j + 1) + m <= DW + 1
      BY <2>1, <2>3, Widths
    <3>2. q \in Int /\ b = q * 2^k + (b % 2^k)
      BY <1>1, DivMod
    <3> HIDE DEF j, q
    <3>3. 2^k = 2^(j + 1) * 2^m
      BY <3>1, PowAdd
    <3>4. 2^(j + 1) = 2 * 2^j /\ 2^j \in Nat /\ 2^m \in Nat /\ 2^m >= 1
      BY <3>1, <2>1, PowersOfTwo, PowPos, Widths
    <3> DEFINE e == q * 2^j
    <3>5. e \in Int
      BY <3>2, <3>4
    <3>6. b = (2 * e) * 2^m + 0
      BY <3>2, <3>3, <3>4
    <3> HIDE DEF e
    <3>7. b \div 2^m = 2 * e
      <4>1. 2 * e \in Int /\ 0 < 2^m /\ 2^m \in Int
        BY <3>4, <3>5
      <4> QED  BY <4>1, <3>6, DivModUnique
    <3>8. Bit(b, m) = 0
      <4>1. Bit(b, m) = (2 * e) % 2
        BY <3>7, Zenon DEF Bit
      <4> QED  BY <4>1, <3>5
    <3> QED  BY <3>8, <2>1
  <2> QED  BY <2>1, <2>2, <2>3
<1>3. ASSUME NEW x \in Int, NEW y \in Int, \A m \in 0 .. (DW - 1) : Bit(x, m) * Bit(y, m) = 0
      PROVE  (x & y) = 0
  <2> DEFINE T == {n \in 0 .. DW : AndLow(x, y, n) # 0}
  <2>1. ASSUME T # {} PROVE FALSE
    <3>0. T \subseteq Nat
      OBVIOUS
    <3>1. PICK n \in T : \A j \in T : n <= j
      <4> HIDE DEF T
      <4> QED  BY <2>1, <3>0, LeastNatural
    <3>2. n # 0
      BY <3>1, AndStep, Widths
    <3>3. n - 1 \in 0 .. (DW - 1) /\ n - 1 \in 0 .. DW /\ n - 1 \notin T /\ (n - 1) + 1 = n
      BY <3>1, <3>2, Widths
    <3>4. AndLow(x, y, n) = AndLow(x, y, n - 1) + Bit(x, n - 1) * Bit(y, n - 1) * 2^(n - 1)
      BY <3>3, AndStep
    <3>5. Bit(x, n - 1) * Bit(y, n - 1) = 0 /\ 2^(n - 1) \in Nat
      BY <3>3, <1>3, PowPos, Widths
    <3> QED  BY <3>1, <3>3, <3>4, <3>5
  <2>2. DW \in 0 .. DW /\ 0 \in 0 .. (DW - 1)
    BY Widths
  <2>3. AndLow(x, y, DW) = 0
    BY <2>1, <2>2
  <2> QED  BY <2>2, <2>3, AndStep
<1>4. (a & b) = 0 /\ (b & a) = 0
  BY <1>1, <1>2, <1>3
<1> QED  BY <1>1, <1>4 DEF |

LEMMA JumpBitsIs == JumpBits \in 0 .. WW /\ JumpBits \in 0 .. DW /\ 2^JumpBits \in Nat /\ 2^JumpBits >= 1 /\ 2^JumpBits <= 2^WW
<1>1. JumpBits \in 0 .. WW
  BY Widths DEF JumpBits
<1> HIDE DEF JumpBits
<1> QED  BY <1>1, Widths, PowMono

\* The target of a jump: the upper bits of the slot's address, the rest from the
\* instruction.
LEMMA JumpTarget ==
    ASSUME NEW n \in Unsigned(WW), NEW g \in Nat, g * 4 < 2^JumpBits
    PROVE  /\ (U(g * 4, JumpBits) | (n - (n % 2^JumpBits))) = (n \div 2^JumpBits) * 2^JumpBits + (4 * g)
           /\ (U(g * 4, JumpBits) | (n - (n % 2^JumpBits))) \in Unsigned(WW)
<1> DEFINE e == 2^JumpBits
           q == n \div e
           b == n - (n % e)
           a == g * 4
<1>1. e \in Nat /\ e >= 1 /\ n \in Int /\ 0 <= n /\ n < 2^WW /\ 2^WW \in Nat /\ e <= 2^WW
  BY JumpBitsIs, USmall
<1> HIDE DEF e
<1>2. q \in Int /\ b = q * e + 0 /\ b <= n /\ b >= 0 /\ b \in Int
  <2>1. q \in Int /\ n % e \in Int /\ n = q * e + (n % e) /\ 0 <= n % e /\ n % e < e
    BY <1>1, DivMod
  <2>2. q >= 0
    <3>1. ASSUME q <= -1 PROVE FALSE
      <4>1. q * e <= (-1) * e
        BY <3>1, <2>1, <1>1, MulLeq
      <4> QED  BY <4>1, <2>1, <1>1
    <3> QED  BY <3>1, <2>1
  <2>3. q * e >= 0
    BY <2>1, <2>2, <1>1
  <2> QED  BY <2>1, <2>3, <1>1
<1> HIDE DEF q
<1>3. b % e = 0
  <2> HIDE DEF b
  <2> QED  BY <1>1, <1>2, DivModUnique
<1>4. a \in Int /\ 0 <= a /\ a < e
  BY DEF e
<1>5. U(a, JumpBits) = a
  BY <1>1, <1>4, ModSmall DEF U, e
<1> HIDE DEF a, b
<1>6. (a | b) = a + b
  BY <1>1, <1>2, <1>3, <1>4, JumpBitsIs, OrDisjoint DEF e
<1>7. (a | b) \in Unsigned(WW)
  <2>1. a \in 0 .. (2^WW - 1) /\ b \in 0 .. (2^WW - 1) /\ WW \in 0 .. DW
    BY <1>1, <1>2, <1>4, Widths
  <2> QED  BY <2>1, BitwiseRange DEF Unsigned
<1>8. a + b = q * e + (4 * g)
  BY <1>1, <1>2, <1>4 DEF a
<1> QED  BY <1>5, <1>6, <1>7, <1>8 DEF a, b, e, q

\* jalr and jal link before they enter the slot.
LEMMA LinkSame ==
    ASSUME NEW w \in {WW, DW}, NEW x \in States(w), NEW b \in BOOLEAN
    PROVE  SameControl(x, IF b THEN [x EXCEPT !.gpr[R_ra] = U(x.pc + 8, w)] ELSE x)
<1>1. x.w = w /\ R_ra \in Registers /\ x.pc + 8 \in Int
  BY Reads DEF R_ra, Registers
<1>2. U(x.pc + 8, w) \in Unsigned(w)
  BY <1>1, URanges
<1>3. SameControl(x, [x EXCEPT !.gpr[R_ra] = U(x.pc + 8, w)])
  BY <1>1, <1>2, SetGpr
<1>4. SameControl(x, x)
  BY <1>1 DEF SameControl
<1> QED  BY <1>3, <1>4

FarTarget(x, i) == (U(x.pc + 4, WW) \div 2^JumpBits) * 2^JumpBits + (4 * i.tgt)

LEMMA JumpIs ==
    ASSUME NEW w \in {WW, DW}, NEW x \in States(w), NEW i, Ready(i)
    PROVE  /\ w = WW => Entered(x, JType(x, i), TRUE, FarTarget(x, i), 0)
           /\ w = WW => Entered(x, JumpRegister(x, i), TRUE, U(x.gpr[i.rs], WW), 0)
           /\ w = DW => Entered(x, JType_64(x, i), TRUE, FarTarget(x, i), 0)
           /\ w = DW => Entered(x, JumpRegister_64(x, i), TRUE, U(x.gpr[i.rs], WW), 0)
           /\ FarTarget(x, i) \in Unsigned(WW) /\ U(x.gpr[i.rs], WW) \in Unsigned(WW)
<1>1. x.w = w /\ x.pc + 4 \in Int /\ x.gpr[i.rs] \in Int /\ i.tgt \in Nat /\ i.tgt * 4 < 2^JumpBits
  BY Reads, Fields DEF Ready
<1> DEFINE n == U(x.pc + 4, WW)
           far == U(i.tgt * 4, JumpBits) | (n - (n % 2^JumpBits))
           near == U(x.gpr[i.rs], WW)
           jal == IF i.op = "jal" THEN [x EXCEPT !.gpr[R_ra] = U(x.pc + 8, w)] ELSE x
           jalr == IF i.op = "jalr" THEN [x EXCEPT !.gpr[R_ra] = U(x.pc + 8, w)] ELSE x
<1>2. n \in Unsigned(WW) /\ near \in Unsigned(WW)
  BY <1>1, URanges
<1>3. far = FarTarget(x, i) /\ far \in Unsigned(WW)
  <2> HIDE DEF n
  <2>1. far = (n \div 2^JumpBits) * 2^JumpBits + (4 * i.tgt) /\ far \in Unsigned(WW)
    BY <1>1, <1>2, JumpTarget
  <2> QED  BY <2>1 DEF FarTarget, n
<1>4. SameControl(x, jal) /\ SameControl(x, jalr)
  BY LinkSame
<1>5. w = WW => JType(x, i) = Slot(jal, TRUE, far, 0) /\ JumpRegister(x, i) = Slot(jalr, TRUE, near, 0)
  BY <1>1 DEF JType, JumpRegister
<1>6. w = DW => JType_64(x, i) = Slot(jal, TRUE, far, 0) /\ JumpRegister_64(x, i) = Slot(jalr, TRUE, near, 0)
  BY <1>1 DEF JType_64, JumpRegister_64
<1> HIDE DEF jal, jalr, far, near, n
<1>7. 0 \in Unsigned(WW) /\ TRUE \in BOOLEAN
  BY Unsigneds
<1>8. Entered(x, Slot(jal, TRUE, far, 0), TRUE, far, 0) /\ Entered(x, Slot(jalr, TRUE, near, 0), TRUE, near, 0)
  BY <1>2, <1>3, <1>4, <1>7, SlotEnters
<1> QED  BY <1>2, <1>3, <1>5, <1>6, <1>8 DEF near

\* The frames that return, by recursion from the innermost.
Unwinds(f, x) ==
    f = [k \in 0 .. Len(x.frames) |-> IF k = 0 THEN [x EXCEPT !.frames = <<>>] ELSE AfterSlot(f[k - 1], x.frames[k])]

LEMMA UnwindsExist ==
    ASSUME NEW x, Len(x.frames) \in Nat
    PROVE  \E f : Unwinds(f, x)
<1> DEFINE n == Len(x.frames)
           Upto(f, m) == f = [k \in 0 .. m |-> IF k = 0 THEN [x EXCEPT !.frames = <<>>] ELSE AfterSlot(f[k - 1], x.frames[k])]
           T == {m \in 0 .. n : ~(\E f : Upto(f, m))}
<1>1. ASSUME T # {} PROVE FALSE
  <2>0. T \subseteq Nat
    OBVIOUS
  <2>1. PICK m \in T : \A j \in T : m <= j
    <3> HIDE DEF T
    <3> QED  BY <1>1, <2>0, LeastNatural
  <2> DEFINE c == [x EXCEPT !.frames = <<>>]
             fr == x.frames
  <2> HIDE DEF c, fr
  <2>2. ASSUME m = 0 PROVE FALSE
    <3> DEFINE g == [k \in 0 .. m |-> c]
    <3>1. g = [k \in 0 .. m |-> IF k = 0 THEN c ELSE AfterSlot(g[k - 1], fr[k])]
      BY <2>2
    <3> QED  BY <3>1, <2>1 DEF c, fr
  <2>3. m - 1 \in 0 .. n /\ m - 1 \notin T
    BY <2>1, <2>2
  <2>4. PICK f : f = [k \in 0 .. (m - 1) |-> IF k = 0 THEN c ELSE AfterSlot(f[k - 1], fr[k])]
    BY <2>3 DEF c, fr
  <2> DEFINE g == [k \in 0 .. m |-> IF k = m THEN AfterSlot(f[m - 1], fr[m]) ELSE f[k]]
  <2>5. ASSUME NEW k \in 0 .. m
        PROVE  g[k] = IF k = 0 THEN c ELSE AfterSlot(g[k - 1], fr[k])
    <3>1. CASE k = m
      <4>1. k # 0 /\ k - 1 \in 0 .. m /\ k - 1 # m
        BY <3>1, <2>1, <2>2
      <4> QED  BY <4>1, <3>1
    <3>2. CASE k # m
      <4>1. k \in 0 .. (m - 1)
        BY <3>2, <2>1
      <4>2. f[k] = IF k = 0 THEN c ELSE AfterSlot(f[k - 1], fr[k])
        BY <4>1, <2>4
      <4>3. k # 0 => k - 1 \in 0 .. m /\ k - 1 # m
        BY <4>1, <2>1
      <4> QED  BY <4>2, <4>3, <3>2
    <3> QED  BY <3>1, <3>2
  <2>6. g = [k \in 0 .. m |-> IF k = 0 THEN c ELSE AfterSlot(g[k - 1], fr[k])]
    <3> DEFINE h == [k \in 0 .. m |-> IF k = 0 THEN c ELSE AfterSlot(g[k - 1], fr[k])]
    <3>1. \A k \in 0 .. m : g[k] = h[k]
      BY <2>5
    <3> QED  BY <3>1, Zenon
  <2> QED  BY <2>6, <2>1 DEF c, fr
<1>2. n \in 0 .. n
  OBVIOUS
<1>3. \E f : Upto(f, n)
  BY <1>1, <1>2
<1> QED  BY <1>3 DEF Unwinds

LEMMA AfterSlotRange ==
    ASSUME NEW w \in {WW, DW}, NEW x \in States(w), NEW f \in Frames
    PROVE  /\ AfterSlot(x, f) \in States(w) /\ AfterSlot(x, f).frames = x.frames
           /\ AfterSlot(x, f).icnt = x.icnt /\ AfterSlot(x, f).st = x.st
           /\ AfterSlot(x, f).pc = (IF f.taken THEN f.target ELSE x.pc)
           /\ AfterSlot(x, f).hi = x.hi /\ AfterSlot(x, f).lo = x.lo
<1>1. f.target \in Unsigned(w) /\ f.link \in Unsigned(w) /\ f.taken \in BOOLEAN /\ R_ra \in Registers
  BY WordInDouble DEF Frames, R_ra, Registers
<1>2. CASE ~f.taken
  BY <1>2 DEF AfterSlot
<1>3. CASE f.taken /\ f.link = 0
  <2>1. AfterSlot(x, f) = [x EXCEPT !.pc = f.target]
    BY <1>3 DEF AfterSlot
  <2> QED  BY <2>1, <1>1, <1>3 DEF States
<1>4. CASE f.taken /\ f.link # 0
  <2>1. AfterSlot(x, f) = [x EXCEPT !.pc = f.target, !.gpr[R_ra] = f.link]
    BY <1>4 DEF AfterSlot
  <2> DEFINE y == [x EXCEPT !.pc = f.target]
  <2>2. y \in States(w) /\ y.frames = x.frames /\ y.icnt = x.icnt /\ y.st = x.st /\ y.pc = f.target
    BY <1>1 DEF States
  <2>3. AfterSlot(x, f) = [y EXCEPT !.gpr[R_ra] = f.link]
    BY <2>1
  <2> HIDE DEF y
  <2>4. SameControl(y, AfterSlot(x, f)) /\ y.w = w
    BY <2>2, <2>3, <1>1, SetGpr, Reads
  <2>5. AfterSlot(x, f).hi = x.hi /\ AfterSlot(x, f).lo = x.lo
    BY <2>2, <2>3 DEF States, y
  <2> QED  BY <2>2, <2>4, <2>5, <1>4 DEF SameControl
<1> QED  BY <1>1, <1>2, <1>3, <1>4

LEMMA ReturnIs ==
    ASSUME NEW w \in {WW, DW}, NEW x \in States(w)
    PROVE  /\ Return(x) \in States(w) /\ Return(x).st = x.st /\ Return(x).icnt = x.icnt
           /\ x.st # "run" => Return(x) = x
           /\ x.st = "run" => Return(x).frames = <<>>
           /\ x.st = "run" /\ Len(x.frames) = 0 => Return(x).pc = x.pc
           /\ x.st = "run" /\ Len(x.frames) = 1 =>
                 Return(x).pc = IF x.frames[1].taken THEN x.frames[1].target ELSE x.pc
           /\ Return(x).hi = x.hi /\ Return(x).lo = x.lo
           /\ x.frames = <<>> => Return(x) = x
<1> DEFINE n == Len(x.frames)
           u == CHOOSE f : f = [k \in 0 .. n |-> IF k = 0 THEN [x EXCEPT !.frames = <<>>] ELSE AfterSlot(f[k - 1], x.frames[k])]
<1>0. x.frames \in Seq(Frames) /\ n \in Nat
  BY DEF States
<1>1. Unwinds(u, x)
  BY <1>0, UnwindsExist, Zenon DEF Unwinds
<1>2. Return(x) = IF x.st = "run" THEN u[n] ELSE x
  BY Zenon DEF Return
<1> HIDE DEF u
<1>3. \A k \in 0 .. n : u[k] = IF k = 0 THEN [x EXCEPT !.frames = <<>>] ELSE AfterSlot(u[k - 1], x.frames[k])
  BY <1>1 DEF Unwinds
<1> DEFINE Good(y) == y \in States(w) /\ y.frames = <<>> /\ y.icnt = x.icnt /\ y.st = x.st /\ y.hi = x.hi /\ y.lo = x.lo
           T == {k \in 0 .. n : ~Good(u[k])}
<1>4. Good(u[0]) /\ u[0].pc = x.pc /\ (x.frames = <<>> => u[n] = x)
  <2>1. u[0] = [x EXCEPT !.frames = <<>>]
    BY <1>0, <1>3
  <2>2. <<>> \in Seq(Frames)
    OBVIOUS
  <2>3. Good(u[0]) /\ u[0].pc = x.pc
    BY <2>1, <2>2 DEF States
  <2>4. x.frames = <<>> => n = 0 /\ [x EXCEPT !.frames = <<>>] = x
    BY DEF States
  <2> QED  BY <2>1, <2>3, <2>4
<1>5. ASSUME NEW k \in 1 .. n, Good(u[k - 1])
      PROVE  Good(u[k]) /\ u[k].pc = IF x.frames[k].taken THEN x.frames[k].target ELSE u[k - 1].pc
  <2>1. u[k] = AfterSlot(u[k - 1], x.frames[k])
    BY <1>0, <1>3
  <2>2. x.frames[k] \in Frames
    BY <1>0
  <2> QED  BY <2>1, <2>2, <1>5, AfterSlotRange
<1>6. ASSUME T # {} PROVE FALSE
  <2>0. T \subseteq Nat
    BY <1>0
  <2>1. PICK k \in T : \A j \in T : k <= j
    <3> HIDE DEF T
    <3> QED  BY <1>6, <2>0, LeastNatural
  <2>2. k # 0
    BY <2>1, <1>4
  <2>3. k \in 1 .. n /\ k - 1 \in 0 .. n /\ k - 1 \notin T
    BY <2>1, <2>2, <1>0
  <2>4. Good(u[k - 1])
    BY <2>3
  <2>5. Good(u[k])
    BY <2>3, <2>4, <1>5
  <2> QED  BY <2>1, <2>5
<1>7. Good(u[n])
  BY <1>0, <1>6
<1>8. n = 1 => u[1].pc = IF x.frames[1].taken THEN x.frames[1].target ELSE x.pc
  <2>1. n = 1 => 1 \in 1 .. n /\ 1 - 1 = 0
    OBVIOUS
  <2> QED  BY <2>1, <1>4, <1>5
<1> HIDE DEF T
<1> QED  BY <1>2, <1>4, <1>7, <1>8

-----------------------------------------------------------------------------
(* What any instruction does to the control state.                         *)

Leaves == {"monitor", "break", "syscall"}
Outcome(x, y, i) ==
    \/ i.op \notin Transfers \cup Leaves /\ Straight(x, y)
    \/ i.op = "monitor" /\ Returned(x, y)
    \/ i.op \in {"break", "syscall"} /\ SameControl(x, y)
    \/ i.op \in Likely /\ Skipped(x, y)
    \/ /\ i.op \in BranchOps
       /\ \E taken \in BOOLEAN, link \in Unsigned(WW) :
             Entered(x, y, taken, BranchTarget(x, i), link) /\ (i.op \in Likely => taken)
    \/ i.op \in JumpOps /\ Entered(x, y, TRUE, FarTarget(x, i), 0)
    \/ i.op \in RegJumpOps /\ Entered(x, y, TRUE, U(x.gpr[i.rs], WW), 0)

LEMMA GroupsApart ==
    /\ \A op \in ShiftOps \cup MulDivOps \cup ArithOps \cup Special2Ops \cup Special3Ops : op \notin Transfers
    /\ \A op \in Coproc0Ops \cup Coproc1Ops \cup Coproc1xOps \cup ImmediateOps \cup MemoryOps \cup BreakOps : op \notin Transfers
    /\ \A op \in MulDivOps \cup ArithOps \cup Special2Ops \cup Special3Ops : op \notin Leaves
    /\ \A op \in Coproc0Ops \cup Coproc1Ops \cup Coproc1xOps \cup ImmediateOps \cup MemoryOps : op \notin Leaves
    /\ \A op \in ShiftOps : op = "monitor" \/ op \notin Leaves
    /\ \A op \in BreakOps : op = "sync" \/ op \in {"break", "syscall"}
    /\ "sync" \notin Leaves \cup Transfers
<1>1. /\ \A op \in ShiftOps \cup MulDivOps \cup ArithOps \cup Special2Ops \cup Special3Ops : op \notin Transfers
      /\ \A op \in MulDivOps \cup ArithOps \cup Special2Ops \cup Special3Ops : op \notin Leaves
      /\ \A op \in ShiftOps : op = "monitor" \/ op \notin Leaves
  BY DEF ShiftOps, MulDivOps, ArithOps, Special2Ops, Special3Ops, Transfers, BranchOps, Likely, JumpOps, RegJumpOps, Leaves
<1>2. /\ \A op \in Coproc0Ops \cup Coproc1Ops \cup Coproc1xOps \cup ImmediateOps : op \notin Transfers
      /\ \A op \in Coproc0Ops \cup Coproc1Ops \cup Coproc1xOps \cup ImmediateOps : op \notin Leaves
  BY DEF Coproc0Ops, Coproc1Ops, FpOps, Coproc1xOps, ImmediateOps, Transfers, BranchOps, Likely, JumpOps, RegJumpOps, Leaves
<1>3. /\ \A op \in MemoryOps \cup BreakOps : op \notin Transfers
      /\ \A op \in MemoryOps : op \notin Leaves
      /\ \A op \in BreakOps : op = "sync" \/ op \in {"break", "syscall"}
      /\ "sync" \notin Leaves \cup Transfers
  BY DEF MemoryOps, BreakOps, Transfers, BranchOps, Likely, JumpOps, RegJumpOps, Leaves
<1> QED  BY <1>1, <1>2, <1>3

LEMMA BreakSame ==
    ASSUME NEW w \in {WW, DW}, NEW x \in States(w)
    PROVE  SameControl(x, [x EXCEPT !.brk = 1])
BY DEF SameControl, States

LEMMA Outcomes ==
    ASSUME FpuTotal, NEW x \in States(WW), x.st = "run", NEW i, Ready(i)
    PROVE  /\ i.op \in ShiftOps => Outcome(x, Shifts(x, i), i)
           /\ i.op \in BreakOps => Outcome(x, Breaks(x, i), i)
           /\ i.op \in MulDivOps => Outcome(x, MulDiv(x, i), i)
           /\ i.op \in ArithOps => Outcome(x, Arith(x, i), i)
           /\ i.op \in Special2Ops => Outcome(x, execSpecial2(x, i), i)
           /\ i.op \in Special3Ops => Outcome(x, execSpecial3(x, i), i)
           /\ i.op \in JumpOps => Outcome(x, JType(x, i), i)
           /\ i.op \in RegJumpOps => Outcome(x, JumpRegister(x, i), i)
           /\ i.op \in Coproc0Ops => Outcome(x, Coproc0(x, i), i)
           /\ i.op \in Coproc1Ops => Outcome(x, execCoproc1(x, i), i)
           /\ i.op \in Coproc1xOps => Outcome(x, execCoproc1x(x, i), i)
           /\ i.op \in ImmediateOps => Outcome(x, Immediate(x, i), i)
           /\ i.op \in MemoryOps => Outcome(x, LoadStore(x, i), i)
           /\ i.op \in BranchOps => Outcome(x, branch(x, i), i)
<1>1. ASSUME i.op \in ShiftOps PROVE Outcome(x, Shifts(x, i), i)
  <2>1. CASE i.op = "monitor"
    <3>1. Shifts(x, i) = _monitorBody(x, i)
      BY <2>1 DEF Shifts
    <3> QED  BY <3>1, <2>1, MonitorReturns DEF Outcome
  <2>2. CASE i.op # "monitor"
    BY <1>1, <2>2, ShiftsStraight, GroupsApart DEF Outcome
  <2> QED  BY <2>1, <2>2
<1>2. ASSUME i.op \in BreakOps PROVE Outcome(x, Breaks(x, i), i)
  <2>1. Breaks(x, i) = IF i.op = "sync" THEN Adv(x) ELSE [x EXCEPT !.brk = 1]
    BY DEF Breaks
  <2>2. Straight(x, Adv(x)) /\ SameControl(x, [x EXCEPT !.brk = 1])
    BY AdvStraight, BreakSame
  <2> QED  BY <1>2, <2>1, <2>2, GroupsApart DEF Outcome
<1>3. i.op \in MulDivOps => Outcome(x, MulDiv(x, i), i)
  BY MulDivStraight, GroupsApart DEF Outcome
<1>4. i.op \in ArithOps => Outcome(x, Arith(x, i), i)
  BY ArithStraight, GroupsApart DEF Outcome
<1>5. /\ i.op \in Special2Ops => Outcome(x, execSpecial2(x, i), i)
      /\ i.op \in Special3Ops => Outcome(x, execSpecial3(x, i), i)
  BY Special2Straight, Special3Straight, GroupsApart DEF Outcome
<1>6. /\ i.op \in JumpOps => Outcome(x, JType(x, i), i)
      /\ i.op \in RegJumpOps => Outcome(x, JumpRegister(x, i), i)
  BY JumpIs DEF Outcome
<1>7. i.op \in Coproc0Ops => Outcome(x, Coproc0(x, i), i)
  BY Coproc0Straight, GroupsApart DEF Outcome
<1>8. i.op \in Coproc1Ops => Outcome(x, execCoproc1(x, i), i)
  BY Coproc1Straight, GroupsApart DEF Outcome
<1>9. i.op \in Coproc1xOps => Outcome(x, execCoproc1x(x, i), i)
  BY Coproc1xStraight, GroupsApart DEF Outcome
<1>10. i.op \in ImmediateOps => Outcome(x, Immediate(x, i), i)
  BY ImmediateStraight, GroupsApart DEF Outcome
<1>11. i.op \in MemoryOps => Outcome(x, LoadStore(x, i), i)
  BY LoadStoreStraight, GroupsApart DEF Outcome
<1>12. i.op \in BranchOps => Outcome(x, branch(x, i), i)
  BY BranchIs DEF Outcome
<1> QED  BY <1>1, <1>2, <1>3, <1>4, <1>5, <1>6, <1>7, <1>8, <1>9, <1>10, <1>11, <1>12

-----------------------------------------------------------------------------
(* The handlers of interpret64.cc.                                         *)

LEMMA Special2Straight64 ==
    ASSUME NEW x \in States(DW), NEW i, Ready(i)
    PROVE  Straight(x, execSpecial2_64(x, i))
<1> DEFINE rs == x.gpr[i.rs]
           rt == x.gpr[i.rt]
           acc == U(x.hi * 2^WW, DW) | x.lo
           prod == S(rs, DW) * S(rt, DW)
           yu == U(U(rs, WW) * U(rt, WW) + acc, DW)
<1>1. rs \in Int /\ rt \in Int /\ i.rd \in Registers /\ x.hi \in Int /\ x.lo \in Int
  BY Reads, Fields
<1>2. S(rs, DW) \in Int /\ S(rt, DW) \in Int /\ U(rs, WW) \in Int /\ U(rt, WW) \in Int /\ U(rs, WW) \in Unsigned(WW)
  <2> HIDE DEF rs, rt
  <2>1. S(rs, DW) \in Int /\ S(rt, DW) \in Int
    BY <1>1, SInts
  <2>2. U(rs, WW) \in Int /\ U(rt, WW) \in Int /\ U(rs, WW) \in Unsigned(WW)
    BY <1>1, URanges
  <2> QED  BY <2>1, <2>2
<1>3. acc \in Int
  <2>1. x.hi * 2^WW \in Int
    BY <1>1, Powers
  <2>2. U(x.hi * 2^WW, DW) \in Int
    BY <2>1, URanges
  <2> QED  BY <2>2, <1>1, BitwiseInt
<1> HIDE DEF acc
<1>4. prod \in Int /\ prod + acc \in Int /\ acc - prod \in Int /\ U(rs, WW) * U(rt, WW) + acc \in Int
  BY <1>2, <1>3
<1>5. ASSUME NEW y \in Int
      PROVE  Straight(x, HiLo(x, u32toi64(U(y, DW) \div 2^WW), u32toi64(y)))
  <2>1. U(y, DW) \div 2^WW \in Int
    BY HighWord, Unsigneds
  <2>2. u32toi64(U(y, DW) \div 2^WW) \in Int /\ u32toi64(y) \in Int
    BY <2>1, ExtInt DEF u32toi64
  <2> QED  BY <2>2, HiLoStraight
<1>6. yu \in Int /\ yu \div 2^WW \in Int /\ U(yu, WW) \in Int
  <2>1. yu \in Int
    BY <1>4, URanges
  <2> HIDE DEF yu
  <2> QED  BY <2>1, URanges, Powers, DivMod
<1> HIDE DEF yu
<1>7. CASE i.op = "madd"
  <2>1. execSpecial2_64(x, i) = HiLo(x, u32toi64(U(prod + acc, DW) \div 2^WW), u32toi64(prod + acc))
    BY <1>7 DEF execSpecial2_64, acc
  <2> HIDE DEF prod
  <2> QED  BY <2>1, <1>4, <1>5
<1>8. CASE i.op = "maddu"
  <2>1. execSpecial2_64(x, i) = HiLo(x, yu \div 2^WW, U(yu, WW))
    BY <1>8 DEF execSpecial2_64, acc, yu
  <2> QED  BY <2>1, <1>6, HiLoStraight
<1>9. CASE i.op = "mul"
  <2>1. execSpecial2_64(x, i) = Gpr(x, i.rd, u32toi64(prod))
    BY <1>9 DEF execSpecial2_64
  <2>2. u32toi64(prod) \in Int
    BY <1>4, ExtInt DEF u32toi64
  <2> QED  BY <2>1, <2>2, <1>1, GprStraight
<1>10. CASE i.op = "msub"
  <2>1. execSpecial2_64(x, i) = HiLo(x, u32toi64(U(acc - prod, DW) \div 2^WW), u32toi64(acc - prod))
    BY <1>10 DEF execSpecial2_64, acc
  <2> HIDE DEF prod
  <2> QED  BY <2>1, <1>4, <1>5
<1>11. CASE i.op = "clz"
  <2> DEFINE n == CHOOSE n \in 0 .. WW : U(rs, WW) \div 2^(WW - n) = 0 /\ (n = WW \/ U(rs, WW) \div 2^(WW - n - 1) = 1)
  <2>1. execSpecial2_64(x, i) = Gpr(x, i.rd, n)
    BY <1>11 DEF execSpecial2_64
  <2>2. n \in Int
    BY <1>2, LeadingZeros
  <2> HIDE DEF n
  <2> QED  BY <2>1, <2>2, <1>1, GprStraight
<1>12. CASE i.op \notin {"madd", "maddu", "mul", "msub", "clz"}
  <2>1. execSpecial2_64(x, i) = Stop(x, "exit")
    BY <1>12 DEF execSpecial2_64
  <2> QED  BY <2>1, StopStraight
<1> QED  BY <1>7, <1>8, <1>9, <1>10, <1>11, <1>12

LEMMA Special3Straight64 ==
    ASSUME NEW x \in States(DW), NEW i, Ready(i)
    PROVE  Straight(x, execSpecial3_64(x, i))
<1> DEFINE rs == x.gpr[i.rs]
           rt == x.gpr[i.rt]
           mask == U(Shl1(i.rd - i.sa + 1, i.u) - 1, WW)
<1>1. rs \in Int /\ rt \in Int /\ i.rd \in Registers /\ i.rt \in Registers /\ i.u \in {0, 1} /\ i.sa \in Nat /\ i.rd \in Nat
  BY Reads, Fields
<1>2. S(rs, DW) \in Int /\ S(rt, ByteBits) \in Int /\ S(rt, HW) \in Int /\ U(rt, WW) \in Int
  BY <1>1, SInts, URanges, SMTT(40)
<1>4. CASE i.op = "seb"
  <2>1. execSpecial3_64(x, i) = Gpr(x, i.rd, S(rt, ByteBits))
    BY <1>4 DEF execSpecial3_64
  <2> QED  BY <2>1, <1>1, <1>2, GprStraight
<1>5. CASE i.op = "seh"
  <2>1. execSpecial3_64(x, i) = Gpr(x, i.rd, S(rt, HW))
    BY <1>5 DEF execSpecial3_64
  <2> QED  BY <2>1, <1>1, <1>2, GprStraight
<1>6. CASE i.op = "ext"
  <2> DEFINE v == U(S(rs, DW) \div 2^i.sa, DW) & U(Shl1(i.rd + 1, i.u) - 1, DW)
  <2>1. execSpecial3_64(x, i) = Gpr(x, i.rt, v)
    BY <1>6 DEF execSpecial3_64
  <2>2. S(rs, DW) \div 2^i.sa \in Int
    BY <1>2, <1>6, FieldPows, DivMod
  <2>3. i.rd + 1 \in 0 .. DW
    BY <1>1, <1>6, Widths, SMTT(40) DEF Ready
  <2>4. Shl1(i.rd + 1, i.u) - 1 \in Int
    BY <2>3, <1>1, Shl1Int
  <2>5. v \in Int
    BY <2>2, <2>4, URanges, BitwiseInt, SMTT(40)
  <2> HIDE DEF v
  <2> QED  BY <2>1, <2>5, <1>1, GprStraight
<1>7. CASE i.op = "ins"
  <2> DEFINE v == (U(rt, WW) & Inv(mask * 2^i.sa, WW)) | U((rs & mask) * 2^i.sa, WW)
  <2>1. execSpecial3_64(x, i) = Gpr(x, i.rt, v)
    BY <1>7 DEF execSpecial3_64
  <2>2. i.rd - i.sa + 1 \in 0 .. DW
    BY <1>1, <1>7, Widths, SMTT(40) DEF Ready
  <2>3. mask \in Int
    <3>1. Shl1(i.rd - i.sa + 1, i.u) - 1 \in Int
      BY <2>2, <1>1, Shl1Int
    <3> QED  BY <3>1, URanges
  <2> HIDE DEF mask
  <2>4. 2^i.sa \in Nat
    BY <1>7, FieldPows
  <2>5. (rs & mask) * 2^i.sa \in Int /\ mask * 2^i.sa \in Int
    <3>1. (rs & mask) \in Int
      BY <2>3, <1>1, BitwiseInt
    <3> QED  BY <2>3, <2>4, <3>1
  <2>6. U((rs & mask) * 2^i.sa, WW) \in Int /\ Inv(mask * 2^i.sa, WW) \in Int
    BY <2>5, URanges, InvInt
  <2>7. v \in Int
    BY <2>6, <1>2, BitwiseInt
  <2> HIDE DEF v
  <2> QED  BY <2>1, <2>7, <1>1, GprStraight
<1>9. CASE i.op \notin {"seb", "seh", "ext", "ins"}
  <2>1. execSpecial3_64(x, i) = Stop(x, "exit")
    BY <1>9 DEF execSpecial3_64
  <2> QED  BY <2>1, StopStraight
<1> QED  BY <1>4, <1>5, <1>6, <1>7, <1>9

LEMMA ShiftsStraight64 ==
    ASSUME NEW x \in States(DW), NEW i, Ready(i), i.op \in ShiftOps, i.op # "monitor"
    PROVE  Straight(x, Shifts_64(x, i))
<1> DEFINE rt == x.gpr[i.rt]
           a == IF i.op \in {"sllv", "srlv", "srav"} THEN x.gpr[i.rs] % WW ELSE i.sa
<1>1. rt \in Int /\ i.rd \in Registers /\ S(rt, DW) \in Int /\ U(rt, WW) \in Int
  BY Reads, Fields, SInts, URanges
<1>2. 2^a \in Nat /\ 2^a >= 1
  BY ShiftAmount
<1> HIDE DEF a
<1>3. rt * 2^a \in Int /\ U(rt, WW) \div 2^a \in Int /\ S(rt, DW) \div 2^a \in Int
  BY <1>1, <1>2, DivMod
<1>4. \A v \in Int : Straight(x, Gpr(x, i.rd, v))
  BY <1>1, GprStraight
<1>5. CASE i.op \in {"sll", "sllv"}
  <2>1. Shifts_64(x, i) = Gpr(x, i.rd, rt * 2^a)
    BY <1>5 DEF Shifts_64, a
  <2> QED  BY <2>1, <1>3, <1>4
<1>6. CASE i.op \in {"srl", "srlv"}
  <2>1. Shifts_64(x, i) = Gpr(x, i.rd, U(rt, WW) \div 2^a)
    BY <1>6 DEF Shifts_64, a
  <2> QED  BY <2>1, <1>3, <1>4
<1>7. CASE i.op \in {"sra", "srav"}
  <2>1. Shifts_64(x, i) = Gpr(x, i.rd, S(rt, DW) \div 2^a)
    BY <1>7 DEF Shifts_64, a
  <2> QED  BY <2>1, <1>3, <1>4
<1>8. CASE i.op = "movci"
  BY <1>8, MovesStraight DEF Shifts_64
<1> QED  BY <1>5, <1>6, <1>7, <1>8 DEF ShiftOps

\* A write to the low word of a 64-bit register leaves a 64-bit value.
LEMMA LowWordRange ==
    ASSUME NEW x \in Unsigned(DW), NEW v \in Int
    PROVE  LowWord(x, v) \in Unsigned(DW)
<1> DEFINE d == 2^WW
           q == x \div d
           r == x % d
<1>1. d \in Int /\ d > 0 /\ 2^DW = d * d /\ x \in Int /\ 0 <= x /\ x < 2^DW
  BY Powers, Unsigneds, USmall
<1>2. U(x, WW) = r /\ U(v, WW) \in Int /\ 0 <= U(v, WW) /\ U(v, WW) < d
  <2>1. U(v, WW) \in Unsigned(WW)
    BY URanges
  <2> QED  BY <2>1, USmall DEF U
<1> HIDE DEF d
<1>3. q \in Int /\ r \in Int /\ 0 <= r /\ r < d /\ x = q * d + r
  BY <1>1, DivMod
<1> HIDE DEF q, r
<1>4. q >= 0
  <2>1. SUFFICES ASSUME q <= -1 PROVE FALSE
    BY <1>3
  <2>2. q * d <= (-1) * d
    BY <2>1, <1>1, <1>3, MulLeq
  <2> QED  BY <2>2, <1>1, <1>3
<1>5. q <= d - 1
  <2>1. SUFFICES ASSUME q >= d PROVE FALSE
    BY <1>1, <1>3
  <2>2. d * d <= q * d
    BY <2>1, <1>1, <1>3, MulLeq
  <2> QED  BY <2>2, <1>1, <1>3
<1>6. 0 <= q * d /\ q * d <= d * d - d
  <2>1. 0 * d <= q * d
    BY <1>1, <1>3, <1>4, MulLeq
  <2>2. q * d <= (d - 1) * d
    BY <1>1, <1>3, <1>5, MulLeq
  <2> QED  BY <2>1, <2>2, <1>1
<1>7. LowWord(x, v) = q * d + U(v, WW)
  <2>1. LowWord(x, v) = x - r + U(v, WW)
    BY <1>2 DEF LowWord
  <2>2. q * d \in Int
    BY <1>1, <1>3
  <2> QED  BY <2>1, <2>2, <1>1, <1>2, <1>3
<1>8. LowWord(x, v) \in Int /\ 0 <= LowWord(x, v) /\ LowWord(x, v) <= d * d - 1
  <2>1. q * d \in Int /\ d * d \in Int
    BY <1>1, <1>3
  <2> QED  BY <2>1, <1>1, <1>2, <1>6, <1>7
<1> QED  BY <1>1, <1>8 DEF Unsigned

LEMMA MulDivStraight64 ==
    ASSUME NEW x \in States(DW), NEW i, Ready(i), i.op \in MulDivOps \cup {"sync"}
    PROVE  Straight(x, MulDiv_64(x, i))
<1> DEFINE rs == x.gpr[i.rs]
           rt == x.gpr[i.rt]
           a == S(rs, DW)
           b == S(rt, DW)
           prod == U(a * b, DW)
           produ == U(rs, WW) * U(rt, WW)
<1>1. rs \in Int /\ rt \in Int /\ rt \in Unsigned(DW) /\ rt >= 0 /\ i.rd \in Registers
      /\ x.hi \in Int /\ x.lo \in Int /\ x.hi \in Unsigned(DW) /\ x.lo \in Unsigned(DW)
  BY Reads, Fields DEF Unsigned
<1>2. a \in Int /\ b \in Int
  BY <1>1, SInts
<1>3. U(rs, WW) \in Int /\ U(rt, WW) \in Int /\ U(rt, WW) >= 0
  <2> HIDE DEF rs, rt
  <2>1. U(rs, WW) \in Nat /\ U(rt, WW) \in Nat
    BY <1>1, URanges
  <2> QED  BY <2>1
<1> HIDE DEF rs, rt, a, b
<1>4. CASE i.op \in {"mfhi", "mflo"}
  <2>1. MulDiv_64(x, i) \in {Gpr(x, i.rd, x.hi), Gpr(x, i.rd, x.lo)}
    BY <1>4 DEF MulDiv_64
  <2> QED  BY <2>1, <1>1, GprStraight
<1>5. CASE i.op \in {"mthi", "mtlo"}
  <2>1. MulDiv_64(x, i) \in {HiLo(x, rs, x.lo), HiLo(x, x.hi, rs)}
    BY <1>5 DEF MulDiv_64, rs
  <2> QED  BY <2>1, <1>1, HiLoStraight
<1>6. CASE i.op = "mult"
  <2>1. MulDiv_64(x, i) = HiLo(x, u32toi64(prod \div 2^WW), u32toi64(prod))
    BY <1>6 DEF MulDiv_64, rs, rt, a, b
  <2>2. a * b \in Int
    BY <1>2
  <2>3. prod \in Int /\ prod \div 2^WW \in Int
    BY <2>2, URanges, HighWord, Unsigneds
  <2> HIDE DEF prod
  <2>4. u32toi64(prod \div 2^WW) \in Int /\ u32toi64(prod) \in Int
    BY <2>3, ExtInt DEF u32toi64
  <2> QED  BY <2>1, <2>4, HiLoStraight
<1>7. CASE i.op = "multu"
  <2>1. MulDiv_64(x, i) = HiLo(x, LowWord(x.hi, produ \div 2^WW), LowWord(x.lo, produ))
    BY <1>7 DEF MulDiv_64, rs, rt
  <2>2. produ \in Int
    BY <1>3
  <2> HIDE DEF produ
  <2>3. produ \div 2^WW \in Int
    BY <2>2, Powers, DivMod
  <2>4. LowWord(x.hi, produ \div 2^WW) \in Int /\ LowWord(x.lo, produ) \in Int
    BY <2>2, <2>3, <1>1, LowWordRange, Unsigneds
  <2> QED  BY <2>1, <2>4, HiLoStraight
<1>8. CASE i.op = "divu"
  <2> DEFINE n == U(rs, WW)
             m == U(rt, WW)
  <2>1. MulDiv_64(x, i) = IF rt = 0 THEN Adv(x) ELSE IF m = 0 THEN Stop(x, "signal") ELSE HiLo(x, n % m, n \div m)
    BY <1>8 DEF MulDiv_64, rs, rt
  <2> HIDE DEF n, m
  <2>2. m # 0 => n % m \in Int /\ n \div m \in Int
    BY <1>3, DivMod DEF n, m
  <2> QED  BY <2>1, <2>2, AdvStraight, StopStraight, HiLoStraight
<1>9. CASE i.op = "div"
  <2> DEFINE r == Rem(a, b)
             q == Quot(a, b)
  <2>1. MulDiv_64(x, i) = IF rt = 0 THEN Adv(x)
                          ELSE IF rs = 2^(DW - 1) /\ rt = 2^DW - 1 /\ i.u = 1 THEN Stop(x, "signal") ELSE HiLo(x, r, q)
    BY <1>9 DEF MulDiv_64, rs, rt, a, b
  <2>2. rt # 0 => b # 0
    <3>1. U(rt, DW) = rt /\ rt < 2^DW /\ 2^DW \in Nat
      BY <1>1, USmall
    <3> QED  BY <3>1, <1>1 DEF S, b
  <2>3. rt # 0 => r \in Int /\ q \in Int
    BY <2>2, <1>2, QuotRem
  <2> HIDE DEF r, q
  <2> QED  BY <2>1, <2>3, AdvStraight, StopStraight, HiLoStraight
<1>10. CASE i.op = "sync"
  BY <1>10, AdvStraight DEF MulDiv_64
<1> QED  BY <1>4, <1>5, <1>6, <1>7, <1>8, <1>9, <1>10 DEF MulDivOps

LEMMA ArithStraight64 ==
    ASSUME NEW x \in States(DW), NEW i, Ready(i)
    PROVE  Straight(x, Arith_64(x, i))
<1> DEFINE rs == x.gpr[i.rs]
           rt == x.gpr[i.rt]
           old == x.gpr[i.rd]
<1>1. rs \in Int /\ rt \in Int /\ old \in Int /\ i.rd \in Registers
  BY Reads, Fields
<1>2. \A v \in Int : Straight(x, Gpr(x, i.rd, v))
  BY <1>1, GprStraight
<1>3. (rs & rt) \in Int /\ (rs | rt) \in Int /\ (rs ^^ rt) \in Int
  BY <1>1, BitwiseInt
<1>4. Inv(rs | rt, DW) \in Int
  BY <1>3, InvInt
<1>6. Straight(x, Adv(x)) /\ Straight(x, Stop(x, "exit")) /\ Straight(x, Stop(x, "abort"))
  BY AdvStraight, StopStraight
<1>7. CASE i.op \in {"addu", "subu"}
  <2>1. Arith_64(x, i) \in {Gpr(x, i.rd, u32toi64(rs + rt)), Gpr(x, i.rd, u32toi64(rs - rt))}
    BY <1>7 DEF Arith_64
  <2>2. rs + rt \in Int /\ rs - rt \in Int
    BY <1>1
  <2>3. u32toi64(rs + rt) \in Int /\ u32toi64(rs - rt) \in Int
    BY <2>2, ExtInt DEF u32toi64
  <2> QED  BY <2>1, <2>3, <1>2
<1>8. CASE i.op \in {"and", "or", "xor", "nor"}
  <2>1. Arith_64(x, i) \in {Gpr(x, i.rd, rs & rt), Gpr(x, i.rd, rs | rt), Gpr(x, i.rd, rs ^^ rt), Gpr(x, i.rd, Inv(rs | rt, DW))}
    BY <1>8 DEF Arith_64
  <2> QED  BY <2>1, <1>2, <1>3, <1>4
<1>9. CASE i.op \in {"slt", "sltu"}
  <2>1. Arith_64(x, i) \in {Gpr(x, i.rd, 0), Gpr(x, i.rd, 1)}
    BY <1>9 DEF Arith_64, Bool
  <2> QED  BY <2>1, <1>2
<1>10. CASE i.op \in {"movn", "movz"}
  <2>1. Arith_64(x, i) \in {Gpr(x, i.rd, rs), Gpr(x, i.rd, old)}
    BY <1>10 DEF Arith_64
  <2> QED  BY <2>1, <1>1, <1>2
<1>11. CASE i.op \notin {"addu", "subu", "and", "or", "xor", "nor", "slt", "sltu", "movn", "movz"}
  <2>1. Arith_64(x, i) \in {Stop(x, "exit"), Stop(x, "abort"), Adv(x)}
    BY <1>11 DEF Arith_64
  <2> QED  BY <2>1, <1>6
<1> QED  BY <1>7, <1>8, <1>9, <1>10, <1>11

LEMMA ImmediateStraight64 ==
    ASSUME NEW x \in States(DW), NEW i, Ready(i), i.op \in ImmediateOps
    PROVE  Straight(x, Immediate_64(x, i))
<1> DEFINE rs == x.gpr[i.rs]
           simm == S(i.imm, HW)
<1>1. rs \in Int /\ simm \in Int /\ i.imm \in Int /\ i.rt \in Registers /\ 2^HW \in Int
  BY Reads, Fields, Powers
<1>2. \A v \in Int : Straight(x, Gpr(x, i.rt, v))
  BY <1>1, GprStraight
<1>3. (rs & i.imm) \in Int /\ (rs | i.imm) \in Int /\ (rs ^^ i.imm) \in Int
  BY <1>1, BitwiseInt
<1>4. CASE i.op \in {"addi", "addiu"}
  <2>1. Immediate_64(x, i) = Gpr(x, i.rt, rs + simm) /\ rs + simm \in Int
    BY <1>1, <1>4 DEF Immediate_64
  <2> QED  BY <2>1, <1>2
<1>5. CASE i.op \in {"slti", "sltiu"}
  <2>1. Immediate_64(x, i) \in {Gpr(x, i.rt, 0), Gpr(x, i.rt, 1)}
    BY <1>5 DEF Immediate_64, Bool
  <2> QED  BY <2>1, <1>2
<1>6. CASE i.op \in {"andi", "ori", "xori"}
  <2>1. Immediate_64(x, i) \in {Gpr(x, i.rt, rs & i.imm), Gpr(x, i.rt, rs | i.imm), Gpr(x, i.rt, rs ^^ i.imm)}
    BY <1>6 DEF Immediate_64
  <2> QED  BY <2>1, <1>2, <1>3
<1>7. CASE i.op = "lui"
  <2>1. Immediate_64(x, i) = Gpr(x, i.rt, u32toi64(i.imm * 2^HW))
    BY <1>7 DEF Immediate_64
  <2>2. i.imm * 2^HW \in Int
    BY <1>1
  <2>3. u32toi64(i.imm * 2^HW) \in Int
    BY <2>2, ExtInt DEF u32toi64
  <2> QED  BY <2>1, <2>3, <1>2
<1> QED  BY <1>4, <1>5, <1>6, <1>7 DEF ImmediateOps

LEMMA CoprocessorsStraight64 ==
    ASSUME FpuTotal, NEW x \in States(DW), NEW i, Ready(i)
    PROVE  Straight(x, Coproc0_64(x, i)) /\ Straight(x, execCoproc1_64(x, i))
<1>1. /\ i.rt \in Registers /\ i.rd \in Registers /\ x.gpr[i.rt] \in Int /\ x.cpr0[i.rd] \in Int
      /\ x.cpr1[i.rd] \in Int /\ U(x.gpr[i.rt], WW) \in Unsigned(WW)
  BY Reads, Fields, URanges
<1>2. /\ Straight(x, Gpr(x, i.rt, x.cpr0[i.rd])) /\ Straight(x, Gpr(x, i.rt, x.cpr1[i.rd]))
      /\ Straight(x, Adv([x EXCEPT !.cpr0[i.rd] = U(x.gpr[i.rt], WW)]))
      /\ Straight(x, Adv([x EXCEPT !.cpr1[i.rd] = U(x.gpr[i.rt], WW)]))
  BY <1>1, GprStraight, SetCpr, ThenAdv
<1>3. Straight(x, Stop(x, "exit"))
  BY StopStraight
<1>4. Straight(x, Coproc0_64(x, i))
  BY <1>2, <1>3 DEF Coproc0_64
<1>5. Straight(x, _mfc1_64(x, i)) /\ Straight(x, _mtc1_64(x, i))
  BY <1>2 DEF _mfc1_64, _mtc1_64
<1>6. i.op \in FpOps => Straight(x, execFP_64(x, i))
  BY Operands, ArithmeticStraight DEF execFP_64
<1>7. Straight(x, fpCmp_64(x, i)) /\ Straight(x, _truncw_64(x, i)) /\ Straight(x, Convert_64(x, i))
      /\ (i.op \in {"fmovn", "fmovz", "fmovc"} => Straight(x, Moves_64(x, i)))
  BY CompareStraight, ConvertStraight, MovesStraight
<1>8. Straight(x, execCoproc1_64(x, i))
  BY <1>3, <1>5, <1>6, <1>7 DEF execCoproc1_64, FpOps
<1> QED  BY <1>4, <1>8

LEMMA LoadsStraight64 ==
    ASSUME NEW x \in States(DW), NEW i, Ready(i)
    PROVE  /\ Straight(x, _lw_64(x, i)) /\ Straight(x, _lh_64(x, i)) /\ Straight(x, _lb_64(x, i))
           /\ Straight(x, _lbu_64(x, i)) /\ Straight(x, _lhu_64(x, i))
<1> DEFINE a == generateEA(x, i)
<1>1. a \in Int /\ i.rt \in Registers /\ x.mem \in Memories /\ x.w = DW /\ EA(x, i) \in Int
  <2>1. x.gpr[i.rs] + S(i.imm, HW) \in Int
    BY Reads, Fields
  <2> QED  BY <2>1, URanges, Reads, Fields, AddressRange DEF generateEA
<1> HIDE DEF a
<1>2. \A k \in 0 .. 8, b \in Int : Load(x.mem, b, k) \in Int /\ get(x.mem, b, k) \in Int
  <2> TAKE k \in 0 .. 8, b \in Int
  <2>1. Load(x.mem, b, k) \in Nat /\ get(x.mem, b, k) \in Nat
    BY <1>1, LoadRange, GetRange
  <2> QED  BY <2>1
<1>3. /\ Load(x.mem, a, 4) \in Int /\ Load(x.mem, a, 2) \in Int /\ get(x.mem, a, 1) \in Int
      /\ Load(x.mem, EA(x, i), 2) \in Int /\ get(x.mem, EA(x, i), 1) \in Int
  <2>1. 1 \in 0 .. 8 /\ 2 \in 0 .. 8 /\ 4 \in 0 .. 8
    OBVIOUS
  <2> QED  BY <2>1, <1>1, <1>2, Zenon
<1>4. S(Load(x.mem, a, 4), WW) \in Int /\ S(Load(x.mem, a, 2), HW) \in Int /\ S(get(x.mem, a, 1), ByteBits) \in Int
  BY <1>3, SInts
<1>5. \A v \in Int : Straight(x, Bounded(x, a, Gpr(x, i.rt, v)))
  <2> TAKE v \in Int
  <2>1. Straight(x, Gpr(x, i.rt, v)) /\ Straight(x, Stop(x, "signal"))
    BY <1>1, GprStraight, StopStraight
  <2> QED  BY <2>1 DEF Bounded
<1>6. Straight(x, _lw_64(x, i)) /\ Straight(x, _lh_64(x, i)) /\ Straight(x, _lb_64(x, i))
  BY <1>4, <1>5 DEF _lw_64, _lh_64, _lb_64, a
<1>7. \A v \in Int : Straight(x, KeepHigh(x, i.rt, v))
  <2> TAKE v \in Int
  <2>1. LowWord(x.gpr[i.rt], v) \in Unsigned(DW)
    BY <1>1, Reads, LowWordRange
  <2>2. SameControl(x, [x EXCEPT !.gpr[i.rt] = LowWord(x.gpr[i.rt], v)])
    BY <2>1, <1>1, SetGpr
  <2> QED  BY <2>2, ThenAdv DEF KeepHigh
<1>8. Straight(x, _lbu_64(x, i)) /\ Straight(x, _lhu_64(x, i))
  BY <1>3, <1>7 DEF _lbu_64, _lhu_64
<1> QED  BY <1>6, <1>8

LEMMA StoresStraight64 ==
    ASSUME NEW x \in States(DW), NEW i, Ready(i)
    PROVE  /\ Straight(x, _sw_64(x, i)) /\ Straight(x, _sc_64(x, i))
           /\ Straight(x, _sh_64(x, i)) /\ Straight(x, _sb_64(x, i))
<1> DEFINE a == generateEA(x, i)
<1>1. a \in Nat /\ i.rt \in Registers /\ x.w = DW /\ EA(x, i) \in Nat /\ x.gpr[i.rt] \in Nat /\ x.gpr[i.rt] \in Int
  <2>1. x.gpr[i.rs] + S(i.imm, HW) \in Int
    BY Reads, Fields
  <2> QED  BY <2>1, URanges, Reads, Fields, AddressRange DEF generateEA
<1> HIDE DEF a
<1>2. Straight(x, _sw_64(x, i))
  <2> DEFINE v == bswap(x.gpr[i.rt], 8)
  <2>1. v \in Int
    <3>1. \A k \in 0 .. 8 : bswap(x.gpr[i.rt], k) \in Nat
      BY <1>1, SwapRange
    <3> QED  BY <3>1
  <2> HIDE DEF v
  <2>2. Straight(x, Adv([x EXCEPT !.mem = set(@, a, 4, v)])) /\ Straight(x, Stop(x, "signal"))
    <3>1. \A k \in 0 .. 8 : Straight(x, Adv([x EXCEPT !.mem = set(@, a, k, v)]))
      BY <2>1, <1>1, StoreByte
    <3> QED  BY <3>1, StopStraight
  <2>3. _sw_64(x, i) = Bounded(x, a, Adv([x EXCEPT !.mem = set(@, a, 4, v)]))
    BY DEF _sw_64, a, v
  <2> QED  BY <2>2, <2>3 DEF Bounded
<1>3. Straight(x, _sc_64(x, i))
  <2> DEFINE y == _sw_64(x, i)
  <2>1. Straight(x, y) /\ y \in States(DW)
    BY <1>1, <1>2 DEF Straight
  <2>3. _sc_64(x, i) = [y EXCEPT !.gpr[i.rt] = 1]
    BY DEF _sc_64
  <2> HIDE DEF y
  <2>2. SameControl(y, [y EXCEPT !.gpr[i.rt] = 1]) /\ y.w = DW
    <3>1. 1 \in Unsigned(DW)
      BY Unsigneds
    <3> QED  BY <2>1, <1>1, <3>1, SetGpr, Reads
  <2> QED  BY <1>1, <2>1, <2>2, <2>3 DEF Straight, SameControl
<1>4. Straight(x, _sh_64(x, i))
  BY <1>1, MemStraight DEF _sh_64
<1>5. Straight(x, _sb_64(x, i))
  <2>1. U(x.gpr[i.rt], ByteBits) \in Int
    BY <1>1, URanges DEF Unsigned
  <2> QED  BY <2>1, <1>1, StoreByte DEF _sb_64
<1> QED  BY <1>2, <1>3, <1>4, <1>5

LEMMA UnalignedStraight64 ==
    ASSUME NEW x \in States(DW), NEW i, Ready(i)
    PROVE  /\ Straight(x, _swl_64(x, i)) /\ Straight(x, _swr_64(x, i))
           /\ Straight(x, _lwl_64(x, i)) /\ Straight(x, _lwr_64(x, i))
<1> DEFINE old == OldWord(x, i)
           rt == x.gpr[i.rt]
           low == U(rt, WW)
           k == ma(x, i)
<1>1. old \in Int /\ rt \in Int /\ k \in 0 .. 3 /\ i.rt \in Registers /\ Aligned(x, i) \in Nat /\ i.u \in {0, 1}
  BY AddressRange, Reads, Fields
<1>0. low \in Int
  BY <1>1, URanges
<1>2. 4 - k \in 0 .. 4 /\ 3 - k \in 0 .. 4 /\ k + 1 \in 0 .. 4 /\ 4 - (k + 1) \in 0 .. 4 /\ k \in 0 .. 4
  BY <1>1
<1> HIDE DEF old, rt, k, low
<1>3. ASSUME NEW j \in 0 .. 4
      PROVE  /\ Low(j) \in Int /\ High(j) \in Int /\ Shl1(ByteBits * j, i.u) - 1 \in Int
             /\ low \div 2^(ByteBits * j) \in Int /\ old \div 2^(ByteBits * j) \in Int
             /\ U(rt * 2^(ByteBits * j), WW) \in Int /\ U(old * 2^(ByteBits * j), WW) \in Int
  <2>1. 2^(ByteBits * j) \in Nat /\ 2^(ByteBits * j) >= 1
    BY LowRange
  <2>2. low \div 2^(ByteBits * j) \in Int /\ old \div 2^(ByteBits * j) \in Int
    BY <1>0, <1>1, <2>1, DivMod
  <2>3. rt * 2^(ByteBits * j) \in Int /\ old * 2^(ByteBits * j) \in Int
    BY <1>1, <2>1
  <2>4. U(rt * 2^(ByteBits * j), WW) \in Int /\ U(old * 2^(ByteBits * j), WW) \in Int
    BY <2>3, URanges
  <2> QED  BY <2>2, <2>4, <1>1, LowRange
<1>4. Straight(x, _swl_64(x, i))
  <2> DEFINE v == (old & Inv(Shl1(ByteBits * (4 - k), i.u) - 1, WW)) | (low \div 2^(ByteBits * k))
  <2>1. _swl_64(x, i) = Mem(x, Aligned(x, i), 4, v)
    BY DEF _swl_64, old, rt, k, low
  <2>2. v \in Int
    <3>1. Inv(Shl1(ByteBits * (4 - k), i.u) - 1, WW) \in Int /\ low \div 2^(ByteBits * k) \in Int
      BY <1>2, <1>3, InvInt
    <3> QED  BY <3>1, <1>1, BitwiseInt
  <2> HIDE DEF v
  <2> QED  BY <2>1, <2>2, <1>1, MemStraight
<1>5. Straight(x, _swr_64(x, i))
  <2> DEFINE v == U(rt * 2^(ByteBits * (3 - k)), WW) | (Low(3 - k) & old)
  <2>1. _swr_64(x, i) = Mem(x, Aligned(x, i), 4, v)
    BY DEF _swr_64, old, rt, k
  <2>2. v \in Int
    <3>1. U(rt * 2^(ByteBits * (3 - k)), WW) \in Int /\ Low(3 - k) \in Int
      BY <1>2, <1>3
    <3> QED  BY <3>1, <1>1, BitwiseInt
  <2> HIDE DEF v
  <2> QED  BY <2>1, <2>2, <1>1, MemStraight
<1>6. Straight(x, _lwl_64(x, i))
  <2> DEFINE v == U(old * 2^(ByteBits * k), WW) | (low & Low(k))
  <2>1. _lwl_64(x, i) = Gpr(x, i.rt, u32toi64(v))
    BY DEF _lwl_64, old, rt, k, low
  <2>2. v \in Int
    <3>1. U(old * 2^(ByteBits * k), WW) \in Int /\ Low(k) \in Int
      BY <1>2, <1>3
    <3> QED  BY <3>1, <1>0, BitwiseInt
  <2> HIDE DEF v
  <2>3. u32toi64(v) \in Int
    BY <2>2, ExtInt DEF u32toi64
  <2> QED  BY <2>1, <2>3, <1>1, GprStraight
<1>7. Straight(x, _lwr_64(x, i))
  <2> DEFINE v == (low & High(k + 1)) | (old \div 2^(ByteBits * (4 - (k + 1))))
  <2>1. _lwr_64(x, i) = Gpr(x, i.rt, v)
    BY DEF _lwr_64, old, rt, k, low
  <2>2. v \in Int
    <3>1. old \div 2^(ByteBits * (4 - (k + 1))) \in Int /\ High(k + 1) \in Int
      BY <1>2, <1>3
    <3> QED  BY <3>1, <1>0, BitwiseInt
  <2> HIDE DEF v
  <2> QED  BY <2>1, <2>2, <1>1, GprStraight
<1> QED  BY <1>4, <1>5, <1>6, <1>7

LEMMA LoadStoreStraight64 ==
    ASSUME NEW x \in States(DW), NEW i, Ready(i)
    PROVE  Straight(x, LoadStore_64(x, i))
<1>1. Straight(x, Stop(x, "exit"))
  BY StopStraight
<1>2. i.op \in {"lwc1", "ldc1", "swc1", "sdc1"} => Straight(x, FpMemory_64(x, i))
  BY Coproc1Memory DEF FpMemory_64, _lwc1, _swc1
<1> QED  BY <1>1, <1>2, LoadsStraight64, StoresStraight64, UnalignedStraight64 DEF LoadStore_64

LEMMA BranchIs64 ==
    ASSUME NEW x \in States(DW), NEW i, Ready(i), i.op \in BranchOps
    PROVE  \/ i.op \in Likely /\ Skipped(x, branch_64(x, i))
           \/ \E taken \in BOOLEAN : Entered(x, branch_64(x, i), taken, BranchTarget(x, i), 0)
              /\ (i.op \in Likely => taken)
<1> DEFINE taken == takeBranch(x, i)
<1>1. branch_64(x, i) = IF i.op \in Likely /\ ~taken THEN Adv(Adv(x)) ELSE Slot(x, taken, BranchTarget(x, i), 0)
  BY DEF branch_64, BranchTarget
<1>2. taken \in BOOLEAN
  BY TakenBoolean
<1>3. BranchTarget(x, i) \in Unsigned(WW)
  <2> DEFINE npc == U(x.pc + 4, WW)
  <2>1. npc \in Int
    BY Reads, URanges
  <2> HIDE DEF npc
  <2>2. S(i.imm, HW) * 4 + npc \in Int
    BY <2>1, Fields
  <2> QED  BY <2>1, <2>2, URanges DEF BranchTarget, npc
<1>4. 0 \in Unsigned(WW)
  BY Unsigneds
<1>5. SameControl(x, x)
  BY Reads DEF SameControl
<1> HIDE DEF taken
<1>6. CASE i.op \in Likely /\ ~taken
  BY <1>1, <1>6, SkipIs
<1>7. CASE ~(i.op \in Likely /\ ~taken)
  <2>1. Entered(x, branch_64(x, i), taken, BranchTarget(x, i), 0)
    BY <1>1, <1>2, <1>3, <1>4, <1>5, <1>7, SlotEnters
  <2> QED  BY <2>1, <1>2, <1>4, <1>7
<1> QED  BY <1>6, <1>7

LEMMA MonitorReturns64 ==
    ASSUME NEW x \in States(DW), x.st = "run", NEW i, Ready(i)
    PROVE  Returned(x, _monitorBody_64(x, i))
<1> DEFINE a0 == x.gpr[R_a0]
           a1 == x.gpr[R_a1]
           V0(v) == [x EXCEPT !.gpr[R_v0] = U(v, x.w)]
           reason == i.imm \div 2
           narrow == [x EXCEPT !.gpr = [r \in DOMAIN @ |-> U(@[r], WW)]]
<1>1. a0 \in Int /\ a0 \in Nat /\ a1 \in Nat /\ a1 \in Int /\ i.h \in Int /\ x.mem \in Memories /\ x.w = DW
  BY Reads, Fields DEF R_a0, R_a1, Registers
<1>2. \A y : Called(x, y) => Returned(x, Back(y))
  BY ReturnFrom
<1>3. Returned(x, Back(Stop(x, "exit")))
  BY StopReturned
<1>0. _monitorBody_64(x, i) = Back(SystemCall_64(x, i))
  BY DEF _monitorBody_64
<1>4. \A v \in Int : U(v, DW) \in Unsigned(DW) /\ V0(v) = Answer(x, U(v, DW), x.mem)
  <2> TAKE v \in Int
  <2>1. U(v, DW) \in Unsigned(DW)
    BY URanges
  <2>2. V0(v) = [x EXCEPT !.gpr[R_v0] = U(v, DW)]
    BY <1>1
  <2>3. [x EXCEPT !.gpr[R_v0] = U(v, DW)] = Answer(x, U(v, DW), x.mem)
    BY DEF Answer, States
  <2> QED  BY <2>1, <2>2, <2>3
<1>5. \A m \in Memories, v \in Unsigned(DW) : Called(x, Answer(x, v, m))
  BY CallIs
<1>6. \A m \in Memories, v \in Int : Called(x, Answer(x, U(v, DW), m)) /\ Called(x, V0(v))
  BY <1>1, <1>4, <1>5
<1>7. \A m \in Memories, v \in Int : [V0(v) EXCEPT !.mem = m] = Answer(x, U(v, DW), m)
  BY <1>1 DEF Answer, States
<1>8. U(a0, WW) \in Nat /\ U(a1, WW) \in Nat /\ a0 + 4 \in Int /\ a0 + 8 \in Int
  BY <1>1, URanges
<1>9. narrow.mem = x.mem /\ narrow.gpr[R_a0] \in Int
  <2>1. U(x.gpr[R_a0], WW) \in Int
    BY <1>1, URanges
  <2>2. R_a0 \in DOMAIN x.gpr
    BY DEF States, R_a0, Registers
  <2> QED  BY <2>1, <2>2 DEF States
<1> HIDE DEF narrow
<1>10. CASE reason \in {6, 8, 9, 38}
  <2>1. SystemCall_64(x, i) = V0(i.h)
    BY <1>10 DEF SystemCall_64
  <2> HIDE DEF V0
  <2> QED  BY <2>1, <1>0, <1>1, <1>2, <1>6
<1>11. CASE reason = 7
  <2> DEFINE bytes == SubSeq(HostBytes, 1, IF i.h < 0 THEN 0 ELSE i.h)
             m == PutBytes(x.mem, a1, bytes)
  <2>1. per_page_read(x, i.h).mem = m
    BY DEF per_page_read, States
  <2>2. SystemCall_64(x, i) = Answer(x, U(i.h, DW), m)
    <3>1. SystemCall_64(x, i) = [x EXCEPT !.gpr[R_v0] = U(i.h, x.w), !.mem = per_page_read(x, i.h).mem]
      BY <1>11 DEF SystemCall_64
    <3> HIDE DEF m
    <3> QED  BY <3>1, <2>1, <1>1 DEF Answer
  <2>3. bytes \in Seq(Unsigned(ByteBits))
    BY IssAssumption, <1>1 DEF Ready
  <2> HIDE DEF bytes
  <2>4. m \in Memories
    BY <2>3, <1>1, PutRange
  <2> HIDE DEF m
  <2> QED  BY <2>2, <2>4, <1>0, <1>1, <1>2, <1>6
<1>12. CASE reason = 10
  <2>1. SystemCall_64(x, i) \in {V0(i.h), V0(0)}
    BY <1>12 DEF SystemCall_64
  <2> HIDE DEF V0
  <2> QED  BY <2>1, <1>0, <1>1, <1>2, <1>6
<1>13. CASE reason = 13
  <2> DEFINE m == PutBytes(x.mem, U(a1, WW), HostBytes)
  <2>1. SystemCall_64(x, i) = fstat(x, i.h)
    BY <1>13 DEF SystemCall_64
  <2>2. fstat(x, i.h) = Answer(x, U(i.h, DW), m)
    BY <1>1 DEF fstat, Answer
  <2>3. m \in Memories
    BY <1>1, <1>8, IssAssumption, PutRange
  <2> HIDE DEF m
  <2> QED  BY <2>1, <2>2, <2>3, <1>0, <1>1, <1>2, <1>6
<1>14. CASE reason = 33
  <2> DEFINE z == set(x.mem, U(a0, WW), 4, 0)
             m == Store(z, U(a0 + 4, WW), 4, i.h)
  <2>1. SystemCall_64(x, i) = gettimeofday(x, i.h)
    BY <1>14 DEF SystemCall_64
  <2>2. gettimeofday(x, i.h) = Answer(x, 0, m)
    BY DEF gettimeofday, Answer
  <2>3. z \in Memories
    <3>1. \A k \in 0 .. 8, v \in Int : set(x.mem, U(a0, WW), k, v) \in Memories
      BY <1>1, <1>8, SetRange
    <3>2. 4 \in 0 .. 8 /\ 0 \in Int
      OBVIOUS
    <3> QED  BY <3>1, <3>2, Zenon
  <2> HIDE DEF z
  <2>4. U(a0 + 4, WW) \in Nat
    BY <1>8, URanges
  <2>5. m \in Memories
    BY <2>3, <2>4, <1>1, StoreRange
  <2> HIDE DEF m
  <2>6. 0 \in Unsigned(DW)
    BY Unsigneds
  <2>7. Called(x, SystemCall_64(x, i))
    BY <2>1, <2>2, <2>5, <2>6, <1>5, Zenon
  <2> QED  BY <2>7, <1>0, <1>2
<1>15. CASE reason = 34
  <2> DEFINE m == Zeroed(x.mem, {a0 + 4 * k : k \in 0 .. 3})
  <2>1. SystemCall_64(x, i) = times(x)
    BY <1>15 DEF SystemCall_64
  <2>2. times(x) = [x EXCEPT !.mem = m]
    BY DEF times
  <2>3. {a0 + 4 * k : k \in 0 .. 3} \in SUBSET Int
    BY <1>1
  <2>4. m \in Memories
    BY <2>3, <1>1, ZeroedRange
  <2> HIDE DEF m
  <2>5. Called(x, [x EXCEPT !.mem = m])
    BY <2>4, CallIs, Unsigneds
  <2> QED  BY <2>1, <2>2, <2>5, <1>0, <1>2
<1>16. CASE reason = 35
  <2>1. PICK m \in Memories : getargs(narrow) = [narrow EXCEPT !.mem = m, !.gpr[R_v0] = sysArgc]
    BY <1>1, <1>9, GetargsIs
  <2>2. getargs(narrow).mem = m
    BY <2>1 DEF narrow, States
  <2>3. SystemCall_64(x, i) = [V0(sysArgc) EXCEPT !.mem = getargs(narrow).mem]
    BY <1>16 DEF SystemCall_64, narrow
  <2>4. sysArgc \in Int
    BY ArgvIs
  <2>5. SystemCall_64(x, i) = Answer(x, U(sysArgc, DW), m)
    <3>1. SystemCall_64(x, i) = [V0(sysArgc) EXCEPT !.mem = m]
      BY <2>2, <2>3
    <3> HIDE DEF V0
    <3> QED  BY <3>1, <2>4, <1>7
  <2>6. Called(x, SystemCall_64(x, i))
    BY <2>4, <2>5, <1>6
  <2> QED  BY <2>6, <1>0, <1>2
<1>17. CASE reason = 37
  <2> DEFINE m == IF Len(HostBytes) < U(a1, WW) THEN PutBytes(x.mem, U(a0, WW), Append(HostBytes, 0)) ELSE x.mem
  <2>1. SystemCall_64(x, i) = Answer(x, U(a0, DW), m)
    <3>1. SystemCall_64(x, i) = [V0(a0) EXCEPT !.mem =
             IF Len(HostBytes) < U(x.gpr[R_a1], WW) THEN PutBytes(@, U(a0, WW), Append(HostBytes, 0)) ELSE @]
      BY <1>17 DEF SystemCall_64
    <3>2. V0(a0).mem = x.mem
      BY DEF States
    <3>3. SystemCall_64(x, i) = [V0(a0) EXCEPT !.mem = m]
      BY <3>1, <3>2
    <3> HIDE DEF m
    <3> QED  BY <3>3, <1>1 DEF Answer, States
  <2>2. Append(HostBytes, 0) \in Seq(Unsigned(ByteBits))
    BY IssAssumption, Unsigneds
  <2>3. m \in Memories
    BY <2>2, <1>1, <1>8, PutRange
  <2> HIDE DEF m
  <2>4. Called(x, SystemCall_64(x, i))
    BY <2>1, <2>3, <1>1, <1>6
  <2> QED  BY <2>4, <1>0, <1>2
<1>18. CASE reason = 55
  <2> DEFINE z == Zeroed(x.mem, {a0 + 4, a0 + 8})
             m == Store(z, U(a0, WW), 4, 2^(WW - 1))
  <2>1. SystemCall_64(x, i) = [V0(0) EXCEPT !.mem =
                               Store(ZeroWords(narrow, {a0 + 4, a0 + 8}).mem, U(a0, WW), 4, 2^(WW - 1))]
    BY <1>18 DEF SystemCall_64, narrow
  <2>2. ZeroWords(narrow, {a0 + 4, a0 + 8}).mem = z
    BY <1>9 DEF ZeroWords, narrow, States
  <2>3. {a0 + 4, a0 + 8} \in SUBSET Int /\ 2^(WW - 1) \in Int
    BY <1>8, PowPos, Widths
  <2>4. z \in Memories
    BY <2>3, <1>1, ZeroedRange
  <2> HIDE DEF z
  <2>5. m \in Memories
    BY <2>3, <2>4, <1>8, StoreRange
  <2>6. SystemCall_64(x, i) = [V0(0) EXCEPT !.mem = m]
    BY <2>1, <2>2
  <2> HIDE DEF m
  <2>7. SystemCall_64(x, i) = Answer(x, U(0, DW), m)
    BY <2>6, <1>1 DEF Answer, States
  <2>8. Called(x, SystemCall_64(x, i))
    <3>1. 0 \in Int
      OBVIOUS
    <3> HIDE DEF V0
    <3> QED  BY <3>1, <2>5, <2>7, <1>6, Zenon
  <2> QED  BY <2>8, <1>0, <1>2
<1>19. CASE reason \notin {6, 7, 8, 9, 10, 13, 33, 34, 35, 37, 38, 55}
  <2>1. SystemCall_64(x, i) = Stop(x, "exit")
    BY <1>19 DEF SystemCall_64
  <2> QED  BY <2>1, <1>0, <1>3
<1> QED  BY <1>10, <1>11, <1>12, <1>13, <1>14, <1>15, <1>16, <1>17, <1>18, <1>19

\* The groups of opcodes have nothing in common.
LEMMA OneGroup ==
    /\ \A op \in ShiftOps : op \notin BreakOps \cup MulDivOps \cup ArithOps \cup Special2Ops \cup Special3Ops \cup JumpOps \cup RegJumpOps \cup Coproc0Ops \cup Coproc1Ops \cup Coproc1xOps \cup ImmediateOps \cup BranchOps \cup MemoryOps
    /\ \A op \in BreakOps : op \notin MulDivOps \cup ArithOps \cup Special2Ops \cup Special3Ops \cup JumpOps \cup RegJumpOps \cup Coproc0Ops \cup Coproc1Ops \cup Coproc1xOps \cup ImmediateOps \cup BranchOps \cup MemoryOps
    /\ \A op \in MulDivOps : op \notin ArithOps \cup Special2Ops \cup Special3Ops \cup JumpOps \cup RegJumpOps \cup Coproc0Ops \cup Coproc1Ops \cup Coproc1xOps \cup ImmediateOps \cup BranchOps \cup MemoryOps
    /\ \A op \in ArithOps : op \notin Special2Ops \cup Special3Ops \cup JumpOps \cup RegJumpOps \cup Coproc0Ops \cup Coproc1Ops \cup Coproc1xOps \cup ImmediateOps \cup BranchOps \cup MemoryOps
    /\ \A op \in Special2Ops : op \notin Special3Ops \cup JumpOps \cup RegJumpOps \cup Coproc0Ops \cup Coproc1Ops \cup Coproc1xOps \cup ImmediateOps \cup BranchOps \cup MemoryOps
    /\ \A op \in Special3Ops : op \notin JumpOps \cup RegJumpOps \cup Coproc0Ops \cup Coproc1Ops \cup Coproc1xOps \cup ImmediateOps \cup BranchOps \cup MemoryOps
    /\ \A op \in JumpOps : op \notin RegJumpOps \cup Coproc0Ops \cup Coproc1Ops \cup Coproc1xOps \cup ImmediateOps \cup BranchOps \cup MemoryOps
    /\ \A op \in RegJumpOps : op \notin Coproc0Ops \cup Coproc1Ops \cup Coproc1xOps \cup ImmediateOps \cup BranchOps \cup MemoryOps
    /\ \A op \in Coproc0Ops : op \notin Coproc1Ops \cup Coproc1xOps \cup ImmediateOps \cup BranchOps \cup MemoryOps
    /\ \A op \in Coproc1Ops : op \notin Coproc1xOps \cup ImmediateOps \cup BranchOps \cup MemoryOps
    /\ \A op \in Coproc1xOps : op \notin ImmediateOps \cup BranchOps \cup MemoryOps
    /\ \A op \in ImmediateOps : op \notin BranchOps \cup MemoryOps
    /\ \A op \in BranchOps : op \notin MemoryOps
<1>1. \A op \in ShiftOps : op \notin BreakOps \cup MulDivOps \cup ArithOps \cup Special2Ops \cup Special3Ops \cup JumpOps \cup RegJumpOps \cup Coproc0Ops \cup Coproc1Ops \cup Coproc1xOps \cup ImmediateOps \cup BranchOps \cup MemoryOps
  BY DEF ShiftOps, BreakOps, MulDivOps, ArithOps, Special2Ops, Special3Ops, JumpOps, RegJumpOps, Coproc0Ops, Coproc1Ops, Coproc1xOps, ImmediateOps, BranchOps, MemoryOps, FpOps, Likely
<1>2. \A op \in BreakOps : op \notin MulDivOps \cup ArithOps \cup Special2Ops \cup Special3Ops \cup JumpOps \cup RegJumpOps \cup Coproc0Ops \cup Coproc1Ops \cup Coproc1xOps \cup ImmediateOps \cup BranchOps \cup MemoryOps
  BY DEF BreakOps, MulDivOps, ArithOps, Special2Ops, Special3Ops, JumpOps, RegJumpOps, Coproc0Ops, Coproc1Ops, Coproc1xOps, ImmediateOps, BranchOps, MemoryOps, FpOps, Likely
<1>3. \A op \in MulDivOps : op \notin ArithOps \cup Special2Ops \cup Special3Ops \cup JumpOps \cup RegJumpOps \cup Coproc0Ops \cup Coproc1Ops \cup Coproc1xOps \cup ImmediateOps \cup BranchOps \cup MemoryOps
  BY DEF MulDivOps, ArithOps, Special2Ops, Special3Ops, JumpOps, RegJumpOps, Coproc0Ops, Coproc1Ops, Coproc1xOps, ImmediateOps, BranchOps, MemoryOps, FpOps, Likely
<1>4. \A op \in ArithOps : op \notin Special2Ops \cup Special3Ops \cup JumpOps \cup RegJumpOps \cup Coproc0Ops \cup Coproc1Ops \cup Coproc1xOps \cup ImmediateOps \cup BranchOps \cup MemoryOps
  BY DEF ArithOps, Special2Ops, Special3Ops, JumpOps, RegJumpOps, Coproc0Ops, Coproc1Ops, Coproc1xOps, ImmediateOps, BranchOps, MemoryOps, FpOps, Likely
<1>5. \A op \in Special2Ops : op \notin Special3Ops \cup JumpOps \cup RegJumpOps \cup Coproc0Ops \cup Coproc1Ops \cup Coproc1xOps \cup ImmediateOps \cup BranchOps \cup MemoryOps
  BY DEF Special2Ops, Special3Ops, JumpOps, RegJumpOps, Coproc0Ops, Coproc1Ops, Coproc1xOps, ImmediateOps, BranchOps, MemoryOps, FpOps, Likely
<1>6. \A op \in Special3Ops : op \notin JumpOps \cup RegJumpOps \cup Coproc0Ops \cup Coproc1Ops \cup Coproc1xOps \cup ImmediateOps \cup BranchOps \cup MemoryOps
  BY DEF Special3Ops, JumpOps, RegJumpOps, Coproc0Ops, Coproc1Ops, Coproc1xOps, ImmediateOps, BranchOps, MemoryOps, FpOps, Likely
<1>7. \A op \in JumpOps : op \notin RegJumpOps \cup Coproc0Ops \cup Coproc1Ops \cup Coproc1xOps \cup ImmediateOps \cup BranchOps \cup MemoryOps
  BY DEF JumpOps, RegJumpOps, Coproc0Ops, Coproc1Ops, Coproc1xOps, ImmediateOps, BranchOps, MemoryOps, FpOps, Likely
<1>8. \A op \in RegJumpOps : op \notin Coproc0Ops \cup Coproc1Ops \cup Coproc1xOps \cup ImmediateOps \cup BranchOps \cup MemoryOps
  BY DEF RegJumpOps, Coproc0Ops, Coproc1Ops, Coproc1xOps, ImmediateOps, BranchOps, MemoryOps, FpOps, Likely
<1>9. \A op \in Coproc0Ops : op \notin Coproc1Ops \cup Coproc1xOps \cup ImmediateOps \cup BranchOps \cup MemoryOps
  BY DEF Coproc0Ops, Coproc1Ops, Coproc1xOps, ImmediateOps, BranchOps, MemoryOps, FpOps, Likely
<1>10. \A op \in Coproc1Ops : op \notin Coproc1xOps \cup ImmediateOps \cup BranchOps \cup MemoryOps
  BY DEF Coproc1Ops, Coproc1xOps, ImmediateOps, BranchOps, MemoryOps, FpOps, Likely
<1>11. \A op \in Coproc1xOps : op \notin ImmediateOps \cup BranchOps \cup MemoryOps
  BY DEF Coproc1xOps, ImmediateOps, BranchOps, MemoryOps, FpOps, Likely
<1>12. \A op \in ImmediateOps : op \notin BranchOps \cup MemoryOps
  BY DEF ImmediateOps, BranchOps, MemoryOps, FpOps, Likely
<1>13. \A op \in BranchOps : op \notin MemoryOps
  BY DEF BranchOps, MemoryOps, FpOps, Likely
<1> QED  BY <1>1, <1>2, <1>3, <1>4, <1>5, <1>6, <1>7, <1>8, <1>9, <1>10, <1>11, <1>12, <1>13, Zenon

LEMMA Outcomes64 ==
    ASSUME FpuTotal, NEW x \in States(DW), x.st = "run", NEW i, Ready(i)
    PROVE  Outcome(x, Handler_64(x, i), i)
<1>0. i.op \in Ops
  BY Fields
<1>1. CASE i.op \in ShiftOps
  <2>0. Handler_64(x, i) = Shifts_64(x, i)
    BY <1>1, OneGroup DEF Handler_64
  <2>1. CASE i.op = "monitor"
    <3>1. Shifts_64(x, i) = _monitorBody_64(x, i)
      BY <2>1 DEF Shifts_64
    <3> QED  BY <2>0, <3>1, <2>1, MonitorReturns64 DEF Outcome
  <2>2. CASE i.op # "monitor"
    BY <1>1, <2>0, <2>2, ShiftsStraight64, GroupsApart DEF Outcome
  <2> QED  BY <2>1, <2>2
<1>2. CASE i.op \in BreakOps \cup MulDivOps
  <2>0. Handler_64(x, i) = MulDiv_64(x, i)
    BY <1>2, OneGroup DEF Handler_64
  <2>1. CASE i.op \in {"break", "syscall"}
    <3>1. MulDiv_64(x, i) = [x EXCEPT !.brk = 1]
      BY <2>1 DEF MulDiv_64
    <3> QED  BY <2>0, <2>1, <3>1, BreakSame DEF Outcome
  <2>2. CASE i.op \notin {"break", "syscall"}
    <3>1. i.op \in MulDivOps \cup {"sync"}
      BY <1>2, <2>2, GroupsApart
    <3>2. i.op \notin Transfers \cup Leaves
      BY <3>1, GroupsApart
    <3> QED  BY <2>0, <3>1, <3>2, MulDivStraight64 DEF Outcome
  <2> QED  BY <2>1, <2>2
<1>3. CASE i.op \in JumpOps
  <2>1. Handler_64(x, i) = JType_64(x, i)
    BY <1>3, OneGroup DEF Handler_64
  <2> QED  BY <1>3, <2>1, JumpIs DEF Outcome
<1>4. CASE i.op \in RegJumpOps
  <2>1. Handler_64(x, i) = JumpRegister_64(x, i)
    BY <1>4, OneGroup DEF Handler_64
  <2> QED  BY <1>4, <2>1, JumpIs DEF Outcome
<1>5. CASE i.op \in BranchOps
  <2>1. Handler_64(x, i) = branch_64(x, i)
    BY <1>5, OneGroup DEF Handler_64
  <2>2. 0 \in Unsigned(WW)
    BY Unsigneds
  <2> QED  BY <1>5, <2>1, <2>2, BranchIs64 DEF Outcome
<1>6. CASE i.op \in ArithOps
  <2>1. Handler_64(x, i) = Arith_64(x, i)
    BY <1>6, OneGroup DEF Handler_64
  <2> QED  BY <1>6, <2>1, ArithStraight64, GroupsApart DEF Outcome
<1>7. CASE i.op \in Special2Ops
  <2>1. Handler_64(x, i) = execSpecial2_64(x, i)
    BY <1>7, OneGroup DEF Handler_64
  <2> QED  BY <1>7, <2>1, Special2Straight64, GroupsApart DEF Outcome
<1>8. CASE i.op \in Special3Ops
  <2>1. Handler_64(x, i) = execSpecial3_64(x, i)
    BY <1>8, OneGroup DEF Handler_64
  <2> QED  BY <1>8, <2>1, Special3Straight64, GroupsApart DEF Outcome
<1>9. CASE i.op \in Coproc0Ops
  <2>1. Handler_64(x, i) = Coproc0_64(x, i)
    BY <1>9, OneGroup DEF Handler_64
  <2> QED  BY <1>9, <2>1, CoprocessorsStraight64, GroupsApart DEF Outcome
<1>10. CASE i.op \in Coproc1Ops
  <2>1. Handler_64(x, i) = execCoproc1_64(x, i)
    BY <1>10, OneGroup DEF Handler_64
  <2> QED  BY <1>10, <2>1, CoprocessorsStraight64, GroupsApart DEF Outcome
<1>11. CASE i.op \in Coproc1xOps
  <2>1. Handler_64(x, i) = execCoproc1x_64(x, i)
    BY <1>11, OneGroup DEF Handler_64
  <2> QED  BY <1>11, <2>1, Coproc1xStraight, GroupsApart DEF Outcome
<1>12. CASE i.op \in ImmediateOps
  <2>1. Handler_64(x, i) = Immediate_64(x, i)
    BY <1>12, OneGroup DEF Handler_64
  <2> QED  BY <1>12, <2>1, ImmediateStraight64, GroupsApart DEF Outcome
<1>13. CASE i.op \in MemoryOps
  <2>1. Handler_64(x, i) = LoadStore_64(x, i)
    BY <1>13, OneGroup DEF Handler_64
  <2> QED  BY <1>13, <2>1, LoadStoreStraight64, GroupsApart DEF Outcome
<1> QED  BY <1>0, <1>1, <1>2, <1>3, <1>4, <1>5, <1>6, <1>7, <1>8, <1>9, <1>10, <1>11, <1>12, <1>13 DEF Ops

-----------------------------------------------------------------------------
(* A step of a program.                                                    *)

LEMMA CountIs ==
    ASSUME NEW w \in {WW, DW}, NEW x \in States(w)
    PROVE  /\ Count(x) \in States(w) /\ Count(x).w = w /\ Count(x).st = x.st /\ Count(x).frames = x.frames
           /\ Count(x).pc = x.pc /\ Count(x).gpr = x.gpr
BY DEF Count, States

LEMMA ExecType ==
    ASSUME NEW w \in {WW, DW}, NEW x \in States(w), NEW y, NEW i, Outcome(Count(x), y, i)
    PROVE  y \in States(w) /\ execMips(x, y) \in States(w)
<1>1. y \in States(w)
  <2>1. Count(x).w = w
    BY CountIs
  <2> QED  BY <2>1 DEF Outcome, Straight, Returned, SameControl, Skipped, Entered
<1>2. Return(y) \in States(w)
  BY <1>1, ReturnIs
<1> QED  BY <1>1, <1>2 DEF execMips

\* Where the architecture goes after the next instruction.
NextOf(x) == IF x.frames # <<>> /\ Head(x.frames).taken THEN Head(x.frames).target ELSE U(x.pc + 4, WW)

\* A step outside a branch, or one in a slot that is no transfer, seen from the
\* architecture: the process stops, goes on, returns, traps, skips a slot, or
\* enters one.
Flows(x, z, i) ==
    \/ z.pc = x.pc /\ z.frames = x.frames
    \/ /\ z.frames = <<>>
       /\ \/ i.op \notin Transfers \cup Leaves /\ z.pc = NextOf(x)
          \/ i.op = "monitor" /\ z.pc \in {x.gpr[R_ra], NextOf(x)}
          \/ i.op \in {"break", "syscall"} /\ z.pc \in {x.pc, NextOf(x)}
          \/ i.op \in Likely /\ x.frames = <<>> /\ z.pc = U(U(x.pc + 4, WW) + 4, WW)
    \/ /\ x.frames = <<>> /\ z.pc = U(x.pc + 4, WW)
       /\ \E f \in Frames :
             /\ z.frames = <<f>>
             /\ \/ i.op \in Transfers /\ f.taken /\ f.target = ArchTarget(i, x.pc, x.gpr)
                \/ i.op \in BranchOps \ Likely /\ ~f.taken

\* What a return leads to when the handler stayed at its depth.
LEMMA ReturnFlow ==
    ASSUME NEW x \in States(WW), NEW y \in States(WW), y.frames = x.frames, y.st = "run", Len(x.frames) \in {0, 1}
    PROVE  /\ Return(y).frames = <<>>
           /\ Return(y).pc = (IF x.frames # <<>> /\ Head(x.frames).taken THEN Head(x.frames).target ELSE y.pc)
<1>1. Return(y).frames = <<>> /\ (Len(y.frames) = 0 => Return(y).pc = y.pc)
      /\ (Len(y.frames) = 1 => Return(y).pc = IF y.frames[1].taken THEN y.frames[1].target ELSE y.pc)
  BY ReturnIs
<1>2. x.frames \in Seq(Frames)
  BY DEF States
<1>3. CASE Len(x.frames) = 0
  <2>1. x.frames = <<>>
    BY <1>2, <1>3
  <2> QED  BY <2>1, <1>1, <1>3
<1>4. CASE Len(x.frames) = 1
  <2> DEFINE fr == x.frames
  <2>1. fr \in Seq(Frames) /\ Len(fr) = 1
    BY <1>2, <1>4
  <2> HIDE DEF fr
  <2>2. fr # <<>>
    BY <2>1, SMTT(40)
  <2>3. Head(fr) = fr[1]
    BY <2>1, <2>2
  <2> QED  BY <2>1, <2>2, <2>3, <1>1 DEF fr
<1> QED  BY <1>3, <1>4

LEMMA TransferTarget ==
    ASSUME NEW x \in States(WW), NEW i, Ready(i)
    PROVE  /\ i.op \in BranchOps => BranchTarget(x, i) = ArchTarget(i, x.pc, x.gpr)
           /\ i.op \in JumpOps => FarTarget(x, i) = ArchTarget(i, x.pc, x.gpr)
           /\ i.op \in RegJumpOps => U(x.gpr[i.rs], WW) = ArchTarget(i, x.pc, x.gpr)
<1> DEFINE slot == (x.pc + 4) % 2^WW
<1>1. slot \in Int /\ U(x.pc + 4, WW) = slot
  <2>1. x.pc + 4 \in Int
    BY Reads
  <2>2. U(x.pc + 4, WW) \in Nat
    BY <2>1, URanges
  <2> QED  BY <2>2 DEF U
<1> HIDE DEF slot
<1>2. ASSUME i.op \in BranchOps PROVE BranchTarget(x, i) = ArchTarget(i, x.pc, x.gpr)
  <2>1. ArchTarget(i, x.pc, x.gpr) = (slot + 4 * S(i.imm, HW)) % 2^WW
    BY <1>2, OneGroup DEF ArchTarget, slot
  <2>2. BranchTarget(x, i) = (S(i.imm, HW) * 4 + slot) % 2^WW
    BY <1>1, Zenon DEF BranchTarget, U
  <2>3. S(i.imm, HW) * 4 + slot = slot + 4 * S(i.imm, HW)
    BY <1>1, Fields
  <2> QED  BY <2>1, <2>2, <2>3
<1>3. ASSUME i.op \in JumpOps PROVE FarTarget(x, i) = ArchTarget(i, x.pc, x.gpr)
  <2>1. ArchTarget(i, x.pc, x.gpr) = (slot \div 2^JumpBits) * 2^JumpBits + (4 * i.tgt)
    BY <1>3, OneGroup DEF ArchTarget, slot
  <2> QED  BY <2>1, <1>1 DEF FarTarget
<1>4. ASSUME i.op \in RegJumpOps PROVE U(x.gpr[i.rs], WW) = ArchTarget(i, x.pc, x.gpr)
  <2>1. ArchTarget(i, x.pc, x.gpr) = x.gpr[i.rs]
    BY <1>4, OneGroup DEF ArchTarget
  <2> QED  BY <2>1, USmall, Reads, Fields
<1> QED  BY <1>2, <1>3, <1>4

LEMMA StepFlows ==
    ASSUME NEW x \in States(WW), x.st = "run", NEW i, Ready(i), NEW y, Outcome(Count(x), y, i),
           Len(x.frames) = 0 \/ (Len(x.frames) = 1 /\ i.op \notin Transfers)
    PROVE  Flows(x, execMips(x, y), i)
<1> DEFINE z == execMips(x, y)
           c == Count(x)
<1> SUFFICES Flows(x, z, i)
  OBVIOUS
<1>1. /\ c \in States(WW) /\ c.w = WW /\ c.st = "run" /\ c.frames = x.frames /\ c.pc = x.pc /\ c.gpr = x.gpr
      /\ y \in States(WW)
  BY CountIs, ExecType
<1> HIDE DEF c
<1>2. x.frames \in Seq(Frames) /\ (Len(x.frames) = 0 => x.frames = <<>>)
  BY DEF States
<1>3. y.frames = x.frames => z = Return(y)
  BY <1>2 DEF execMips
<1>4. y.frames = x.frames /\ y.st # "run" => z = y
  BY <1>1, <1>3, ReturnIs
<1>5. y.frames = x.frames /\ y.st = "run" => z.frames = <<>>
      /\ z.pc = (IF x.frames # <<>> /\ Head(x.frames).taken THEN Head(x.frames).target ELSE y.pc)
  BY <1>1, <1>3, ReturnFlow
<1> HIDE DEF z
<1>6. CASE i.op \notin Transfers \cup Leaves /\ Straight(c, y)
  <2>1. y.frames = x.frames /\ (y.st # "run" => y.pc = x.pc) /\ (y.st = "run" => y.pc = U(x.pc + 4, WW))
    BY <1>1, <1>6 DEF Straight
  <2> QED  BY <2>1, <1>4, <1>5, <1>6 DEF Flows, NextOf
<1>7. CASE i.op = "monitor" /\ Returned(c, y)
  <2>1. y.frames = x.frames /\ (y.st # "run" => y.pc = x.pc) /\ (y.st = "run" => y.pc = x.gpr[R_ra])
    BY <1>1, <1>7 DEF Returned
  <2> QED  BY <2>1, <1>4, <1>5, <1>7 DEF Flows, NextOf
<1>8. CASE i.op \in {"break", "syscall"} /\ SameControl(c, y)
  <2>1. y.frames = x.frames /\ y.pc = x.pc /\ y.st = "run"
    BY <1>1, <1>8 DEF SameControl
  <2> QED  BY <2>1, <1>5, <1>8 DEF Flows, NextOf
<1>9. CASE i.op \in Likely /\ Skipped(c, y)
  <2>1. y.frames = x.frames /\ y.st = "run" /\ y.pc = U(U(x.pc + 4, WW) + 4, WW)
    BY <1>1, <1>9 DEF Skipped
  <2>2. x.frames = <<>>
    BY <1>2, <1>9 DEF Transfers, BranchOps
  <2> QED  BY <2>1, <2>2, <1>5, <1>9 DEF Flows
<1>10. ASSUME NEW taken \in BOOLEAN, NEW target \in Unsigned(WW), NEW link \in Unsigned(WW),
              Entered(c, y, taken, target, link), i.op \in Transfers,
              taken => target = ArchTarget(i, x.pc, x.gpr), ~taken => i.op \in BranchOps \ Likely
       PROVE  Flows(x, z, i)
  <2> DEFINE f == [taken |-> taken, target |-> target, link |-> link]
  <2>1. f \in Frames /\ f.taken = taken /\ f.target = target
    BY DEF Frames
  <2>2. y.frames = <<f>> \o x.frames /\ y.pc = U(x.pc + 4, WW)
    BY <1>1, <1>10 DEF Entered
  <2> HIDE DEF f
  <2>3. x.frames = <<>> /\ y.frames = <<f>>
    <3>1. x.frames = <<>>
      BY <1>2, <1>10
    <3>2. <<f>> \o <<>> = <<f>>
      BY <2>1
    <3> QED  BY <2>2, <3>1, <3>2
  <2>4. z = y
    BY <2>3 DEF z, execMips
  <2> QED  BY <2>1, <2>2, <2>3, <2>4, <1>10 DEF Flows
<1>11. CASE i.op \in BranchOps /\ \E taken \in BOOLEAN, link \in Unsigned(WW) :
                Entered(c, y, taken, BranchTarget(c, i), link) /\ (i.op \in Likely => taken)
  <2>1. PICK taken \in BOOLEAN, link \in Unsigned(WW) :
                Entered(c, y, taken, BranchTarget(c, i), link) /\ (i.op \in Likely => taken)
    BY <1>11
  <2>2. BranchTarget(c, i) = ArchTarget(i, x.pc, x.gpr) /\ BranchTarget(c, i) \in Unsigned(WW)
    <3>1. BranchTarget(c, i) = BranchTarget(x, i)
      BY <1>1 DEF BranchTarget
    <3>2. S(i.imm, HW) * 4 + U(x.pc + 4, WW) \in Int
      <4>1. U(x.pc + 4, WW) \in Int
        BY Reads, URanges
      <4> QED  BY <4>1, Fields
    <3> QED  BY <3>1, <3>2, <1>11, TransferTarget, URanges DEF BranchTarget
  <2> QED  BY <2>1, <2>2, <1>10, <1>11 DEF Transfers
<1>12. CASE i.op \in JumpOps /\ Entered(c, y, TRUE, FarTarget(c, i), 0)
  <2>1. FarTarget(c, i) = ArchTarget(i, x.pc, x.gpr) /\ FarTarget(c, i) \in Unsigned(WW) /\ 0 \in Unsigned(WW)
    <3>1. FarTarget(c, i) = FarTarget(x, i)
      BY <1>1 DEF FarTarget
    <3> QED  BY <3>1, <1>12, TransferTarget, JumpIs, Unsigneds
  <2> QED  BY <2>1, <1>10, <1>12 DEF Transfers
<1>13. CASE i.op \in RegJumpOps /\ Entered(c, y, TRUE, U(c.gpr[i.rs], WW), 0)
  <2>1. U(c.gpr[i.rs], WW) = ArchTarget(i, x.pc, x.gpr) /\ U(c.gpr[i.rs], WW) \in Unsigned(WW) /\ 0 \in Unsigned(WW)
    BY <1>1, <1>13, TransferTarget, JumpIs, Unsigneds
  <2> QED  BY <2>1, <1>10, <1>13 DEF Transfers
<1> QED  BY <1>6, <1>7, <1>8, <1>9, <1>11, <1>12, <1>13 DEF Outcome, c

\* What both interpreters keep: a state of the declared shape, and a program of
\* decoded instructions.
Loaded == \A p \in DOMAIN code : Decoded(code[p])
IInv == s \in States(WW) /\ t \in States(DW) /\ Loaded

LEMMA FetchReady ==
    ASSUME Loaded, NEW x, NEW u \in {0, 1}, NEW h \in Int, h <= Len(HostBytes)
    PROVE  LET i == Fetch(x)
               e == [i EXCEPT !.u = u, !.h = h]
           IN  Ready(e) /\ Decoded(i) /\ e.op = i.op /\ e.rs = i.rs /\ e.rt = i.rt /\ e.imm = i.imm /\ e.tgt = i.tgt
<1> DEFINE i == Fetch(x)
           e == [i EXCEPT !.u = u, !.h = h]
<1>1. Decoded(Nop)
  <2>1. Nop \in [op : Ops, rs : Registers, rt : Registers, rd : Registers, sa : Registers, imm : Nat, tgt : Nat,
                 fmt : {"S", "D", "W"}, u : {0}, h : {0}]
    BY DEF Nop, Ops, ShiftOps, Registers
  <2>2. 0 < 2^HW /\ 0 < 2^JumpBits /\ 0 < WW
    BY Powers, JumpBitsIs, Widths
  <2>3. Nop.op = "sll" /\ Nop.sa = 0 /\ Nop.rs = 0 /\ Nop.rt = 0 /\ Nop.rd = 0 /\ Nop.imm = 0 /\ Nop.tgt = 0 /\ Nop.fmt = "S"
    BY DEF Nop
  <2> QED  BY <2>1, <2>2, <2>3 DEF Decoded
<1>2. Decoded(i)
  BY <1>1 DEF Fetch, Loaded
<1> HIDE DEF i
<1>4. /\ e \in [op : Ops, rs : Registers, rt : Registers, rd : Registers, sa : Registers, imm : Nat, tgt : Nat,
                fmt : {"S", "D", "W"}, u : {0, 1}, h : Int]
      /\ e.op = i.op /\ e.rs = i.rs /\ e.rt = i.rt /\ e.rd = i.rd /\ e.sa = i.sa /\ e.imm = i.imm /\ e.tgt = i.tgt
      /\ e.fmt = i.fmt /\ e.u = u /\ e.h = h
  BY <1>2 DEF Decoded
<1> HIDE DEF e
<1>5. Ready(e)
  BY <1>2, <1>4, Zenon DEF Ready, Decoded
<1> QED  BY <1>2, <1>4, <1>5 DEF e, i

LEMMA HostIs ==
    ASSUME NEW i, NEW u \in Undefined(i), NEW h \in Asked(i)
    PROVE  u \in {0, 1} /\ h \in Int /\ h <= Len(HostBytes)
<1>1. Len(HostBytes) \in Nat
  BY IssAssumption
<1> QED  BY <1>1, IssRunAssumption DEF Undefined, Asked

LEMMA InitIInv == Init => IInv
<1> SUFFICES ASSUME NEW test \in Tests,
                    LET fresh == initState(NewState(test.pc, [r \in Registers |-> 0], [r \in Registers |-> 0],
                                                    [r \in Registers |-> 0], test.mem))
                    IN  /\ code = test.code
                        /\ s = [fresh EXCEPT !.gpr = Given(test.gpr), !.cpr1 = Given(test.cpr1),
                                             !.hi = test.hi, !.lo = test.lo, !.fcr = test.fcr]
                        /\ t = Widen(s)
             PROVE  IInv
  BY DEF Init
<1> DEFINE zeros == [r \in Registers |-> 0]
           new == NewState(test.pc, zeros, zeros, zeros, test.mem)
           sr == (0 | 2^2) | U(2^22, WW)
<1>1. TestOK(test)
  BY IssRunAssumption
<1>2. Loaded
  BY <1>1 DEF TestOK, Loaded
<1>3. zeros \in [Registers -> Unsigned(WW)] /\ 0 \in Unsigned(WW)
  BY Unsigneds
<1>4. sr \in Unsigned(WW)
  <2>1. 2^2 \in Unsigned(WW)
    <3>1. 2^2 \in Nat /\ 2 * 2^2 <= 2^WW /\ 2^WW \in Nat
      <4>1. 2 \in Nat /\ 2 <= WW /\ WW <= DW + 1 /\ 2 < WW /\ WW \in Nat
        BY Widths
      <4> QED  BY <4>1, PowMono
    <3> QED  BY <3>1 DEF Unsigned
  <2>2. 2^22 \in Int
    OBVIOUS
  <2>3. U(2^22, WW) \in Unsigned(WW)
    BY <2>2, URanges
  <2>4. WW \in 0 .. DW
    BY Widths
  <2>5. (0 | 2^2) \in Unsigned(WW)
    BY <2>1, <2>4, <1>3, BitwiseRange DEF Unsigned
  <2> QED  BY <2>3, <2>4, <2>5, BitwiseRange DEF Unsigned
<1> HIDE DEF sr, zeros
<1>5. test.mem \in Memories
  BY <1>1, IsMemory DEF TestOK
<1>6. new \in States(WW) /\ new.gpr = [r \in Registers |-> 0] /\ new.cpr1 = [r \in Registers |-> 0] /\ new.cpr0[SR] = 0
  <2>1. Zero(zeros) = [r \in Registers |-> 0]
    BY <1>3 DEF Zero
  <2>2. SR \in Registers
    BY DEF SR, Registers
  <2>3. <<>> \in Seq(Frames)
    OBVIOUS
  <2> QED  BY <2>1, <2>2, <2>3, <1>1, <1>3, <1>5 DEF NewState, States, TestOK, zeros
<1> HIDE DEF new
<1>7. initState(new) \in States(WW) /\ initState(new).gpr = new.gpr /\ initState(new).cpr1 = new.cpr1
  <2> DEFINE c0 == [new.cpr0 EXCEPT ![SR] = sr]
  <2>1. initState(new) = [new EXCEPT !.cpr0 = c0]
    BY <1>6 DEF initState, sr
  <2>2. new.cpr0 \in [Registers -> Unsigned(WW)]
    BY <1>6 DEF States
  <2>3. c0 \in [Registers -> Unsigned(WW)]
    BY <2>2, <1>4
  <2> HIDE DEF c0
  <2> QED  BY <2>1, <2>3, <1>6 DEF States
<1> DEFINE fresh == initState(new)
           g == Given(test.gpr)
           c == Given(test.cpr1)
<1>8. g \in [Registers -> Unsigned(WW)] /\ c \in [Registers -> Unsigned(WW)]
  <2>1. /\ DOMAIN test.gpr \subseteq Registers /\ \A r \in DOMAIN test.gpr : test.gpr[r] \in Unsigned(WW)
        /\ DOMAIN test.cpr1 \subseteq Registers /\ \A r \in DOMAIN test.cpr1 : test.cpr1[r] \in Unsigned(WW)
    BY <1>1 DEF TestOK
  <2> QED  BY <2>1, <1>3 DEF Given
<1>9. s = [fresh EXCEPT !.gpr = g, !.cpr1 = c, !.hi = test.hi, !.lo = test.lo, !.fcr = test.fcr]
  BY DEF new, zeros
<1> HIDE DEF g, c, fresh
<1>10. s \in States(WW)
  <2>1. fresh \in States(WW)
    BY <1>7 DEF fresh
  <2> QED  BY <2>1, <1>1, <1>8, <1>9, ZenonT(40) DEF States, TestOK
<1>11. t \in States(DW)
  <2>1. /\ SExt(s.lo, WW, DW) \in Unsigned(DW) /\ SExt(s.hi, WW, DW) \in Unsigned(DW) /\ s.pc \in Unsigned(DW)
        /\ \A r \in Registers : SExt(s.gpr[r], WW, DW) \in Unsigned(DW)
    BY <1>10, Reads, ExtInt, WordInDouble
  <2> DEFINE wide == [r \in Registers |-> SExt(s.gpr[r], WW, DW)]
  <2>2. wide \in [Registers -> Unsigned(DW)]
    BY <2>1
  <2>3. t = [s EXCEPT !.w = DW, !.lo = SExt(s.lo, WW, DW), !.hi = SExt(s.hi, WW, DW), !.gpr = wide]
    BY <1>10 DEF Widen, States
  <2> HIDE DEF wide
  <2> QED  BY <2>1, <2>2, <2>3, <1>10, ZenonT(40) DEF States
<1> QED  BY <1>2, <1>10, <1>11 DEF IInv

\* What every action has in common: an instruction of the program, executed by
\* both interpreters with the same contribution of the host.
StepOf(u, h, y) ==
    LET e == [Fetch(s) EXCEPT !.u = u, !.h = h]
    IN  /\ Ready(e) /\ y = Handler(Count(s), e) /\ Outcome(Count(s), y, e) /\ s' = execMips(s, y)
        /\ t' = IF CanRun(t) THEN execMips(t, Handler_64(Count(t), [Fetch(t) EXCEPT !.u = u, !.h = h])) ELSE t

LEMMA StepIs ==
    ASSUME FpuTotal, IInv, Next
    PROVE  /\ code' = code /\ CanRun(s) /\ s.st = "run"
           /\ \E u \in Undefined(Fetch(s)), h \in Asked(Fetch(s)) : \E y : StepOf(u, h, y)
<1> DEFINE E(u, h) == [Fetch(s) EXCEPT !.u = u, !.h = h]
           c == Count(s)
<1>1. s \in States(WW) /\ Loaded
  BY DEF IInv
<1>2. code' = code /\ CanRun(s)
  BY DEF Next, Exec
<1>3. s.st = "run"
  BY <1>2 DEF CanRun
<1>4. c \in States(WW) /\ c.st = "run"
  BY <1>1, <1>3, CountIs
<1>5. ASSUME NEW u \in Undefined(Fetch(s)), NEW h \in Asked(Fetch(s))
      PROVE  Ready(E(u, h)) /\ E(u, h).op = Fetch(s).op
  <2>1. u \in {0, 1} /\ h \in Int /\ h <= Len(HostBytes)
    BY HostIs
  <2> QED  BY <1>1, <2>1, FetchReady, Zenon
<1> HIDE DEF c
<1>6. ASSUME Exec(ShiftOps, Shifts)
      PROVE  \E u \in Undefined(Fetch(s)), h \in Asked(Fetch(s)) : \E y : StepOf(u, h, y)
  <2>1. PICK u \in Undefined(Fetch(s)), h \in Asked(Fetch(s)) :
             /\ s' = execMips(s, Shifts(Count(s), E(u, h)))
             /\ t' = IF CanRun(t) THEN execMips(t, Handler_64(Count(t), [Fetch(t) EXCEPT !.u = u, !.h = h])) ELSE t
    BY <1>6 DEF Exec
  <2>2. Fetch(s).op \in ShiftOps
    BY <1>6 DEF Exec
  <2>3. Ready(E(u, h)) /\ E(u, h).op \in ShiftOps
    BY <1>5, <2>2
  <2>4. Outcome(c, Shifts(c, E(u, h)), E(u, h))
    <3> HIDE DEF E
    <3> QED  BY <1>4, <2>3, Outcomes
  <2>5. Shifts(Count(s), E(u, h)) = Handler(Count(s), E(u, h))
    BY <2>3, OneGroup DEF Handler
  <2>6. StepOf(u, h, Shifts(Count(s), E(u, h)))
    BY <2>1, <2>3, <2>4, <2>5 DEF StepOf, c
  <2> QED  BY <2>6
<1>7. ASSUME Exec(BreakOps, Breaks)
      PROVE  \E u \in Undefined(Fetch(s)), h \in Asked(Fetch(s)) : \E y : StepOf(u, h, y)
  <2>1. PICK u \in Undefined(Fetch(s)), h \in Asked(Fetch(s)) :
             /\ s' = execMips(s, Breaks(Count(s), E(u, h)))
             /\ t' = IF CanRun(t) THEN execMips(t, Handler_64(Count(t), [Fetch(t) EXCEPT !.u = u, !.h = h])) ELSE t
    BY <1>7 DEF Exec
  <2>2. Fetch(s).op \in BreakOps
    BY <1>7 DEF Exec
  <2>3. Ready(E(u, h)) /\ E(u, h).op \in BreakOps
    BY <1>5, <2>2
  <2>4. Outcome(c, Breaks(c, E(u, h)), E(u, h))
    <3> HIDE DEF E
    <3> QED  BY <1>4, <2>3, Outcomes
  <2>5. Breaks(Count(s), E(u, h)) = Handler(Count(s), E(u, h))
    BY <2>3, OneGroup DEF Handler
  <2>6. StepOf(u, h, Breaks(Count(s), E(u, h)))
    BY <2>1, <2>3, <2>4, <2>5 DEF StepOf, c
  <2> QED  BY <2>6
<1>8. ASSUME Exec(MulDivOps, MulDiv)
      PROVE  \E u \in Undefined(Fetch(s)), h \in Asked(Fetch(s)) : \E y : StepOf(u, h, y)
  <2>1. PICK u \in Undefined(Fetch(s)), h \in Asked(Fetch(s)) :
             /\ s' = execMips(s, MulDiv(Count(s), E(u, h)))
             /\ t' = IF CanRun(t) THEN execMips(t, Handler_64(Count(t), [Fetch(t) EXCEPT !.u = u, !.h = h])) ELSE t
    BY <1>8 DEF Exec
  <2>2. Fetch(s).op \in MulDivOps
    BY <1>8 DEF Exec
  <2>3. Ready(E(u, h)) /\ E(u, h).op \in MulDivOps
    BY <1>5, <2>2
  <2>4. Outcome(c, MulDiv(c, E(u, h)), E(u, h))
    <3> HIDE DEF E
    <3> QED  BY <1>4, <2>3, Outcomes
  <2>5. MulDiv(Count(s), E(u, h)) = Handler(Count(s), E(u, h))
    BY <2>3, OneGroup DEF Handler
  <2>6. StepOf(u, h, MulDiv(Count(s), E(u, h)))
    BY <2>1, <2>3, <2>4, <2>5 DEF StepOf, c
  <2> QED  BY <2>6
<1>9. ASSUME Exec(ArithOps, Arith)
      PROVE  \E u \in Undefined(Fetch(s)), h \in Asked(Fetch(s)) : \E y : StepOf(u, h, y)
  <2>1. PICK u \in Undefined(Fetch(s)), h \in Asked(Fetch(s)) :
             /\ s' = execMips(s, Arith(Count(s), E(u, h)))
             /\ t' = IF CanRun(t) THEN execMips(t, Handler_64(Count(t), [Fetch(t) EXCEPT !.u = u, !.h = h])) ELSE t
    BY <1>9 DEF Exec
  <2>2. Fetch(s).op \in ArithOps
    BY <1>9 DEF Exec
  <2>3. Ready(E(u, h)) /\ E(u, h).op \in ArithOps
    BY <1>5, <2>2
  <2>4. Outcome(c, Arith(c, E(u, h)), E(u, h))
    <3> HIDE DEF E
    <3> QED  BY <1>4, <2>3, Outcomes
  <2>5. Arith(Count(s), E(u, h)) = Handler(Count(s), E(u, h))
    BY <2>3, OneGroup DEF Handler
  <2>6. StepOf(u, h, Arith(Count(s), E(u, h)))
    BY <2>1, <2>3, <2>4, <2>5 DEF StepOf, c
  <2> QED  BY <2>6
<1>10. ASSUME Exec(Special2Ops, execSpecial2)
      PROVE  \E u \in Undefined(Fetch(s)), h \in Asked(Fetch(s)) : \E y : StepOf(u, h, y)
  <2>1. PICK u \in Undefined(Fetch(s)), h \in Asked(Fetch(s)) :
             /\ s' = execMips(s, execSpecial2(Count(s), E(u, h)))
             /\ t' = IF CanRun(t) THEN execMips(t, Handler_64(Count(t), [Fetch(t) EXCEPT !.u = u, !.h = h])) ELSE t
    BY <1>10 DEF Exec
  <2>2. Fetch(s).op \in Special2Ops
    BY <1>10 DEF Exec
  <2>3. Ready(E(u, h)) /\ E(u, h).op \in Special2Ops
    BY <1>5, <2>2
  <2>4. Outcome(c, execSpecial2(c, E(u, h)), E(u, h))
    <3> HIDE DEF E
    <3> QED  BY <1>4, <2>3, Outcomes
  <2>5. execSpecial2(Count(s), E(u, h)) = Handler(Count(s), E(u, h))
    BY <2>3, OneGroup DEF Handler
  <2>6. StepOf(u, h, execSpecial2(Count(s), E(u, h)))
    BY <2>1, <2>3, <2>4, <2>5 DEF StepOf, c
  <2> QED  BY <2>6
<1>11. ASSUME Exec(Special3Ops, execSpecial3)
      PROVE  \E u \in Undefined(Fetch(s)), h \in Asked(Fetch(s)) : \E y : StepOf(u, h, y)
  <2>1. PICK u \in Undefined(Fetch(s)), h \in Asked(Fetch(s)) :
             /\ s' = execMips(s, execSpecial3(Count(s), E(u, h)))
             /\ t' = IF CanRun(t) THEN execMips(t, Handler_64(Count(t), [Fetch(t) EXCEPT !.u = u, !.h = h])) ELSE t
    BY <1>11 DEF Exec
  <2>2. Fetch(s).op \in Special3Ops
    BY <1>11 DEF Exec
  <2>3. Ready(E(u, h)) /\ E(u, h).op \in Special3Ops
    BY <1>5, <2>2
  <2>4. Outcome(c, execSpecial3(c, E(u, h)), E(u, h))
    <3> HIDE DEF E
    <3> QED  BY <1>4, <2>3, Outcomes
  <2>5. execSpecial3(Count(s), E(u, h)) = Handler(Count(s), E(u, h))
    BY <2>3, OneGroup DEF Handler
  <2>6. StepOf(u, h, execSpecial3(Count(s), E(u, h)))
    BY <2>1, <2>3, <2>4, <2>5 DEF StepOf, c
  <2> QED  BY <2>6
<1>12. ASSUME Exec(JumpOps, JType)
      PROVE  \E u \in Undefined(Fetch(s)), h \in Asked(Fetch(s)) : \E y : StepOf(u, h, y)
  <2>1. PICK u \in Undefined(Fetch(s)), h \in Asked(Fetch(s)) :
             /\ s' = execMips(s, JType(Count(s), E(u, h)))
             /\ t' = IF CanRun(t) THEN execMips(t, Handler_64(Count(t), [Fetch(t) EXCEPT !.u = u, !.h = h])) ELSE t
    BY <1>12 DEF Exec
  <2>2. Fetch(s).op \in JumpOps
    BY <1>12 DEF Exec
  <2>3. Ready(E(u, h)) /\ E(u, h).op \in JumpOps
    BY <1>5, <2>2
  <2>4. Outcome(c, JType(c, E(u, h)), E(u, h))
    <3> HIDE DEF E
    <3> QED  BY <1>4, <2>3, Outcomes
  <2>5. JType(Count(s), E(u, h)) = Handler(Count(s), E(u, h))
    BY <2>3, OneGroup DEF Handler
  <2>6. StepOf(u, h, JType(Count(s), E(u, h)))
    BY <2>1, <2>3, <2>4, <2>5 DEF StepOf, c
  <2> QED  BY <2>6
<1>13. ASSUME Exec(RegJumpOps, JumpRegister)
      PROVE  \E u \in Undefined(Fetch(s)), h \in Asked(Fetch(s)) : \E y : StepOf(u, h, y)
  <2>1. PICK u \in Undefined(Fetch(s)), h \in Asked(Fetch(s)) :
             /\ s' = execMips(s, JumpRegister(Count(s), E(u, h)))
             /\ t' = IF CanRun(t) THEN execMips(t, Handler_64(Count(t), [Fetch(t) EXCEPT !.u = u, !.h = h])) ELSE t
    BY <1>13 DEF Exec
  <2>2. Fetch(s).op \in RegJumpOps
    BY <1>13 DEF Exec
  <2>3. Ready(E(u, h)) /\ E(u, h).op \in RegJumpOps
    BY <1>5, <2>2
  <2>4. Outcome(c, JumpRegister(c, E(u, h)), E(u, h))
    <3> HIDE DEF E
    <3> QED  BY <1>4, <2>3, Outcomes
  <2>5. JumpRegister(Count(s), E(u, h)) = Handler(Count(s), E(u, h))
    BY <2>3, OneGroup DEF Handler
  <2>6. StepOf(u, h, JumpRegister(Count(s), E(u, h)))
    BY <2>1, <2>3, <2>4, <2>5 DEF StepOf, c
  <2> QED  BY <2>6
<1>14. ASSUME Exec(Coproc0Ops, Coproc0)
      PROVE  \E u \in Undefined(Fetch(s)), h \in Asked(Fetch(s)) : \E y : StepOf(u, h, y)
  <2>1. PICK u \in Undefined(Fetch(s)), h \in Asked(Fetch(s)) :
             /\ s' = execMips(s, Coproc0(Count(s), E(u, h)))
             /\ t' = IF CanRun(t) THEN execMips(t, Handler_64(Count(t), [Fetch(t) EXCEPT !.u = u, !.h = h])) ELSE t
    BY <1>14 DEF Exec
  <2>2. Fetch(s).op \in Coproc0Ops
    BY <1>14 DEF Exec
  <2>3. Ready(E(u, h)) /\ E(u, h).op \in Coproc0Ops
    BY <1>5, <2>2
  <2>4. Outcome(c, Coproc0(c, E(u, h)), E(u, h))
    <3> HIDE DEF E
    <3> QED  BY <1>4, <2>3, Outcomes
  <2>5. Coproc0(Count(s), E(u, h)) = Handler(Count(s), E(u, h))
    BY <2>3, OneGroup DEF Handler
  <2>6. StepOf(u, h, Coproc0(Count(s), E(u, h)))
    BY <2>1, <2>3, <2>4, <2>5 DEF StepOf, c
  <2> QED  BY <2>6
<1>15. ASSUME Exec(Coproc1Ops, execCoproc1)
      PROVE  \E u \in Undefined(Fetch(s)), h \in Asked(Fetch(s)) : \E y : StepOf(u, h, y)
  <2>1. PICK u \in Undefined(Fetch(s)), h \in Asked(Fetch(s)) :
             /\ s' = execMips(s, execCoproc1(Count(s), E(u, h)))
             /\ t' = IF CanRun(t) THEN execMips(t, Handler_64(Count(t), [Fetch(t) EXCEPT !.u = u, !.h = h])) ELSE t
    BY <1>15 DEF Exec
  <2>2. Fetch(s).op \in Coproc1Ops
    BY <1>15 DEF Exec
  <2>3. Ready(E(u, h)) /\ E(u, h).op \in Coproc1Ops
    BY <1>5, <2>2
  <2>4. Outcome(c, execCoproc1(c, E(u, h)), E(u, h))
    <3> HIDE DEF E
    <3> QED  BY <1>4, <2>3, Outcomes
  <2>5. execCoproc1(Count(s), E(u, h)) = Handler(Count(s), E(u, h))
    BY <2>3, OneGroup DEF Handler
  <2>6. StepOf(u, h, execCoproc1(Count(s), E(u, h)))
    BY <2>1, <2>3, <2>4, <2>5 DEF StepOf, c
  <2> QED  BY <2>6
<1>16. ASSUME Exec(Coproc1xOps, execCoproc1x)
      PROVE  \E u \in Undefined(Fetch(s)), h \in Asked(Fetch(s)) : \E y : StepOf(u, h, y)
  <2>1. PICK u \in Undefined(Fetch(s)), h \in Asked(Fetch(s)) :
             /\ s' = execMips(s, execCoproc1x(Count(s), E(u, h)))
             /\ t' = IF CanRun(t) THEN execMips(t, Handler_64(Count(t), [Fetch(t) EXCEPT !.u = u, !.h = h])) ELSE t
    BY <1>16 DEF Exec
  <2>2. Fetch(s).op \in Coproc1xOps
    BY <1>16 DEF Exec
  <2>3. Ready(E(u, h)) /\ E(u, h).op \in Coproc1xOps
    BY <1>5, <2>2
  <2>4. Outcome(c, execCoproc1x(c, E(u, h)), E(u, h))
    <3> HIDE DEF E
    <3> QED  BY <1>4, <2>3, Outcomes
  <2>5. execCoproc1x(Count(s), E(u, h)) = Handler(Count(s), E(u, h))
    BY <2>3, OneGroup DEF Handler
  <2>6. StepOf(u, h, execCoproc1x(Count(s), E(u, h)))
    BY <2>1, <2>3, <2>4, <2>5 DEF StepOf, c
  <2> QED  BY <2>6
<1>17. ASSUME Exec(ImmediateOps, Immediate)
      PROVE  \E u \in Undefined(Fetch(s)), h \in Asked(Fetch(s)) : \E y : StepOf(u, h, y)
  <2>1. PICK u \in Undefined(Fetch(s)), h \in Asked(Fetch(s)) :
             /\ s' = execMips(s, Immediate(Count(s), E(u, h)))
             /\ t' = IF CanRun(t) THEN execMips(t, Handler_64(Count(t), [Fetch(t) EXCEPT !.u = u, !.h = h])) ELSE t
    BY <1>17 DEF Exec
  <2>2. Fetch(s).op \in ImmediateOps
    BY <1>17 DEF Exec
  <2>3. Ready(E(u, h)) /\ E(u, h).op \in ImmediateOps
    BY <1>5, <2>2
  <2>4. Outcome(c, Immediate(c, E(u, h)), E(u, h))
    <3> HIDE DEF E
    <3> QED  BY <1>4, <2>3, Outcomes
  <2>5. Immediate(Count(s), E(u, h)) = Handler(Count(s), E(u, h))
    BY <2>3, OneGroup DEF Handler
  <2>6. StepOf(u, h, Immediate(Count(s), E(u, h)))
    BY <2>1, <2>3, <2>4, <2>5 DEF StepOf, c
  <2> QED  BY <2>6
<1>18. ASSUME Exec(MemoryOps, LoadStore)
      PROVE  \E u \in Undefined(Fetch(s)), h \in Asked(Fetch(s)) : \E y : StepOf(u, h, y)
  <2>1. PICK u \in Undefined(Fetch(s)), h \in Asked(Fetch(s)) :
             /\ s' = execMips(s, LoadStore(Count(s), E(u, h)))
             /\ t' = IF CanRun(t) THEN execMips(t, Handler_64(Count(t), [Fetch(t) EXCEPT !.u = u, !.h = h])) ELSE t
    BY <1>18 DEF Exec
  <2>2. Fetch(s).op \in MemoryOps
    BY <1>18 DEF Exec
  <2>3. Ready(E(u, h)) /\ E(u, h).op \in MemoryOps
    BY <1>5, <2>2
  <2>4. Outcome(c, LoadStore(c, E(u, h)), E(u, h))
    <3> HIDE DEF E
    <3> QED  BY <1>4, <2>3, Outcomes
  <2>5. LoadStore(Count(s), E(u, h)) = Handler(Count(s), E(u, h))
    BY <2>3, OneGroup DEF Handler
  <2>6. StepOf(u, h, LoadStore(Count(s), E(u, h)))
    BY <2>1, <2>3, <2>4, <2>5 DEF StepOf, c
  <2> QED  BY <2>6
<1>19. ASSUME Exec(BranchOps, branch)
      PROVE  \E u \in Undefined(Fetch(s)), h \in Asked(Fetch(s)) : \E y : StepOf(u, h, y)
  <2>1. PICK u \in Undefined(Fetch(s)), h \in Asked(Fetch(s)) :
             /\ s' = execMips(s, branch(Count(s), E(u, h)))
             /\ t' = IF CanRun(t) THEN execMips(t, Handler_64(Count(t), [Fetch(t) EXCEPT !.u = u, !.h = h])) ELSE t
    BY <1>19 DEF Exec
  <2>2. Fetch(s).op \in BranchOps
    BY <1>19 DEF Exec
  <2>3. Ready(E(u, h)) /\ E(u, h).op \in BranchOps
    BY <1>5, <2>2
  <2>4. Outcome(c, branch(c, E(u, h)), E(u, h))
    <3> HIDE DEF E
    <3> QED  BY <1>4, <2>3, Outcomes
  <2>5. branch(Count(s), E(u, h)) = Handler(Count(s), E(u, h))
    BY <2>3, OneGroup DEF Handler
  <2>6. StepOf(u, h, branch(Count(s), E(u, h)))
    BY <2>1, <2>3, <2>4, <2>5 DEF StepOf, c
  <2> QED  BY <2>6
<1> QED  BY <1>2, <1>3, <1>6, <1>7, <1>8, <1>9, <1>10, <1>11, <1>12, <1>13, <1>14, <1>15, <1>16, <1>17, <1>18, <1>19 DEF Next

LEMMA NextIInv ==
    ASSUME FpuTotal, IInv, [Next]_vars
    PROVE  IInv'
<1>1. CASE UNCHANGED vars
  BY <1>1 DEF vars, IInv, Loaded
<1>2. CASE Next
  <2>1. PICK u \in Undefined(Fetch(s)), h \in Asked(Fetch(s)) : \E y : StepOf(u, h, y)
    BY <1>2, StepIs
  <2>2. code' = code /\ Loaded /\ s \in States(WW) /\ t \in States(DW) /\ s.st = "run"
    BY <1>2, StepIs DEF IInv
  <2>3. s' \in States(WW)
    BY <2>1, <2>2, ExecType DEF StepOf
  <2>4. t' \in States(DW)
    <3> DEFINE e == [Fetch(t) EXCEPT !.u = u, !.h = h]
               r == Handler_64(Count(t), e)
    <3>1. t' = IF CanRun(t) THEN execMips(t, r) ELSE t
      BY <2>1 DEF StepOf
    <3>2. Ready(e)
      BY <2>2, HostIs, FetchReady
    <3>3. CASE CanRun(t)
      <4>1. Count(t) \in States(DW) /\ Count(t).st = "run"
        BY <2>2, <3>3, CountIs DEF CanRun
      <4> HIDE DEF e
      <4>2. Outcome(Count(t), r, e)
        BY <4>1, <3>2, Outcomes64
      <4> HIDE DEF r
      <4> QED  BY <3>1, <3>3, <4>2, <2>2, ExecType
    <3>4. CASE ~CanRun(t)
      BY <3>1, <3>4, <2>2
    <3> QED  BY <3>3, <3>4
  <2>5. Loaded'
    BY <2>2 DEF Loaded
  <2> QED  BY <2>3, <2>4, <2>5 DEF IInv
<1> QED  BY <1>1, <1>2

LEMMA StatesOK == IInv => TypeOK
<1>1. ASSUME NEW w \in {WW, DW}, NEW x \in States(w) PROVE StateOK(x, w)
  <2>1. x.mem \in Memories
    BY Reads
  <2>2. \A a \in DOMAIN x.mem : a \in Nat /\ x.mem[a] \in Unsigned(ByteBits)
    BY <2>1, MemoryIs
  <2> QED  BY <2>2 DEF StateOK, States
<1> QED  BY <1>1 DEF IInv, TypeOK

LEMMA IInvHolds == FpuTotal => (Spec => []IInv)
<1>1. ASSUME FpuTotal PROVE Init /\ [][Next]_vars => []IInv
  BY <1>1, InitIInv, NextIInv, PTL
<1> QED  BY <1>1 DEF Spec

\* Every reachable state of both interpreters has the widths interpret.hh declares,
\* for words of any size, any program, any result of a host call and any host
\* arithmetic that gives numbers.
THEOREM TypeCorrect == FpuTotal => (Spec => []TypeOK)
BY IInvHolds, StatesOK, PTL

-----------------------------------------------------------------------------
(* Control flow, as the architecture sees it.                              *)

ArchVars == <<code, s.pc, NextPc, Mode>>

LEMMA ArchOps ==
    /\ Arch!Transfers = Transfers /\ Arch!Likely = Likely /\ Arch!Branches = BranchOps \ Likely
    /\ \A op \in Leaves : op \notin Transfers
<1>1. Arch!Likely = Likely
  BY DEF Arch!Likely, Likely
<1>2. Arch!Branches = BranchOps \ Likely
  BY DEF Arch!Branches, BranchOps, Likely
<1>3. Arch!Jumps = JumpOps \cup RegJumpOps
  BY DEF Arch!Jumps, JumpOps, RegJumpOps
<1>4. BranchOps = Likely \cup (BranchOps \ Likely)
  BY DEF BranchOps
<1>5. Arch!Transfers = Transfers
  BY <1>1, <1>2, <1>3, <1>4, Zenon DEF Arch!Transfers, Transfers
<1>6. \A op \in Leaves : op \notin Transfers
  BY DEF Leaves, Transfers, BranchOps, Likely, JumpOps, RegJumpOps
<1> QED  BY <1>1, <1>2, <1>5, <1>6

\* The mode is a function of the frames.
ModeOf(x) == CASE Len(x.frames) = 0 -> "plain" [] Len(x.frames) = 1 -> "slot" [] OTHER -> "chaos"

LEMMA ModeIs ==
    ASSUME NEW x \in States(WW)
    PROVE  /\ U(x.pc + 4, WW) = (x.pc + 4) % 2^WW
           /\ x.frames = <<>> => ModeOf(x) = "plain" /\ Len(x.frames) = 0
           /\ Len(x.frames) = 0 => x.frames = <<>>
           /\ Len(x.frames) = 1 => ModeOf(x) = "slot" /\ x.frames # <<>> /\ Head(x.frames) = x.frames[1]
           /\ Len(x.frames) \notin {0, 1} => ModeOf(x) = "chaos"
<1> DEFINE fr == x.frames
<1>1. fr \in Seq(Frames) /\ Len(fr) \in Nat
  BY DEF States
<1> HIDE DEF fr
<1>2. U(x.pc + 4, WW) = (x.pc + 4) % 2^WW
  BY DEF U
<1>3. (fr = <<>> => Len(fr) = 0) /\ (Len(fr) = 0 => fr = <<>>)
  BY <1>1
<1>4. /\ Len(fr) = 0 => ModeOf(x) = "plain"
      /\ Len(fr) = 1 => ModeOf(x) = "slot"
      /\ Len(fr) \notin {0, 1} => ModeOf(x) = "chaos"
  <2> DEFINE n == Len(fr)
  <2>1. ModeOf(x) = CASE n = 0 -> "plain" [] n = 1 -> "slot" [] OTHER -> "chaos"
    BY DEF ModeOf, fr
  <2>2. n \in Nat
    BY <1>1
  <2> HIDE DEF n
  <2>3. (n = 0 => ModeOf(x) = "plain") /\ (n = 1 => ModeOf(x) = "slot") /\ (n \notin {0, 1} => ModeOf(x) = "chaos")
    BY <2>1, <2>2
  <2> QED  BY <2>3 DEF n
<1>5. Len(fr) = 1 => fr # <<>>
  BY <1>3
<1>6. fr # <<>> => Head(fr) = fr[1]
  BY <1>1
<1> QED  BY <1>2, <1>3, <1>4, <1>5, <1>6 DEF fr

LEMMA MappedIs == NextPc = NextOf(s) /\ Mode = ModeOf(s) /\ NextPc' = NextOf(s') /\ Mode' = ModeOf(s')
BY DEF NextPc, NextOf, Mode, ModeOf

LEMMA ArchInit == Init => Arch!Init
<1> SUFFICES ASSUME Init PROVE Arch!Init
  OBVIOUS
<1>1. s \in States(WW)
  BY InitIInv DEF IInv
<1>2. s.frames = <<>>
  BY DEF Init, initState, NewState
<1>3. NextPc = (s.pc + 4) % 2^WW /\ Mode = "plain"
  BY <1>1, <1>2, ModeIs DEF NextOf, NextPc, Mode, ModeOf
<1> QED  BY <1>3 DEF Arch!Init, Arch!Plus

LEMMA ArchStep ==
    ASSUME FpuTotal, IInv, Next
    PROVE  [Arch!Next]_ArchVars
<1>0. PICK u \in Undefined(Fetch(s)), h \in Asked(Fetch(s)) : \E y : StepOf(u, h, y)
  BY StepIs
<1>1. PICK y : StepOf(u, h, y)
  BY <1>0
<1>2. code' = code /\ Loaded /\ s \in States(WW) /\ s.st = "run"
  BY StepIs DEF IInv
<1>3. s' \in States(WW)
  BY NextIInv DEF IInv
<1> DEFINE e == [Fetch(s) EXCEPT !.u = u, !.h = h]
<1>4. Ready(e) /\ Outcome(Count(s), y, e) /\ s' = execMips(s, y)
  BY <1>1 DEF StepOf
<1>5. e.op = Fetch(s).op /\ e.rs = Fetch(s).rs /\ e.imm = Fetch(s).imm /\ e.tgt = Fetch(s).tgt
  <2>1. u \in {0, 1} /\ h \in Int /\ h <= Len(HostBytes)
    BY HostIs
  <2> QED  BY <1>2, <2>1, FetchReady, Zenon
<1> HIDE DEF e
<1>6. /\ NextPc = NextOf(s) /\ NextPc' = NextOf(s') /\ U(s.pc + 4, WW) = (s.pc + 4) % 2^WW
      /\ U(s'.pc + 4, WW) = (s'.pc + 4) % 2^WW /\ Mode = ModeOf(s) /\ Mode' = ModeOf(s')
  BY <1>2, <1>3, MappedIs, ModeIs
<1>7. /\ \A ops : e.op \in ops /\ "sll" \notin ops => Arch!At(s.pc, ops)
      /\ \A ops : Arch!At(s.pc, ops) => e.op \in ops /\ Fetch(s) = code[s.pc]
  BY <1>5 DEF Arch!At, Fetch, Nop
<1>8. ASSUME NEW p, s'.pc = p, s'.frames = <<>> PROVE Arch!Go(p)
  BY <1>3, <1>6, <1>8, ModeIs DEF Arch!Go, Arch!Plus, NextOf
<1>9. CASE Len(s.frames) \notin {0, 1} \/ (Len(s.frames) = 1 /\ e.op \in Transfers)
  <2>1. "sll" \notin Transfers
    BY DEF Transfers, BranchOps, Likely, JumpOps, RegJumpOps
  <2>2. Arch!Unpredictable
    BY <1>2, <1>6, <1>7, <1>9, <2>1, ModeIs, ArchOps DEF Arch!Unpredictable
  <2> QED  BY <2>2, <1>2 DEF Arch!Next
<1>10. CASE Len(s.frames) = 0 \/ (Len(s.frames) = 1 /\ e.op \notin Transfers)
  <2>1. Flows(s, s', e)
    BY <1>2, <1>4, <1>10, StepFlows
  <2>2. CASE s'.pc = s.pc /\ s'.frames = s.frames
    BY <2>2, <1>2, <1>6 DEF ArchVars, NextOf, ModeOf
  <2>3. CASE s'.frames = <<>> /\ e.op \notin Transfers \cup Leaves /\ s'.pc = NextOf(s)
    <3>1. ~Arch!At(s.pc, Arch!Transfers \cup {"monitor", "break", "syscall"})
      BY <2>3, <1>7, ArchOps DEF Leaves
    <3>2. Arch!Straight
      BY <3>1, <2>3, <1>6, <1>8 DEF Arch!Straight
    <3> QED  BY <3>2, <1>2 DEF Arch!Next
  <2>4. CASE s'.frames = <<>> /\ e.op = "monitor" /\ s'.pc \in {s.gpr[R_ra], NextOf(s)}
    <3>1. Arch!At(s.pc, {"monitor"})
      BY <2>4, <1>7
    <3>2. Arch!Monitor
      BY <3>1, <2>4, <1>6, <1>8 DEF Arch!Monitor, R_ra
    <3> QED  BY <3>2, <1>2 DEF Arch!Next
  <2>5. CASE s'.frames = <<>> /\ e.op \in {"break", "syscall"} /\ s'.pc \in {s.pc, NextOf(s)}
    <3>1. Arch!At(s.pc, {"break", "syscall"})
      BY <2>5, <1>7
    <3>2. Arch!Trap
      BY <3>1, <2>5, <1>6, <1>8 DEF Arch!Trap
    <3> QED  BY <3>2, <1>2 DEF Arch!Next
  <2>6. CASE s'.frames = <<>> /\ e.op \in Likely /\ s.frames = <<>> /\ s'.pc = U(U(s.pc + 4, WW) + 4, WW)
    <3>1. Arch!At(s.pc, Arch!Likely) /\ Mode = "plain"
      <4>1. "sll" \notin Likely
        BY DEF Likely
      <4> QED  BY <2>6, <1>2, <1>6, <1>7, <4>1, ModeIs, ArchOps
    <3>2. NextPc = U(s.pc + 4, WW)
      BY <2>6, <1>6 DEF NextOf
    <3>3. s'.pc = Arch!Plus(NextPc, 4)
      BY <3>2, <2>6 DEF Arch!Plus, U
    <3>4. Arch!Nullify
      BY <3>1, <3>3, <2>6, <1>8 DEF Arch!Nullify
    <3> QED  BY <3>4, <1>2 DEF Arch!Next
  <2>7. ASSUME s.frames = <<>>, s'.pc = U(s.pc + 4, WW), NEW f \in Frames, s'.frames = <<f>>,
               \/ e.op \in Transfers /\ f.taken /\ f.target = ArchTarget(e, s.pc, s.gpr)
               \/ e.op \in BranchOps \ Likely /\ ~f.taken
        PROVE  Arch!Next
    <3>1. Mode = "plain" /\ NextPc = U(s.pc + 4, WW) /\ s'.pc = NextPc
      BY <2>7, <1>2, <1>6, ModeIs DEF NextOf
    <3>2. Mode' = "slot" /\ NextPc' = (IF f.taken THEN f.target ELSE (s'.pc + 4) % 2^WW)
      <4>1. Len(s'.frames) = 1 /\ s'.frames[1] = f
        BY <2>7
      <4> QED  BY <4>1, <1>3, <1>6, ModeIs DEF NextOf
    <3>3. "sll" \notin Transfers /\ "sll" \notin BranchOps \ Likely
      BY DEF Transfers, BranchOps, Likely, JumpOps, RegJumpOps
    <3>4. CASE e.op \in Transfers /\ f.taken /\ f.target = ArchTarget(e, s.pc, s.gpr)
      <4>1. Arch!At(s.pc, Arch!Transfers) /\ Fetch(s) = code[s.pc]
        BY <3>3, <3>4, <1>7, ArchOps
      <4>2. ArchTarget(code[s.pc], s.pc, s.gpr) = ArchTarget(e, s.pc, s.gpr)
        BY <4>1, <1>5 DEF ArchTarget
      <4>3. Arch!Take
        BY <4>1, <4>2, <3>1, <3>2, <3>4 DEF Arch!Take
      <4> QED  BY <4>3, <1>2 DEF Arch!Next
    <3>5. CASE e.op \in BranchOps \ Likely /\ ~f.taken
      <4>1. Arch!At(s.pc, Arch!Branches)
        BY <3>3, <3>5, <1>7, ArchOps
      <4>2. NextPc' = Arch!Plus(NextPc, 4)
        BY <3>1, <3>2, <3>5 DEF Arch!Plus
      <4>3. Arch!NotTaken
        BY <4>1, <4>2, <3>1, <3>2 DEF Arch!NotTaken
      <4> QED  BY <4>3, <1>2 DEF Arch!Next
    <3> QED  BY <2>7, <3>4, <3>5
  <2> QED  BY <2>1, <2>2, <2>3, <2>4, <2>5, <2>6, <2>7 DEF Flows
<1> QED  BY <1>9, <1>10

\* The recursive execMips implements the two program counters of the architecture:
\* taken or not, likely or not, in a slot or not, for every program and word size.
THEOREM DelaySlots == FpuTotal => (Spec => ImplementsDelaySlot)
<1>1. ASSUME FpuTotal, IInv, [Next]_vars PROVE [Arch!Next]_ArchVars
  <2>1. CASE Next
    BY <1>1, <2>1, ArchStep
  <2>2. CASE UNCHANGED vars
    BY <2>2 DEF vars, ArchVars, NextPc, Mode
  <2> QED  BY <1>1, <2>1, <2>2
<1>2. ASSUME FpuTotal PROVE Spec => Arch!Init /\ [][Arch!Next]_ArchVars
  BY <1>1, <1>2, ArchInit, IInvHolds, PTL DEF Spec
<1> QED  BY <1>2 DEF ImplementsDelaySlot, Arch!Spec, ArchVars

-----------------------------------------------------------------------------
(* Arithmetic on hi and lo.                                                *)

\* A number in range is its own int32_t, and a cast changes a multiple of 2^n.
LEMMA Signed ==
    ASSUME NEW x \in Int, NEW n \in 1 .. DW
    PROVE  /\ -(2^(n - 1)) <= x /\ x < 2^(n - 1) => S(x, n) = x
           /\ S(U(x, n), n) = S(x, n)
           /\ \E k \in Int : S(x, n) = x + k * 2^n
<1>1. /\ 2^n = 2 * 2^(n - 1) /\ 2^(n - 1) \in Nat /\ 2^(n - 1) >= 1 /\ 2^n \in Int /\ 2^n > 0 /\ S(x, n) \in Int
  BY SRange
<1> DEFINE d == 2^n
           q == x \div d
           r == x % d
<1>2. U(x, n) = r
  BY DEF U
<1>3. q \in Int /\ r \in Int /\ 0 <= r /\ r < d /\ x = q * d + r
  BY <1>1, DivMod
<1> HIDE DEF d
<1>4. S(x, n) = IF r < 2^(n - 1) THEN r ELSE r - d
  BY <1>2 DEF S, d
<1> HIDE DEF q, r
<1>5. \E k \in Int : S(x, n) = x + k * 2^n
  <2>1. CASE r < 2^(n - 1)
    <3>1. S(x, n) = x + (-q) * d
      BY <2>1, <1>1, <1>3, <1>4 DEF d
    <3> QED  BY <3>1, <1>3 DEF d
  <2>2. CASE ~(r < 2^(n - 1))
    <3>1. S(x, n) = r - d
      BY <2>2, <1>4
    <3>2. (-q - 1) * d = -(q * d) - d
      BY <1>1, <1>3 DEF d
    <3>3. q * d \in Int /\ d \in Int /\ -q - 1 \in Int
      BY <1>1, <1>3 DEF d
    <3>4. S(x, n) = x + (-q - 1) * d
      BY <3>1, <3>2, <3>3, <1>3
    <3> QED  BY <3>3, <3>4 DEF d
  <2> QED  BY <2>1, <2>2
<1>6. S(U(x, n), n) = S(x, n)
  <2>1. r % d = r
    BY <1>1, <1>3, ModSmall DEF d
  <2>2. U(U(x, n), n) = U(x, n)
    BY <2>1, <1>2 DEF U, d
  <2> QED  BY <2>2 DEF S
<1>7. ASSUME -(2^(n - 1)) <= x, x < 2^(n - 1) PROVE S(x, n) = x
  <2>1. CASE x >= 0
    <3>1. r = x
      BY <2>1, <1>1, <1>7, ModSmall DEF r, d
    <3> QED  BY <3>1, <1>4, <1>7
  <2>2. CASE x < 0
    <3>1. x = (-1) * d + (x + d) /\ 0 <= x + d /\ x + d < d /\ x + d \in Int /\ d \in Int
      BY <2>2, <1>1, <1>7 DEF d
    <3>2. r = x + d
      BY <3>1, <1>1, DivModUnique DEF r, d
    <3>3. r >= 2^(n - 1)
      BY <3>2, <1>1, <1>7 DEF d
    <3> QED  BY <3>1, <3>2, <3>3, <1>1, <1>4
  <2> QED  BY <2>1, <2>2
<1> QED  BY <1>5, <1>6, <1>7

\* A 64-bit value split over hi and lo.
LEMMA SplitWide ==
    ASSUME NEW v \in Int, NEW y, y.hi = U(U(v, DW) \div 2^WW, WW), y.lo = U(v, WW)
    PROVE  Wide(y) = U(v, DW)
<1> DEFINE d == 2^WW
<1>1. d \in Int /\ d > 0 /\ 2^DW = d * d
  BY Powers
<1>2. U(v, DW) = v % (d * d)
  BY <1>1 DEF U
<1> HIDE DEF d
<1>3. (v % (d * d)) \div d = (v \div d) % d /\ v % (d * d) = ((v \div d) % d) * d + (v % d)
  BY <1>1, ModOfProduct
<1>4. U(v, DW) \div d \in Unsigned(WW)
  BY HighWord DEF d
<1>5. U(U(v, DW) \div d, WW) = U(v, DW) \div d
  BY <1>4, USmall
<1>6. y.hi = (v \div d) % d
  BY <1>2, <1>3, <1>5 DEF d
<1>7. y.lo = v % d
  BY DEF U, d
<1> QED  BY <1>2, <1>3, <1>6, <1>7 DEF Wide, d

\* The accumulator, while lo is not negative.
LEMMA AccWide ==
    ASSUME NEW x \in States(WW), S(x.lo, WW) >= 0
    PROVE  Acc(x) = Wide(x) /\ Wide(x) \in Int
<1> DEFINE d == 2^WW
<1>1. d \in Int /\ d > 0 /\ 2^DW = d * d /\ x.hi \in Int /\ 0 <= x.hi /\ x.hi < d /\ x.lo \in Int /\ 0 <= x.lo /\ x.lo < d
      /\ U(x.lo, WW) = x.lo /\ x.lo \in Unsigned(WW)
  <2>1. x.hi \in Unsigned(WW) /\ x.lo \in Unsigned(WW)
    BY Reads
  <2> QED  BY <2>1, USmall, Powers
<1> HIDE DEF d
<1>2. S(x.lo, WW) = x.lo
  <2>1. WW \in 1 .. DW
    BY Widths
  <2>2. 2^WW = 2 * 2^(WW - 1) /\ 2^(WW - 1) \in Nat
    BY <2>1, <1>1, SRange
  <2> QED  BY <2>2, <1>1 DEF S, d
<1>3. SExt(x.lo, WW, DW) = x.lo
  <2>1. U(x.lo, DW) = x.lo
    BY <1>1, WordInDouble, USmall
  <2> QED  BY <2>1, <1>2 DEF SExt
<1>4. x.hi * d \in Int /\ 0 <= x.hi * d /\ x.hi * d < d * d
  <2>1. 0 * d <= x.hi * d /\ x.hi * d <= (d - 1) * d
    BY <1>1, MulLeq
  <2>2. x.hi * d \in Int /\ d * d \in Int /\ (d - 1) * d = d * d - d
    BY <1>1
  <2> QED  BY <2>1, <2>2, <1>1
<1>5. U(x.hi * d, DW) = x.hi * d
  <2>1. x.hi * d < 2^DW /\ 2^DW \in Int
    BY <1>1, <1>4, Powers
  <2> QED  BY <2>1, <1>4, ModSmall DEF U
<1>6. (x.hi * d) % d = 0
  BY <1>1, ModShift
<1>7. (x.hi * d | x.lo) = x.lo + x.hi * d
  <2>1. WW \in 0 .. DW /\ x.lo \in 0 .. (2^WW - 1)
    BY <1>1, Widths DEF d
  <2>2. (x.hi * d) % 2^WW = 0
    BY <1>6 DEF d
  <2> HIDE DEF d
  <2> QED  BY <2>1, <2>2, <1>4, OrDisjoint
<1>8. Acc(x) = (x.hi * d | x.lo)
  BY <1>3, <1>5 DEF Acc, d
<1>9. Wide(x) = x.hi * d + x.lo
  BY DEF Wide, d
<1> QED  BY <1>1, <1>4, <1>7, <1>8, <1>9

LEMMA DivExact ==
    ASSUME NEW a \in Int, NEW b \in Int, b # 0, -(2^(WW - 1)) <= b, b < 2^(WW - 1),
           NEW y, y.hi = U(Rem(a, b), WW), y.lo = U(Quot(a, b), WW)
    PROVE  LET q == S(y.lo, WW)
               r == S(y.hi, WW)
           IN  U(q * b + r - a, WW) = 0 /\ Abs(r) < Abs(b) /\ r * a >= 0
<1> DEFINE qq == Quot(a, b)
           rr == Rem(a, b)
           q == S(y.lo, WW)
           r == S(y.hi, WW)
           d == 2^WW
<1>1. qq \in Int /\ rr \in Int /\ a = qq * b + rr /\ Abs(rr) < Abs(b) /\ (a >= 0 => rr >= 0) /\ (a < 0 => rr <= 0)
  BY QuotRem
<1>2. WW \in 1 .. DW /\ 2^(WW - 1) \in Nat /\ d \in Int /\ d > 0
  <2>1. WW \in 1 .. DW
    BY Widths
  <2> QED  BY <2>1, <1>1, SRange, Powers
<1> HIDE DEF qq, rr, d
<1>3. r = rr
  <2>1. -(2^(WW - 1)) <= rr /\ rr < 2^(WW - 1)
    BY <1>1, <1>2 DEF Abs
  <2>2. S(U(rr, WW), WW) = rr
    BY <2>1, <1>1, <1>2, Signed
  <2> QED  BY <2>2 DEF rr
<1>4. PICK k \in Int : q = qq + k * d
  <2>1. S(U(qq, WW), WW) = S(qq, WW) /\ \E k \in Int : S(qq, WW) = qq + k * 2^WW
    BY <1>1, <1>2, Signed
  <2> QED  BY <2>1 DEF qq, d
<1> HIDE DEF q, r
<1>5. q * b + r - a = 0 + (k * b) * d
  <2>1. q * b = qq * b + (k * d) * b
    BY <1>1, <1>2, <1>4
  <2>2. (k * d) * b = (k * b) * d
    BY <1>2, <1>4
  <2>3. qq * b \in Int /\ (k * d) * b \in Int
    BY <1>1, <1>2, <1>4
  <2> QED  BY <2>1, <2>2, <2>3, <1>1, <1>3
<1>6. U(q * b + r - a, WW) = 0
  <2>1. k * b \in Int
    BY <1>4
  <2>2. (0 + (k * b) * d) % d = 0 % d
    BY <2>1, <1>2, ModShift, SMTT(40)
  <2>3. 0 % d = 0
    BY <1>2, ModSmall
  <2> QED  BY <2>2, <2>3, <1>5 DEF U, d
<1>7. r * a >= 0
  <2>1. CASE a >= 0
    <3>1. 0 * a <= rr * a
      BY <2>1, <1>1, MulLeq
    <3> QED  BY <3>1, <1>1, <1>3
  <2>2. CASE a < 0
    <3>1. 0 * (-a) <= (-rr) * (-a)
      BY <2>2, <1>1, MulLeq
    <3> QED  BY <3>1, <1>1, <1>3
  <2> QED  BY <2>1, <2>2
<1> QED  BY <1>1, <1>3, <1>6, <1>7 DEF q, r

LEMMA DivuExact ==
    ASSUME NEW a \in Unsigned(WW), NEW b \in Unsigned(WW), b # 0,
           NEW y, y.hi = U(a % b, WW), y.lo = U(a \div b, WW)
    PROVE  y.lo * b + y.hi = a /\ y.hi < b
<1> DEFINE q == a \div b
           r == a % b
<1>1. a \in Int /\ b \in Int /\ 0 <= a /\ 0 < b /\ a < 2^WW /\ b < 2^WW /\ 2^WW \in Int
  BY USmall, Unsigneds
<1>2. q \in Int /\ r \in Int /\ 0 <= r /\ r < b /\ a = q * b + r
  BY <1>1, DivMod
<1> HIDE DEF q, r
<1>3. 0 <= q
  <2>1. SUFFICES ASSUME q <= -1 PROVE FALSE
    BY <1>2
  <2>2. q * b <= (-1) * b
    BY <2>1, <1>1, <1>2, MulLeq
  <2> QED  BY <2>2, <1>1, <1>2
<1>4. q <= a
  <2>1. CASE q = 0
    BY <2>1, <1>1
  <2>2. CASE q >= 1
    <3>1. 1 * q <= b * q
      BY <2>2, <1>1, <1>2, MulLeq
    <3>2. b * q = q * b /\ q * b \in Int
      BY <1>1, <1>2
    <3> QED  BY <3>1, <3>2, <1>1, <1>2
  <2> QED  BY <2>1, <2>2, <1>2, <1>3
<1>5. U(q, WW) = q /\ U(r, WW) = r
  <2>1. q < 2^WW /\ r < 2^WW
    BY <1>1, <1>2, <1>4
  <2> QED  BY <2>1, <1>1, <1>2, <1>3, ModSmall DEF U
<1> QED  BY <1>2, <1>5 DEF q, r

\* What a step leaves in hi and lo.
LEMMA HiLoAfter ==
    ASSUME NEW x \in States(WW)
    PROVE  /\ \A h \in Int, l \in Int : /\ execMips(x, HiLo(Count(x), h, l)).hi = U(h, WW)
                                        /\ execMips(x, HiLo(Count(x), h, l)).lo = U(l, WW)
           /\ execMips(x, Adv(Count(x))).hi = x.hi /\ execMips(x, Adv(Count(x))).lo = x.lo
           /\ execMips(x, Stop(Count(x), "signal")).st = "signal"
<1> DEFINE c == Count(x)
<1>1. c \in States(WW) /\ c.frames = x.frames /\ c.w = WW
  BY CountIs
<1>2. c.hi = x.hi /\ c.lo = x.lo
  BY DEF Count, States
<1> HIDE DEF c
<1>3. ASSUME NEW y \in States(WW), y.frames = x.frames
      PROVE  execMips(x, y).hi = y.hi /\ execMips(x, y).lo = y.lo /\ (y.st # "run" => execMips(x, y) = y)
  <2>1. execMips(x, y) = Return(y)
    <3>1. Len(x.frames) \in Nat
      BY DEF States
    <3> QED  BY <3>1, <1>3 DEF execMips
  <2> QED  BY <2>1, ReturnIs
<1>4. ASSUME NEW h \in Int, NEW l \in Int
      PROVE  /\ execMips(x, HiLo(c, h, l)).hi = U(h, WW) /\ execMips(x, HiLo(c, h, l)).lo = U(l, WW)
  <2>1. HiLo(c, h, l) \in States(WW) /\ HiLo(c, h, l).frames = x.frames
    BY <1>1, HiLoStraight DEF Straight
  <2>2. HiLo(c, h, l).hi = U(h, WW) /\ HiLo(c, h, l).lo = U(l, WW)
    BY <1>1 DEF HiLo, Adv, States
  <2> QED  BY <2>1, <2>2, <1>3
<1>5. execMips(x, Adv(c)).hi = x.hi /\ execMips(x, Adv(c)).lo = x.lo
  <2>1. Adv(c) \in States(WW) /\ Adv(c).frames = x.frames
    BY <1>1, AdvStraight DEF Straight
  <2>2. Adv(c).hi = c.hi /\ Adv(c).lo = c.lo
    BY <1>1 DEF Adv, States
  <2> QED  BY <2>1, <2>2, <1>2, <1>3
<1>6. execMips(x, Stop(c, "signal")).st = "signal"
  <2>1. Stop(c, "signal") \in States(WW) /\ Stop(c, "signal").frames = x.frames
    BY <1>1, StopStraight DEF Straight
  <2>2. Stop(c, "signal").st = "signal"
    BY <1>1 DEF Stop, States
  <2> QED  BY <2>1, <2>2, <1>3
<1> QED  BY <1>4, <1>5, <1>6 DEF c

LEMMA DivisionsExact ==
    ASSUME NEW x \in States(WW), NEW i, Ready(i), i.op \in {"div", "divu"},
           NEW z, z = execMips(x, MulDiv(Count(x), i)), z.st = "run"
    PROVE  Exact(i, x, z)
<1> DEFINE rs == x.gpr[i.rs]
           rt == x.gpr[i.rt]
           a == S(rs, WW)
           b == S(rt, WW)
           c == Count(x)
<1>1. rs \in Unsigned(WW) /\ rt \in Unsigned(WW) /\ c.gpr = x.gpr
  BY Reads, Fields, CountIs
<1>2. rs \in Int /\ rt \in Int /\ 0 <= rt /\ rt < 2^WW /\ U(rs, WW) = rs /\ U(rt, WW) = rt
  BY <1>1, USmall
<1>3. WW \in 1 .. DW
  BY Widths
<1>4. a \in Int /\ b \in Int /\ -(2^(WW - 1)) <= b /\ b < 2^(WW - 1) /\ U(a, WW) = rs /\ U(b, WW) = rt
  BY <1>2, <1>3, SRange
<1>5. b = 0 <=> rt = 0
  <2>1. b = 0 => rt = 0
    <3>1. 0 % 2^WW = 0
      BY Powers, ModSmall
    <3> QED  BY <3>1, <1>4 DEF U
  <2>2. rt = 0 => b = 0
    <3>1. rt = 0 => rt < 2^(WW - 1)
      BY <1>2, <1>3, SRange
    <3> QED  BY <3>1, <1>2 DEF S
  <2> QED  BY <2>1, <2>2
<1> HIDE DEF rs, rt, c
<1>6. CASE b = 0
  <2>1. MulDiv(c, i) = Adv(c)
    BY <1>1, <1>5, <1>6 DEF MulDiv, rt
  <2>2. z.hi = x.hi /\ z.lo = x.lo
    BY <2>1, HiLoAfter DEF c
  <2>3. Exact(i, x, z) = (Wide(z) = Wide(x))
    BY <1>6 DEF Exact, rs, rt
  <2> QED  BY <2>2, <2>3 DEF Wide
<1>7. CASE b # 0 /\ i.op = "divu"
  <2>1. MulDiv(c, i) = HiLo(c, rs % rt, rs \div rt)
    BY <1>1, <1>5, <1>7 DEF MulDiv, rs, rt
  <2>2. rs % rt \in Int /\ rs \div rt \in Int
    BY <1>2, <1>5, <1>7, DivMod
  <2>3. z.hi = U(rs % rt, WW) /\ z.lo = U(rs \div rt, WW)
    BY <2>1, <2>2, HiLoAfter, ZenonT(40) DEF c
  <2>4. z.lo * rt + z.hi = rs /\ z.hi < rt
    BY <2>3, <1>1, <1>5, <1>7, DivuExact
  <2>5. Exact(i, x, z) = (z.lo * U(b, WW) + z.hi = U(a, WW) /\ z.hi < U(b, WW))
    BY <1>7 DEF Exact, rs, rt
  <2> QED  BY <2>4, <2>5, <1>4
<1>8. CASE b # 0 /\ i.op = "div"
  <2>1. MulDiv(c, i) = Stop(c, "signal") \/ MulDiv(c, i) = HiLo(c, Rem(a, b), Quot(a, b))
    BY <1>1, <1>5, <1>8 DEF MulDiv, rs, rt
  <2>2. MulDiv(c, i) = HiLo(c, Rem(a, b), Quot(a, b))
    BY <2>1, HiLoAfter DEF c
  <2>3. Rem(a, b) \in Int /\ Quot(a, b) \in Int
    BY <1>4, <1>8, QuotRem
  <2>4. z.hi = U(Rem(a, b), WW) /\ z.lo = U(Quot(a, b), WW)
    BY <2>2, <2>3, HiLoAfter, ZenonT(40) DEF c
  <2>5. Exact(i, x, z) = (/\ U(S(z.lo, WW) * b + S(z.hi, WW) - a, WW) = 0 /\ Abs(S(z.hi, WW)) < Abs(b)
                          /\ S(z.hi, WW) * a >= 0)
    BY <1>8 DEF Exact, rs, rt
  <2> HIDE DEF a, b
  <2> QED  BY <2>4, <2>5, <1>4, <1>8, DivExact
<1> QED  BY <1>6, <1>7, <1>8

LEMMA SumsExact ==
    ASSUME NEW x \in States(WW), NEW i, Ready(i), i.op \in {"madd", "maddu", "msub"},
           NEW z, z = execMips(x, execSpecial2(Count(x), i))
    PROVE  Exact(i, x, z)
<1> DEFINE rs == x.gpr[i.rs]
           rt == x.gpr[i.rt]
           a == S(rs, WW)
           b == S(rt, WW)
           c == Count(x)
<1>1. rs \in Unsigned(WW) /\ rt \in Unsigned(WW) /\ c.gpr = x.gpr
  BY Reads, Fields, CountIs
<1>2. rs \in Int /\ rt \in Int /\ U(rs, WW) = rs /\ U(rt, WW) = rt
  BY <1>1, USmall
<1>3. a \in Int /\ b \in Int /\ U(a, WW) = rs /\ U(b, WW) = rt
  <2>1. WW \in 1 .. DW
    BY Widths
  <2> QED  BY <2>1, <1>2, SRange
<1>4. CASE ~(S(x.lo, WW) >= 0)
  BY <1>4 DEF Exact
<1>5. CASE S(x.lo, WW) >= 0
  <2>1. Acc(c) = Wide(x) /\ Wide(x) \in Int
    <3>1. Acc(c) = Acc(x)
      BY DEF c, Count, Acc, States
    <3> QED  BY <3>1, <1>5, AccWide
  <2> HIDE DEF a, b, rs, rt, c
  <2>2. ASSUME NEW v \in Int, execSpecial2(c, i) = HiLo(c, U(v, DW) \div 2^WW, v)
        PROVE  Wide(z) = U(v, DW)
    <3> DEFINE top == U(v, DW) \div 2^WW
    <3>1. top \in Int
      BY HighWord, Unsigneds
    <3>2. execSpecial2(c, i) = HiLo(c, top, v)
      BY <2>2
    <3> HIDE DEF top
    <3>3. z = execMips(x, HiLo(Count(x), top, v))
      BY <3>2 DEF c
    <3>4. z.hi = U(top, WW) /\ z.lo = U(v, WW)
      BY <3>1, <3>3, HiLoAfter
    <3> QED  BY <3>4, SplitWide DEF top
  <2>3. CASE i.op = "madd"
    <3>1. execSpecial2(c, i) = HiLo(c, U(a * b + Acc(c), DW) \div 2^WW, a * b + Acc(c))
      BY <2>3, <1>1 DEF execSpecial2, a, b, rs, rt
    <3>2. a * b + Acc(c) \in Int /\ a * b + Acc(c) = Wide(x) + a * b
      BY <2>1, <1>3
    <3>3. Wide(z) = U(Wide(x) + a * b, DW)
      BY <2>2, <3>1, <3>2
    <3> QED  BY <3>3, <2>3, <1>5 DEF Exact, a, b, rs, rt
  <2>4. CASE i.op = "maddu"
    <3>1. execSpecial2(c, i) = HiLo(c, U(rs * rt + Acc(c), DW) \div 2^WW, rs * rt + Acc(c))
      BY <2>4, <1>1 DEF execSpecial2, rs, rt
    <3>2. rs * rt + Acc(c) \in Int /\ rs * rt + Acc(c) = Wide(x) + U(a, WW) * U(b, WW)
      BY <2>1, <1>2, <1>3
    <3>3. Wide(z) = U(Wide(x) + U(a, WW) * U(b, WW), DW)
      BY <2>2, <3>1, <3>2
    <3> QED  BY <3>3, <2>4, <1>5 DEF Exact, a, b, rs, rt
  <2>5. CASE i.op = "msub"
    <3>1. execSpecial2(c, i) = HiLo(c, U(Acc(c) - a * b, DW) \div 2^WW, Acc(c) - a * b)
      BY <2>5, <1>1 DEF execSpecial2, a, b, rs, rt
    <3>2. Acc(c) - a * b \in Int /\ Acc(c) - a * b = Wide(x) - a * b
      BY <2>1, <1>3
    <3>3. Wide(z) = U(Wide(x) - a * b, DW)
      BY <2>2, <3>1, <3>2
    <3> QED  BY <3>3, <2>5, <1>5 DEF Exact, a, b, rs, rt
  <2> QED  BY <2>3, <2>4, <2>5
<1> QED  BY <1>4, <1>5

LEMMA StepExact ==
    ASSUME IInv, Next, s'.st = "run"
    PROVE  Exact(Fetch(s), s, s')
<1> DEFINE i == Fetch(s)
           divs == {"div", "divu"}
           sums == {"madd", "maddu", "msub"}
<1>1. s \in States(WW) /\ Loaded
  BY DEF IInv
<1>2. ASSUME NEW u \in Undefined(i), NEW h \in Asked(i)
      PROVE  /\ Ready([i EXCEPT !.u = u, !.h = h])
             /\ \A z : Exact(i, s, z) = Exact([i EXCEPT !.u = u, !.h = h], s, z)
             /\ [i EXCEPT !.u = u, !.h = h].op = i.op
  <2> DEFINE e == [i EXCEPT !.u = u, !.h = h]
  <2>1. u \in {0, 1} /\ h \in Int /\ h <= Len(HostBytes)
    BY <1>1, HostIs
  <2>2. Ready(e) /\ e.op = i.op /\ e.rs = i.rs /\ e.rt = i.rt
    BY <1>1, <2>1, FetchReady
  <2> HIDE DEF e, i
  <2>3. \A z : Exact(i, s, z) = Exact(e, s, z)
    BY <2>2 DEF Exact
  <2> QED  BY <2>2, <2>3 DEF e
<1>3. CASE i.op \in divs
  <2>1. i.op \in MulDivOps
    BY <1>3 DEF MulDivOps
  <2>2. Exec(MulDivOps, MulDiv)
    BY <2>1, OneGroup DEF Next, Exec
  <2>3. PICK u \in Undefined(i), h \in Asked(i) : s' = execMips(s, MulDiv(Count(s), [i EXCEPT !.u = u, !.h = h]))
    BY <2>2 DEF Exec
  <2> DEFINE e == [i EXCEPT !.u = u, !.h = h]
  <2>4. Ready(e) /\ e.op \in divs /\ s' = execMips(s, MulDiv(Count(s), e)) /\ (\A z : Exact(i, s, z) = Exact(e, s, z))
    BY <2>3, <1>2, <1>3
  <2> HIDE DEF e, i
  <2>5. Exact(e, s, s')
    BY <2>4, <1>1, DivisionsExact
  <2>6. Exact(i, s, s')
    BY <2>4, <2>5
  <2> QED  BY <2>6 DEF i
<1>4. CASE i.op \in sums
  <2>1. i.op \in Special2Ops
    BY <1>4 DEF Special2Ops
  <2>2. Exec(Special2Ops, execSpecial2)
    BY <2>1, OneGroup DEF Next, Exec
  <2>3. PICK u \in Undefined(i), h \in Asked(i) : s' = execMips(s, execSpecial2(Count(s), [i EXCEPT !.u = u, !.h = h]))
    BY <2>2 DEF Exec
  <2> DEFINE e == [i EXCEPT !.u = u, !.h = h]
  <2>4. Ready(e) /\ e.op \in sums /\ s' = execMips(s, execSpecial2(Count(s), e)) /\ (\A z : Exact(i, s, z) = Exact(e, s, z))
    BY <2>3, <1>2, <1>4
  <2> HIDE DEF e, i
  <2>5. Exact(e, s, s')
    BY <2>4, <1>1, SumsExact
  <2>6. Exact(i, s, s')
    BY <2>4, <2>5
  <2> QED  BY <2>6 DEF i
<1>5. CASE i.op \notin divs \cup sums
  <2> HIDE DEF i
  <2>1. Exact(i, s, s')
    BY <1>5 DEF Exact
  <2> QED  BY <2>1 DEF i
<1> QED  BY <1>3, <1>4, <1>5

\* Divisions and accumulations on hi and lo are exact, or leave both alone when the
\* divisor is zero, for every operand and word size.
THEOREM HiLoIsExact == FpuTotal => (Spec => HiLoExact)
<1>1. ASSUME FpuTotal, IInv, [Next]_vars PROVE [s'.st = "run" => Exact(Fetch(s), s, s')]_vars
  BY <1>1, StepExact
<1>2. ASSUME FpuTotal PROVE Spec => [][s'.st = "run" => Exact(Fetch(s), s, s')]_vars
  BY <1>1, <1>2, IInvHolds, PTL DEF Spec
<1> QED  BY <1>2 DEF HiLoExact

-----------------------------------------------------------------------------
(* Masks.                                                                  *)

LEMMA MaskBit ==
    ASSUME NEW k \in 0 .. DW, NEW m \in 0 .. (DW - 1)
    PROVE  Bit(2^k - 1, m) = IF m < k THEN 1 ELSE 0
<1>1. 2^k \in Nat /\ 2^k >= 1 /\ 2^m \in Nat /\ 2^m >= 1 /\ m \in 0 .. DW
  BY PowPos, Widths
<1>2. CASE m >= k
  <2>1. 2^k <= 2^m
    BY <1>1, <1>2, PowMono, Widths
  <2>2. (2^k - 1) \div 2^m = 0
    BY <2>1, <1>1, ModSmall
  <2>3. Bit(2^k - 1, m) = 0 % 2
    BY <2>2, Zenon DEF Bit
  <2> QED  BY <2>3, <1>2
<1>3. CASE m < k
  <2> DEFINE j == k - m - 1
  <2>1. j \in Nat /\ m \in Nat /\ k = (j + 1) + m /\ j + 1 \in Nat /\ j \in 0 .. DW /\ (j + 1) + m <= DW + 1
    BY <1>1, <1>3, Widths
  <2> HIDE DEF j
  <2>2. 2^k = 2^(j + 1) * 2^m
    BY <2>1, PowAdd
  <2>3. 2^(j + 1) = 2 * 2^j /\ 2^j \in Nat
    BY <2>1, PowersOfTwo, PowPos, Widths
  <2> DEFINE e == 2^j
             d == 2^m
  <2>4. 2^k - 1 = (2 * e - 1) * d + (d - 1)
    <3>1. 2^k = (2 * e) * d
      BY <2>2, <2>3
    <3>2. e \in Int /\ d \in Int
      BY <2>3, <1>1
    <3> HIDE DEF e, d
    <3>3. (2 * e - 1) * d + (d - 1) = (2 * e) * d - 1
      BY <3>2
    <3> QED  BY <3>1, <3>3
  <2>5. e \in Int /\ d \in Int /\ d >= 1
    BY <2>3, <1>1
  <2>6. (2^k - 1) \div d = 2 * e - 1
    <3>1. 2^k - 1 \in Int
      BY <1>1
    <3> HIDE DEF e, d
    <3>2. 2 * e - 1 \in Int /\ d - 1 \in Int /\ 0 <= d - 1 /\ d - 1 < d /\ d > 0
      BY <2>5
    <3> QED  BY <3>1, <3>2, <2>4, <2>5, DivModUnique
  <2>7. Bit(2^k - 1, m) = (2 * e - 1) % 2
    BY <2>6, Zenon DEF Bit
  <2> HIDE DEF e, d
  <2>8. (2 * e - 1) % 2 = 1
    BY <2>5
  <2> QED  BY <2>7, <2>8, <1>3
<1> QED  BY <1>1, <1>2, <1>3

LEMMA AndComm ==
    ASSUME NEW x \in Int, NEW y \in Int
    PROVE  (x & y) = (y & x)
<1>1. \A b \in 0 .. DW - 1 : Bit(x, b) \in {0, 1} /\ Bit(y, b) \in {0, 1}
  <2>1. \A b \in 0 .. DW - 1 : b \in 0 .. DW
    BY Widths
  <2> QED  BY <2>1, BitRange
<1>2. \A b \in 0 .. DW - 1 : Bit(x, b) * Bit(y, b) * 2^b = Bit(y, b) * Bit(x, b) * 2^b
  BY <1>1
<1>3. [b \in 0 .. DW - 1 |-> Bit(x, b) * Bit(y, b) * 2^b] = [b \in 0 .. DW - 1 |-> Bit(y, b) * Bit(x, b) * 2^b]
  BY <1>2
<1> QED  BY <1>3, Zenon DEF &

\* Masking with the low k bits.
LEMMA AndMask ==
    ASSUME NEW x \in Int, NEW k \in 0 .. DW
    PROVE  (x & (2^k - 1)) = x % 2^k /\ ((2^k - 1) & x) = x % 2^k
<1> DEFINE y == 2^k - 1
<1>1. 2^k \in Nat /\ y \in Int
  BY PowPos, Widths
<1>2. \A m \in 0 .. (DW - 1) : Bit(y, m) = IF m < k THEN 1 ELSE 0
  BY MaskBit
<1> HIDE DEF y
<1> DEFINE P(n) == AndLow(x, y, n) = IF n < k THEN x % 2^n ELSE x % 2^k
           T == {n \in 0 .. DW : ~P(n)}
<1>3. ASSUME T # {} PROVE FALSE
  <2>0. T \subseteq Nat
    OBVIOUS
  <2>1. PICK n \in T : \A j \in T : n <= j
    <3> HIDE DEF T
    <3> QED  BY <1>3, <2>0, LeastNatural
  <2>2. ASSUME n = 0 PROVE FALSE
    <3>1. 2^n = 2^0
      BY <2>2, Zenon
    <3>2. x % 2^n = 0
      BY <3>1
    <3>3. AndLow(x, y, n) = 0
      BY <2>2, <1>1, AndStep, Widths
    <3>4. k = 0 => 2^k = 2^n
      BY <2>2, Zenon
    <3> QED  BY <2>1, <2>2, <3>2, <3>3, <3>4
  <2> DEFINE m == n - 1
  <2>3. m \in 0 .. (DW - 1) /\ m \in 0 .. DW /\ m \notin T /\ m + 1 = n
    BY <2>1, <2>2, Widths
  <2>4. P(m)
    BY <2>3
  <2> HIDE DEF m
  <2>5. AndLow(x, y, n) = AndLow(x, y, m) + Bit(x, m) * Bit(y, m) * 2^m
    BY <2>3, <1>1, AndStep
  <2>6. /\ x % 2^n = (x % 2^m) + Bit(x, m) * 2^m /\ x % 2^m \in Nat /\ Bit(x, m) \in {0, 1} /\ 2^m \in Nat
    BY <2>3, LowBits, BitRange, PowPos, Widths
  <2>7. x % 2^k \in Int
    BY <1>1, LowBits
  <2>8. CASE m < k
    <3>1. AndLow(x, y, n) = x % 2^n
      BY <2>3, <2>4, <2>5, <2>6, <2>8, <1>2
    <3>2. n < k \/ n = k
      BY <2>3, <2>8
    <3> QED  BY <3>1, <3>2, <2>1
  <2>9. CASE m >= k
    <3>1. AndLow(x, y, n) = x % 2^k
      BY <2>3, <2>4, <2>5, <2>6, <2>7, <2>9, <1>2
    <3>2. ~(n < k)
      BY <2>3, <2>9
    <3> QED  BY <3>1, <3>2, <2>1
  <2> QED  BY <2>3, <2>8, <2>9
<1>4. AndLow(x, y, DW) = x % 2^k
  <2>1. DW \in 0 .. DW
    BY Widths
  <2>2. P(DW)
    BY <2>1, <1>3
  <2>3. DW < k \/ DW >= k
    BY Widths
  <2>4. ~(DW < k)
    BY Widths
  <2> QED  BY <2>2, <2>4
<1>5. (x & y) = x % 2^k
  <2>1. 0 \in 0 .. (DW - 1)
    BY Widths
  <2> QED  BY <2>1, <1>1, <1>4, AndStep
<1>6. (y & x) = x % 2^k
  BY <1>1, <1>5, AndComm
<1> QED  BY <1>5, <1>6 DEF y

\* A conjunction distributes over a mask cut in two.
LEMMA AndSplit ==
    ASSUME NEW x \in Int, NEW y \in Int, NEW z \in Int, NEW v \in Int,
           \A m \in 0 .. (DW - 1) : Bit(y, m) + Bit(z, m) = Bit(v, m)
    PROVE  (x & y) + (x & z) = (x & v)
<1> DEFINE T == {n \in 0 .. DW : AndLow(x, y, n) + AndLow(x, z, n) # AndLow(x, v, n)}
<1>1. ASSUME T # {} PROVE FALSE
  <2>0. T \subseteq Nat
    OBVIOUS
  <2>1. PICK n \in T : \A j \in T : n <= j
    <3> HIDE DEF T
    <3> QED  BY <1>1, <2>0, LeastNatural
  <2>2. n # 0
    <3>1. 0 \in 0 .. (DW - 1)
      BY Widths
    <3>2. AndLow(x, y, 0) = 0 /\ AndLow(x, z, 0) = 0 /\ AndLow(x, v, 0) = 0
      BY <3>1, AndStep
    <3> QED  BY <3>2, <2>1
  <2> DEFINE m == n - 1
  <2>3. m \in 0 .. (DW - 1) /\ m \in 0 .. DW /\ m \notin T /\ m + 1 = n
    BY <2>1, <2>2, Widths
  <2>4. AndLow(x, y, m) + AndLow(x, z, m) = AndLow(x, v, m)
    BY <2>3
  <2> HIDE DEF m
  <2>5. /\ AndLow(x, y, n) = AndLow(x, y, m) + Bit(x, m) * Bit(y, m) * 2^m
        /\ AndLow(x, z, n) = AndLow(x, z, m) + Bit(x, m) * Bit(z, m) * 2^m
        /\ AndLow(x, v, n) = AndLow(x, v, m) + Bit(x, m) * Bit(v, m) * 2^m
    BY <2>3, AndStep
  <2>6. /\ AndLow(x, y, m) \in Nat /\ AndLow(x, z, m) \in Nat /\ 2^m \in Nat
        /\ Bit(x, m) \in {0, 1} /\ Bit(y, m) \in {0, 1} /\ Bit(z, m) \in {0, 1} /\ Bit(v, m) \in {0, 1}
    BY <2>3, AndLowRange, BitRange, PowPos, Widths
  <2>7. Bit(y, m) + Bit(z, m) = Bit(v, m)
    BY <2>3
  <2>8. AndLow(x, y, n) + AndLow(x, z, n) = AndLow(x, v, n)
    BY <2>4, <2>5, <2>6, <2>7
  <2> QED  BY <2>1, <2>8
<1>2. DW \in 0 .. DW /\ 0 \in 0 .. (DW - 1)
  BY Widths
<1>3. (x & y) = AndLow(x, y, DW) /\ (x & z) = AndLow(x, z, DW) /\ (x & v) = AndLow(x, v, DW)
  BY <1>2, AndStep
<1> QED  BY <1>1, <1>2, <1>3

\* The mask of the bits from k to n.
LEMMA HighMaskBit ==
    ASSUME NEW n \in 0 .. DW, NEW k \in 0 .. n, NEW m \in 0 .. (DW - 1)
    PROVE  Bit(2^n - 2^k, m) = IF k <= m /\ m < n THEN 1 ELSE 0
<1> DEFINE c == 2^(n - k)
           d == 2^k
           h == c - 1
<1>1. /\ n \in Nat /\ k \in Nat /\ n - k \in Nat /\ (n - k) + k = n /\ n <= DW + 1 /\ n - k \in 0 .. DW
      /\ m \in 0 .. DW /\ k \in 0 .. DW
  BY Widths
<1>2. 2^n = c * d /\ c \in Nat /\ c >= 1 /\ d \in Nat /\ d >= 1
  BY <1>1, PowMono
<1> HIDE DEF c, d
<1>3. 2^n - d = h * d + 0 /\ h \in Int
  BY <1>2
<1>4. 2^n - d \in Int
  BY <1>2
<1>5. (2^n - d) \div d = h /\ (2^n - d) % d = 0
  <2> HIDE DEF h
  <2> QED  BY <1>2, <1>3, <1>4, DivModUnique
<1>6. CASE k <= m
  <2> DEFINE e == 2^(m - k)
  <2>1. m \in Nat /\ m - k \in Nat /\ m - k \in 0 .. (DW - 1) /\ m - k \in 0 .. DW /\ k <= m /\ m <= DW + 1
    BY <1>1, <1>6, Widths
  <2>2. 2^m = e * d /\ e \in Nat /\ e >= 1
    BY <2>1, <1>1, PowMono DEF d
  <2>3. Bit(2^n - d, m) = ((2^n - d) \div (e * d)) % 2
    BY <2>2, Zenon DEF Bit
  <2>4. (2^n - d) \div (e * d) = h \div e
    <3> HIDE DEF e, h
    <3>1. e \in Int /\ d \in Int /\ e > 0 /\ d > 0
      BY <2>2, <1>2
    <3>2. (2^n - d) \div (e * d) = ((2^n - d) \div d) \div e
      BY <3>1, <1>4, ModOfProduct
    <3> QED  BY <3>2, <1>5
  <2>5. Bit(h, m - k) = (h \div e) % 2
    BY DEF Bit
  <2>6. Bit(h, m - k) = IF m - k < n - k THEN 1 ELSE 0
    BY <2>1, <1>1, MaskBit DEF h, c
  <2>7. Bit(2^n - d, m) = IF m - k < n - k THEN 1 ELSE 0
    BY <2>3, <2>4, <2>5, <2>6
  <2>8. m - k < n - k <=> m < n
    BY <1>1
  <2> QED  BY <2>7, <2>8, <1>6 DEF d
<1>7. CASE m < k
  <2> DEFINE a == 2^m
             b == 2^n - d
  <2>1. a \in 0 .. (2^k - 1) /\ a \in Nat /\ a >= 1
    <3>1. 2 * 2^m <= 2^k /\ 2^m \in Nat /\ 2^m >= 1 /\ 2^k \in Nat
      <4>1. m \in Nat /\ k <= DW + 1 /\ m <= k
        BY <1>1, <1>7, Widths
      <4> QED  BY <4>1, <1>1, <1>7, PowMono
    <3> QED  BY <3>1
  <2>2. PICK q \in Int : b = (2 * q) * a + 0
    <3> DEFINE j == k - m - 1
    <3>1. j \in Nat /\ m \in Nat /\ k = (j + 1) + m /\ j + 1 \in Nat /\ j \in 0 .. DW /\ (j + 1) + m <= DW + 1
      BY <1>1, <1>7, Widths
    <3> HIDE DEF j
    <3>2. d = 2^(j + 1) * a
      BY <3>1, PowAdd DEF d
    <3>3. 2^(j + 1) = 2 * 2^j /\ 2^j \in Nat
      BY <3>1, PowersOfTwo, PowPos, Widths
    <3>4. b = h * d
      BY <1>2, <1>3
    <3> DEFINE e == 2^j
    <3>5. d = (2 * e) * a /\ e \in Int
      BY <3>2, <3>3
    <3> HIDE DEF a, b, e, h
    <3>6. h * ((2 * e) * a) = (2 * (h * e)) * a
      BY <3>5, <1>3, <2>1
    <3>7. h * e \in Int /\ (2 * (h * e)) * a \in Int
      BY <3>5, <1>3, <2>1
    <3>8. b = (2 * (h * e)) * a + 0
      BY <3>4, <3>5, <3>6, <3>7
    <3> QED  BY <3>7, <3>8
  <2>3. b \div a = 2 * q
    <3>1. a > 0 /\ a \in Int /\ b \in Int /\ 2 * q \in Int
      BY <2>1, <1>4
    <3> HIDE DEF a, b
    <3> QED  BY <3>1, <2>2, DivModUnique
  <2>4. Bit(b, m) = (2 * q) % 2
    BY <2>3, Zenon DEF Bit
  <2>5. (2 * q) % 2 = 0
    OBVIOUS
  <2> QED  BY <2>4, <2>5, <1>1, <1>7 DEF d
<1> QED  BY <1>1, <1>6, <1>7

\* Masking off the low k of n bits.
LEMMA AndHigh ==
    ASSUME NEW n \in 0 .. DW, NEW k \in 0 .. n, NEW x \in Unsigned(n)
    PROVE  (x & Inv(2^k - 1, n)) = x - (x % 2^k)
<1>1. 2^n \in Nat /\ 2^k \in Nat /\ 2^k >= 1 /\ 2^k <= 2^n /\ n <= DW /\ k \in 0 .. DW
  BY PowMono, Widths
<1>2. x \in Int /\ x % 2^n = x
  BY <1>1, ModSmall DEF Unsigned
<1>3. Inv(2^k - 1, n) = 2^n - 2^k
  <2>1. (2^k - 1) % 2^n = 2^k - 1
    BY <1>1, ModSmall
  <2> QED  BY <2>1, <1>1 DEF Inv, U
<1>4. (x & (2^n - 2^k)) + (x & (2^k - 1)) = (x & (2^n - 1))
  <2>1. 2^n - 2^k \in Int /\ 2^k - 1 \in Int /\ 2^n - 1 \in Int
    BY <1>1
  <2>2. \A m \in 0 .. (DW - 1) : Bit(2^n - 2^k, m) + Bit(2^k - 1, m) = Bit(2^n - 1, m)
    <3> TAKE m \in 0 .. (DW - 1)
    <3>1. /\ Bit(2^n - 2^k, m) = (IF k <= m /\ m < n THEN 1 ELSE 0)
          /\ Bit(2^k - 1, m) = (IF m < k THEN 1 ELSE 0)
          /\ Bit(2^n - 1, m) = (IF m < n THEN 1 ELSE 0)
      BY <1>1, HighMaskBit, MaskBit
    <3> QED  BY <3>1, Widths
  <2> QED  BY <2>1, <2>2, <1>2, AndSplit
<1>5. (x & (2^k - 1)) = x % 2^k /\ (x & (2^n - 1)) = x % 2^n
  BY <1>1, <1>2, AndMask
<1>6. (x & (2^n - 2^k)) \in Int /\ x % 2^k \in Int
  <2>1. 2^n - 2^k \in Int
    BY <1>1
  <2> QED  BY <2>1, <1>1, <1>2, BitwiseInt, LowBits
<1> QED  BY <1>2, <1>3, <1>4, <1>5, <1>6

-----------------------------------------------------------------------------
(* The bytes of a number.                                                  *)

LEMMA BytePows ==
    ASSUME NEW j \in 0 .. 8, NEW k \in 0 .. 8, j + k <= 8
    PROVE  /\ 2^(ByteBits * (j + k)) = 2^(ByteBits * j) * 2^(ByteBits * k)
           /\ 2^(ByteBits * j) \in Int /\ 2^(ByteBits * j) > 0 /\ 2^(ByteBits * k) \in Int /\ 2^(ByteBits * k) > 0
<1>1. /\ ByteBits * j \in Nat /\ ByteBits * k \in Nat /\ ByteBits * j + ByteBits * k <= DW + 1
      /\ ByteBits * (j + k) = ByteBits * j + ByteBits * k
  BY Widths
<1>2. 2^(ByteBits * j + ByteBits * k) = 2^(ByteBits * j) * 2^(ByteBits * k)
  BY <1>1, PowAdd
<1>3. 2^(ByteBits * j) \in Nat /\ 2^(ByteBits * j) >= 1 /\ 2^(ByteBits * k) \in Nat /\ 2^(ByteBits * k) >= 1
  BY ShiftPow
<1>4. 2^(ByteBits * (j + k)) = 2^(ByteBits * j) * 2^(ByteBits * k)
  BY <1>1, <1>2, Zenon
<1>5. \A n \in Nat : n >= 1 => n \in Int /\ n > 0
  OBVIOUS
<1> QED  BY <1>3, <1>4, <1>5, Zenon

LEMMA ZeroPow == 2^(ByteBits * 0) = 1 /\ 2^(ByteBits * 1) = 2^ByteBits /\ 2^(ByteBits * 4) = 2^WW
<1>1. ByteBits * 0 = 0 /\ ByteBits * 1 = ByteBits /\ ByteBits * 4 = WW
  BY Widths
<1>2. 2^(ByteBits * 0) = 2^0
  BY <1>1, Zenon
<1>3. 2^0 = 1
  OBVIOUS
<1> QED  BY <1>1, <1>2, <1>3

\* The bytes of a number shifted right, and of its low k bytes.
LEMMA ByteOfPart ==
    ASSUME NEW x \in Int, NEW k \in 0 .. 8, NEW j \in 0 .. 7
    PROVE  /\ j + k <= 8 => ByteOf(x \div 2^(ByteBits * k), j) = ByteOf(x, j + k)
           /\ j < k => ByteOf(x % 2^(ByteBits * k), j) = ByteOf(x, j)
<1>0. j \in 0 .. 8
  OBVIOUS
<1>1. ASSUME j + k <= 8 PROVE ByteOf(x \div 2^(ByteBits * k), j) = ByteOf(x, j + k)
  <2> DEFINE c == 2^(ByteBits * j)
             d == 2^(ByteBits * k)
  <2>1. 2^(ByteBits * (j + k)) = c * d /\ c \in Int /\ c > 0 /\ d \in Int /\ d > 0
    BY <1>0, <1>1, BytePows
  <2>2. ByteOf(x \div d, j) = ((x \div d) \div c) % 2^ByteBits
    BY DEF ByteOf
  <2>3. ByteOf(x, j + k) = (x \div (c * d)) % 2^ByteBits
    BY <2>1 DEF ByteOf
  <2> HIDE DEF c, d
  <2>4. x \div (c * d) = (x \div d) \div c
    BY <2>1, ModOfProduct
  <2>5. ByteOf(x \div d, j) = ByteOf(x, j + k)
    BY <2>2, <2>3, <2>4
  <2> QED  BY <2>5 DEF d
<1>2. ASSUME j < k PROVE ByteOf(x % 2^(ByteBits * k), j) = ByteOf(x, j)
  <2> DEFINE r == k - 1 - j
             B == 2^ByteBits
             c == 2^(ByteBits * r)
             d == 2^(ByteBits * j)
             q == x \div d
  <2>1. r \in 0 .. 8 /\ r + 1 \in 0 .. 8 /\ (r + 1) + j = k /\ (r + 1) + j <= 8 /\ r + 1 <= 8 /\ 1 \in 0 .. 8
    BY <1>2
  <2>2. 2^(ByteBits * k) = 2^(ByteBits * (r + 1)) * d /\ d \in Int /\ d > 0
    BY <1>0, <2>1, BytePows, ZenonT(40)
  <2>3. 2^(ByteBits * (r + 1)) = c * B /\ c \in Int /\ c > 0 /\ B \in Int /\ B > 0
    <3> HIDE DEF r
    <3>1. 2^(ByteBits * (r + 1)) = c * 2^(ByteBits * 1) /\ c \in Int /\ c > 0 /\ 2^(ByteBits * 1) \in Int /\ 2^(ByteBits * 1) > 0
      BY <2>1, BytePows
    <3> QED  BY <3>1, ZeroPow
  <2>4. ByteOf(x % 2^(ByteBits * k), j) = ((x % ((c * B) * d)) \div d) % B /\ ByteOf(x, j) = q % B
    BY <2>2, <2>3 DEF ByteOf
  <2> HIDE DEF r, c, d, B
  <2>5. c * B \in Int /\ c * B > 0
    BY <2>3, MulMono
  <2>6. (x % ((c * B) * d)) \div d = q % (c * B)
    BY <2>2, <2>5, ModOfProduct
  <2>7. q \in Int
    BY <2>2, DivMod
  <2> HIDE DEF q
  <2>8. (q % (c * B)) % B = q % B
    BY <2>3, <2>7, ModOfProduct
  <2> QED  BY <2>4, <2>6, <2>8
<1> QED  BY <1>1, <1>2

\* The bytes of two numbers put next to each other.
LEMMA ByteOfJoin ==
    ASSUME NEW k \in 0 .. 8, NEW h \in Int, NEW l \in Unsigned(ByteBits * k), NEW j \in 0 .. 7
    PROVE  /\ j < k => ByteOf(h * 2^(ByteBits * k) + l, j) = ByteOf(l, j)
           /\ k <= j => ByteOf(h * 2^(ByteBits * k) + l, j) = ByteOf(h, j - k)
<1> DEFINE d == 2^(ByteBits * k)
           y == h * d + l
<1>1. d \in Int /\ d > 0 /\ l \in Int /\ 0 <= l /\ l < d
  BY ShiftPow DEF Unsigned
<1>2. y \in Int
  BY <1>1
<1>3. y \div d = h /\ y % d = l
  <2> HIDE DEF d
  <2> QED  BY <1>1, <1>2, DivModUnique
<1>4. ASSUME j < k PROVE ByteOf(y, j) = ByteOf(l, j)
  <2>1. ByteOf(y % d, j) = ByteOf(y, j)
    <3> HIDE DEF y
    <3> QED  BY <1>2, <1>4, ByteOfPart
  <2> QED  BY <2>1, <1>3
<1>5. ASSUME k <= j PROVE ByteOf(y, j) = ByteOf(h, j - k)
  <2>1. j - k \in 0 .. 7 /\ (j - k) + k <= 8 /\ (j - k) + k = j
    BY <1>5
  <2>2. ByteOf(y \div d, j - k) = ByteOf(y, (j - k) + k)
    <3> HIDE DEF y
    <3> QED  BY <1>2, <2>1, ByteOfPart
  <2> QED  BY <2>1, <2>2, <1>3
<1> QED  BY <1>4, <1>5

\* A word is its four bytes.
LEMMA SameBytes ==
    ASSUME NEW x \in Unsigned(WW), NEW y \in Unsigned(WW), \A j \in 0 .. 3 : ByteOf(x, j) = ByteOf(y, j)
    PROVE  x = y
<1>1. x \in Int /\ y \in Int /\ x % 2^WW = x /\ y % 2^WW = y
  BY USmall DEF U
<1>2. ASSUME NEW j \in 0 .. 3, x % 2^(ByteBits * j) = y % 2^(ByteBits * j)
      PROVE  x % 2^(ByteBits * (j + 1)) = y % 2^(ByteBits * (j + 1))
  <2> DEFINE d == 2^(ByteBits * j)
             B == 2^ByteBits
  <2>1. j \in 0 .. 8 /\ 1 \in 0 .. 8 /\ 1 + j <= 8 /\ 1 + j = j + 1
    OBVIOUS
  <2>2. 2^(ByteBits * (j + 1)) = B * d /\ B \in Int /\ B > 0 /\ d \in Int /\ d > 0
    <3>1. 2^(ByteBits * (1 + j)) = 2^(ByteBits * 1) * d /\ 2^(ByteBits * 1) \in Int /\ 2^(ByteBits * 1) > 0 /\ d \in Int /\ d > 0
      BY <2>1, BytePows
    <3> QED  BY <3>1, <2>1, ZeroPow
  <2>3. ByteOf(x, j) = (x \div d) % B /\ ByteOf(y, j) = (y \div d) % B
    BY DEF ByteOf
  <2> HIDE DEF d, B
  <2>4. x % (B * d) = ((x \div d) % B) * d + (x % d) /\ y % (B * d) = ((y \div d) % B) * d + (y % d)
    BY <1>1, <2>2, ModOfProduct
  <2>5. (x \div d) % B = (y \div d) % B /\ x % d = y % d
    BY <1>2, <2>3 DEF d
  <2> QED  BY <2>2, <2>4, <2>5
<1>3. x % 2^(ByteBits * 0) = y % 2^(ByteBits * 0)
  BY <1>1, ZeroPow
<1> DEFINE E(j) == x % 2^(ByteBits * j) = y % 2^(ByteBits * j)
<1>4. \A j \in 0 .. 3 : E(j) => E(j + 1)
  BY <1>2
<1>5. E(0)
  BY <1>3
<1>6. E(4)
  <2> HIDE DEF E
  <2>1. 0 \in 0 .. 3 /\ 1 \in 0 .. 3 /\ 2 \in 0 .. 3 /\ 3 \in 0 .. 3 /\ 0 + 1 = 1 /\ 1 + 1 = 2 /\ 2 + 1 = 3 /\ 3 + 1 = 4
    OBVIOUS
  <2>2. E(1)
    BY <1>4, <1>5, <2>1
  <2>3. E(2)
    BY <1>4, <2>1, <2>2
  <2>4. E(3)
    BY <1>4, <2>1, <2>3
  <2> QED  BY <1>4, <2>1, <2>4
<1> QED  BY <1>1, <1>6, ZeroPow

\* A sum of bytes, each at its place.
LEMMA SumBytes ==
    ASSUME NEW k \in 0 .. 8, NEW g \in [0 .. k - 1 -> Unsigned(ByteBits)],
           NEW f, \A j \in 0 .. k - 1 : f[j] = g[j] * 2^(ByteBits * j)
    PROVE  Sum(f, k) \in Unsigned(ByteBits * k) /\ \A j \in 0 .. k - 1 : ByteOf(Sum(f, k), j) = g[j]
<1> DEFINE P(n) == Sum(f, n) \in Unsigned(ByteBits * n) /\ \A j \in 0 .. n - 1 : ByteOf(Sum(f, n), j) = g[j]
           T == {n \in 0 .. k : ~P(n)}
<1>1. ASSUME T # {} PROVE FALSE
  <2>0. T \subseteq Nat
    OBVIOUS
  <2>1. PICK n \in T : \A j \in T : n <= j
    <3> HIDE DEF T
    <3> QED  BY <1>1, <2>0, LeastNatural
  <2>2. ASSUME n = 0 PROVE FALSE
    <3>1. Sum(f, n) = 0
      BY <2>2, SumStep
    <3>2. 2^(ByteBits * n) = 1
      BY <2>2, ZeroPow
    <3>3. Sum(f, n) \in Unsigned(ByteBits * n)
      BY <3>1, <3>2 DEF Unsigned
    <3>4. 0 .. n - 1 = {}
      BY <2>2
    <3> QED  BY <2>1, <3>3, <3>4
  <2> DEFINE m == n - 1
  <2>3. m \in 0 .. k - 1 /\ m \in 0 .. k /\ m \notin T /\ m + 1 = n /\ m \in Nat /\ m \in 0 .. 7 /\ m \in 0 .. 8
    BY <2>1, <2>2
  <2>4. P(m)
    BY <2>3
  <2> HIDE DEF m
  <2> DEFINE l == Sum(f, m)
             d == 2^(ByteBits * m)
  <2>5. Sum(f, n) = g[m] * d + l
    <3>1. Sum(f, n) = l + g[m] * d
      <4>1. Sum(f, m + 1) = Sum(f, m) + f[m]
        BY <2>3, SumStep
      <4>2. f[m] = g[m] * d
        BY <2>3
      <4> QED  BY <4>1, <4>2, <2>3
    <3>2. l \in Int /\ g[m] * d \in Int
      <4>1. g[m] \in Int /\ d \in Int
        <5>1. g[m] \in Unsigned(ByteBits)
          BY <2>3
        <5>2. d \in Nat
          BY <2>3, ShiftPow
        <5> QED  BY <5>1, <5>2, Unsigneds
      <4>2. l \in Int
        BY <2>4 DEF Unsigned
      <4> QED  BY <4>1, <4>2
    <3> QED  BY <3>1, <3>2
  <2>6. g[m] \in Unsigned(ByteBits) /\ g[m] \in Int /\ 0 <= g[m] /\ g[m] < 2^ByteBits /\ l \in Unsigned(ByteBits * m)
    BY <2>3, <2>4, Unsigneds
  <2>7. Sum(f, n) \in Unsigned(ByteBits * n)
    <3> DEFINE B == 2^ByteBits
    <3>1. 2^(ByteBits * n) = B * d /\ B \in Int /\ B > 0 /\ d \in Int /\ d > 0
      <4>1. 1 \in 0 .. 8 /\ 1 + m <= 8 /\ 1 + m = n
        BY <2>3
      <4>2. 2^(ByteBits * (1 + m)) = 2^(ByteBits * 1) * d /\ 2^(ByteBits * 1) \in Int /\ 2^(ByteBits * 1) > 0 /\ d \in Int /\ d > 0
        BY <2>3, <4>1, BytePows
      <4> QED  BY <4>1, <4>2, ZeroPow
    <3>2. l \in Int /\ 0 <= l /\ l < d
      BY <2>6, <3>1 DEF Unsigned
    <3>3. g[m] <= B - 1
      BY <2>6, <3>1
    <3> DEFINE v == g[m]
    <3> HIDE DEF B, d, l, v
    <3>4. v * d <= (B - 1) * d /\ 0 <= v * d /\ v * d \in Int
      BY <3>1, <3>3, <2>6, MulLeq DEF v
    <3>5. (B - 1) * d = B * d - d /\ B * d \in Int
      BY <3>1
    <3>6. Sum(f, n) = v * d + l
      BY <2>5 DEF v
    <3> QED  BY <3>1, <3>2, <3>4, <3>5, <3>6 DEF Unsigned
  <2>8. ASSUME NEW j \in 0 .. n - 1 PROVE ByteOf(Sum(f, n), j) = g[j]
    <3>1. j \in 0 .. 7 /\ (j < m \/ j = m)
      BY <2>3
    <3> HIDE DEF l
    <3>2. CASE j < m
      <4>1. ByteOf(g[m] * d + l, j) = ByteOf(l, j)
        BY <3>1, <3>2, <2>3, <2>6, ByteOfJoin
      <4>2. ByteOf(l, j) = g[j]
        <5>1. j \in 0 .. m - 1
          BY <3>1, <3>2, <2>3
        <5> QED  BY <5>1, <2>4 DEF l
      <4> QED  BY <4>1, <4>2, <2>5
    <3>3. CASE j = m
      <4>1. ByteOf(g[m] * d + l, j) = ByteOf(g[m], j - m)
        BY <3>1, <3>3, <2>3, <2>6, ByteOfJoin
      <4>2. ByteOf(g[m], 0) = g[m]
        <5>1. g[m] \div 1 = g[m]
          BY <2>6
        <5>2. g[m] % 2^ByteBits = g[m]
          <6> DEFINE v == g[m]
                     B == 2^ByteBits
          <6>1. v \in Int /\ 0 <= v /\ v < B /\ B \in Int
            BY <2>6, Powers
          <6> HIDE DEF v, B
          <6>2. v % B = v
            BY <6>1, ModSmall
          <6> QED  BY <6>2 DEF v, B
        <5> QED  BY <5>1, <5>2, ZeroPow DEF ByteOf
      <4>3. j - m = 0
        BY <3>3, <2>3
      <4> QED  BY <4>1, <4>2, <4>3, <3>3, <2>5
    <3> QED  BY <3>1, <3>2, <3>3
  <2> QED  BY <2>1, <2>7, <2>8
<1>2. k \in 0 .. k
  OBVIOUS
<1> QED  BY <1>1, <1>2

\* Where byte j of a word lies in memory.
Place(j) == IF EL THEN j ELSE 3 - j

LEMMA Places ==
    ASSUME NEW j \in 0 .. 3
    PROVE  Place(j) \in 0 .. 3 /\ Place(Place(j)) = j
BY DEF Place

LEMMA SwapBytes ==
    ASSUME NEW x \in Unsigned(WW)
    PROVE  bswap(x, 4) \in Unsigned(WW) /\ \A j \in 0 .. 3 : ByteOf(bswap(x, 4), j) = ByteOf(x, Place(j))
<1>1. CASE EL
  BY <1>1 DEF bswap, Place
<1>2. CASE ~EL
  <2> DEFINE f == [j \in 0 .. 4 - 1 |-> ByteOf(x, 4 - 1 - j) * 2^(ByteBits * j)]
             g == [j \in 0 .. 4 - 1 |-> ByteOf(x, 4 - 1 - j)]
  <2>1. bswap(x, 4) = Sum(f, 4)
    BY <1>2 DEF bswap, Reversed
  <2>2. x \in Int
    BY USmall
  <2>3. \A b \in 0 .. 8 : ByteOf(x, b) \in Unsigned(ByteBits)
    BY <2>2, ByteRange
  <2>4. \A j \in 0 .. 4 - 1 : 4 - 1 - j \in 0 .. 8 /\ 4 - 1 - j = 3 - j
    OBVIOUS
  <2>5. g \in [0 .. 4 - 1 -> Unsigned(ByteBits)] /\ \A j \in 0 .. 4 - 1 : f[j] = g[j] * 2^(ByteBits * j)
    BY <2>3, <2>4
  <2>6. \A j \in 0 .. 3 : g[j] = ByteOf(x, 3 - j)
    BY <2>4
  <2>7. 4 \in 0 .. 8 /\ 0 .. 4 - 1 = 0 .. 3
    OBVIOUS
  <2> HIDE DEF f, g
  <2>8. Sum(f, 4) \in Unsigned(ByteBits * 4) /\ \A j \in 0 .. 4 - 1 : ByteOf(Sum(f, 4), j) = g[j]
    BY <2>5, <2>7, SumBytes
  <2>9. Unsigned(ByteBits * 4) = Unsigned(WW)
    BY ZeroPow DEF Unsigned
  <2> QED  BY <1>2, <2>1, <2>6, <2>7, <2>8, <2>9 DEF Place
<1> QED  BY <1>1, <1>2

LEMMA LoadBytes ==
    ASSUME NEW m \in Memories, NEW a \in Nat
    PROVE  Load(m, a, 4) \in Unsigned(WW) /\ \A j \in 0 .. 3 : ByteOf(Load(m, a, 4), j) = ByteAt(m, a + Place(j))
<1> DEFINE f == [j \in 0 .. 4 - 1 |-> ByteAt(m, a + j) * 2^(ByteBits * j)]
           g == [j \in 0 .. 4 - 1 |-> ByteAt(m, a + j)]
<1>1. get(m, a, 4) = Sum(f, 4)
  BY DEF get
<1>2. g \in [0 .. 4 - 1 -> Unsigned(ByteBits)] /\ \A j \in 0 .. 4 - 1 : f[j] = g[j] * 2^(ByteBits * j)
  BY ByteAtRange
<1>3. 4 \in 0 .. 8 /\ 0 .. 4 - 1 = 0 .. 3
  OBVIOUS
<1>4. \A j \in 0 .. 3 : g[j] = ByteAt(m, a + j)
  BY <1>3
<1> HIDE DEF f, g
<1>5. Sum(f, 4) \in Unsigned(ByteBits * 4) /\ \A j \in 0 .. 4 - 1 : ByteOf(Sum(f, 4), j) = g[j]
  BY <1>2, <1>3, SumBytes
<1>6. Unsigned(ByteBits * 4) = Unsigned(WW)
  BY ZeroPow DEF Unsigned
<1>7. get(m, a, 4) \in Unsigned(WW) /\ \A j \in 0 .. 3 : ByteOf(get(m, a, 4), j) = ByteAt(m, a + j)
  BY <1>1, <1>3, <1>4, <1>5, <1>6
<1>8. /\ Load(m, a, 4) \in Unsigned(WW)
      /\ \A j \in 0 .. 3 : ByteOf(Load(m, a, 4), j) = ByteOf(get(m, a, 4), Place(j))
  BY <1>7, SwapBytes DEF Load
<1> QED  BY <1>7, <1>8, Places

LEMMA StoreBytes ==
    ASSUME NEW m \in Memories, NEW a \in Nat, NEW v \in Unsigned(WW)
    PROVE  /\ Store(m, a, 4, v) \in Memories
           /\ \A j \in 0 .. 3 : ByteAt(Store(m, a, 4, v), a + j) = ByteOf(v, Place(j))
           /\ \A b : b \notin a .. a + 3 => ByteAt(Store(m, a, 4, v), b) = ByteAt(m, b)
<1> DEFINE y == bswap(v, 4)
           n == Store(m, a, 4, v)
<1>1. y \in Unsigned(WW) /\ (\A j \in 0 .. 3 : ByteOf(y, j) = ByteOf(v, Place(j))) /\ v \in Int
  BY SwapBytes, USmall
<1>2. n = set(m, a, 4, y)
  <2>1. U(v, 4 * ByteBits) = v
    <3>1. 4 * ByteBits = WW
      BY Widths
    <3> QED  BY <3>1, USmall
  <2> QED  BY <2>1 DEF Store
<1> HIDE DEF y
<1>3. n \in Memories
  BY <1>1, StoreRange
<1> HIDE DEF n
<1>4. a + 4 - 1 = a + 3
  OBVIOUS
<1>5. n = [b \in DOMAIN m \cup (a .. a + 3) |-> IF b \in a .. a + 3 THEN ByteOf(y, b - a) ELSE m[b]]
  BY <1>2, <1>4 DEF set
<1>6. ASSUME NEW j \in 0 .. 3 PROVE ByteAt(n, a + j) = ByteOf(v, Place(j))
  <2>1. a + j \in a .. a + 3 /\ (a + j) - a = j
    OBVIOUS
  <2> QED  BY <2>1, <1>1, <1>5 DEF ByteAt
<1>7. ASSUME NEW b, b \notin a .. a + 3 PROVE ByteAt(n, b) = ByteAt(m, b)
  BY <1>5, <1>7 DEF ByteAt
<1> QED  BY <1>3, <1>6, <1>7 DEF n

-----------------------------------------------------------------------------
(* What the unaligned accesses put together.                               *)

\* The low bytes of x above the low k bytes of y.
LEMMA ShiftedOver ==
    ASSUME NEW k \in 0 .. 4, NEW x \in Unsigned(WW), NEW y \in Unsigned(WW),
           NEW v, v = (U(x * 2^(ByteBits * k), WW) | (y % 2^(ByteBits * k)))
    PROVE  /\ v \in Unsigned(WW)
           /\ \A j \in 0 .. 3 : ByteOf(v, j) = IF j < k THEN ByteOf(y, j) ELSE ByteOf(x, j - k)
<1> DEFINE c == 2^(ByteBits * (4 - k))
           d == 2^(ByteBits * k)
           h == x % c
           l == y % d
<1>1. 4 - k \in 0 .. 8 /\ k \in 0 .. 8 /\ (4 - k) + k <= 8 /\ (4 - k) + k = 4
  OBVIOUS
<1>2. 2^WW = c * d /\ c \in Int /\ c > 0 /\ d \in Int /\ d > 0
  <2>1. 2^(ByteBits * ((4 - k) + k)) = c * d /\ c \in Int /\ c > 0 /\ d \in Int /\ d > 0
    BY <1>1, BytePows
  <2> QED  BY <1>1, <2>1, ZeroPow
<1>3. x \in Int /\ y \in Int
  BY USmall
<1>4. h \in Int /\ 0 <= h /\ h < c /\ l \in Int /\ 0 <= l /\ l < d
  <2> HIDE DEF c, d
  <2> QED  BY <1>2, <1>3, DivMod
<1>5. U(x * d, WW) = h * d
  <2>1. U(x * d, WW) = (x * d) % (c * d)
    BY <1>2 DEF U
  <2> HIDE DEF c, d
  <2>2. x * d \in Int /\ x * d = x * d + 0
    BY <1>2, <1>3
  <2>3. (x * d) \div d = x /\ (x * d) % d = 0
    BY <1>2, <1>3, <2>2, DivModUnique
  <2>4. (x * d) % (c * d) = (((x * d) \div d) % c) * d + ((x * d) % d)
    BY <1>2, <2>2, ModOfProduct
  <2>5. h * d \in Int
    BY <1>2, <1>4
  <2> QED  BY <2>1, <2>3, <2>4, <2>5
<1>6. v = h * d + l
  <2>1. (h * d) % d = 0 /\ h * d \in Int
    <3> HIDE DEF c, d, h
    <3>1. h * d \in Int /\ h * d = h * d + 0
      BY <1>2, <1>4
    <3> QED  BY <3>1, <1>2, <1>4, DivModUnique
  <2>2. ByteBits * k \in 0 .. DW
    BY <1>1, ShiftPow
  <2>3. l \in 0 .. (2^(ByteBits * k) - 1)
    <3> HIDE DEF l
    <3> QED  BY <1>2, <1>4
  <2>4. ((h * d) | l) = l + h * d
    <3> DEFINE e == h * d
    <3>1. e \in Int /\ e % 2^(ByteBits * k) = 0
      BY <2>1
    <3> HIDE DEF e, l
    <3>2. (e | l) = l + e
      BY <3>1, <2>2, <2>3, OrDisjoint
    <3> QED  BY <3>2 DEF e
  <2>5. v = ((h * d) | l)
    BY <1>5
  <2> HIDE DEF h, d, l
  <2> QED  BY <2>1, <2>4, <2>5, <1>4
<1>7. v \in Unsigned(WW)
  <2> HIDE DEF c, d, h, l
  <2>1. h * d <= (c - 1) * d /\ 0 <= h * d /\ h * d \in Int
    BY <1>2, <1>4, MulLeq
  <2>2. (c - 1) * d = c * d - d /\ c * d \in Int
    BY <1>2
  <2> QED  BY <2>1, <2>2, <1>2, <1>4, <1>6 DEF Unsigned
<1>8. ASSUME NEW j \in 0 .. 3
      PROVE  ByteOf(v, j) = IF j < k THEN ByteOf(y, j) ELSE ByteOf(x, j - k)
  <2>1. j \in 0 .. 7 /\ l \in Unsigned(ByteBits * k)
    <3> HIDE DEF l
    <3> QED  BY <1>2, <1>4 DEF Unsigned
  <2>2. CASE j < k
    <3>1. ByteOf(h * d + l, j) = ByteOf(l, j)
      <4> HIDE DEF h, l
      <4> QED  BY <1>1, <1>4, <2>1, <2>2, ByteOfJoin
    <3>2. ByteOf(l, j) = ByteOf(y, j)
      BY <1>1, <1>3, <2>1, <2>2, ByteOfPart
    <3> HIDE DEF h, d, l
    <3> QED  BY <3>1, <3>2, <1>6, <2>2
  <2>3. CASE ~(j < k)
    <3>1. ByteOf(h * d + l, j) = ByteOf(h, j - k)
      <4> HIDE DEF h, l
      <4> QED  BY <1>1, <1>4, <2>1, <2>3, ByteOfJoin
    <3>2. ByteOf(h, j - k) = ByteOf(x, j - k)
      <4>1. j - k \in 0 .. 7 /\ j - k < 4 - k
        BY <2>3
      <4> QED  BY <4>1, <1>1, <1>3, ByteOfPart
    <3> HIDE DEF h, d, l
    <3> QED  BY <3>1, <3>2, <1>6, <2>3
  <2> QED  BY <2>2, <2>3
<1> QED  BY <1>7, <1>8

\* The high bytes of x, from k on, above the high k bytes of y.
LEMMA HighOver ==
    ASSUME NEW k \in 0 .. 4, NEW x \in Unsigned(WW), NEW y \in Unsigned(WW),
           NEW v, v = ((x - (x % 2^(ByteBits * k))) | (y \div 2^(ByteBits * (4 - k))))
    PROVE  /\ v \in Unsigned(WW)
           /\ \A j \in 0 .. 3 : ByteOf(v, j) = IF j < k THEN ByteOf(y, j + (4 - k)) ELSE ByteOf(x, j)
<1> DEFINE c == 2^(ByteBits * (4 - k))
           d == 2^(ByteBits * k)
           h == x \div d
           l == y \div c
<1>1. 4 - k \in 0 .. 8 /\ k \in 0 .. 8 /\ (4 - k) + k <= 8 /\ (4 - k) + k = 4
  OBVIOUS
<1>2. 2^WW = c * d /\ c \in Int /\ c > 0 /\ d \in Int /\ d > 0
  <2>1. 2^(ByteBits * ((4 - k) + k)) = c * d /\ c \in Int /\ c > 0 /\ d \in Int /\ d > 0
    BY <1>1, BytePows
  <2> QED  BY <1>1, <2>1, ZeroPow
<1>3. x \in Int /\ y \in Int /\ 0 <= x /\ x < c * d /\ 0 <= y /\ y < c * d
  BY <1>2, USmall
<1>4. h \in Int /\ l \in Int /\ 0 <= l /\ l < d /\ x - (x % d) = h * d /\ h * d \in Int /\ 0 <= h /\ h < c
  <2> HIDE DEF c, d
  <2>1. h \in Int /\ x % d \in Int /\ x = h * d + (x % d) /\ 0 <= x % d /\ x % d < d
    BY <1>2, <1>3, DivMod
  <2>2. l \in Int /\ y % c \in Int /\ y = l * c + (y % c) /\ 0 <= y % c /\ y % c < c
    BY <1>2, <1>3, DivMod
  <2> HIDE DEF h, l
  <2>3. h * d \in Int /\ l * c \in Int /\ d * c = c * d /\ c * d \in Int
    BY <1>2, <2>1, <2>2
  <2>4. 0 <= h
    <3>1. SUFFICES ASSUME h <= -1 PROVE FALSE
      BY <2>1
    <3>2. h * d <= (-1) * d
      BY <3>1, <1>2, <2>1, MulLeq
    <3> QED  BY <3>2, <1>2, <1>3, <2>1
  <2>5. h < c
    <3>1. SUFFICES ASSUME c <= h PROVE FALSE
      BY <1>2, <2>1
    <3>2. c * d <= h * d
      BY <3>1, <1>2, <2>1, MulLeq
    <3> QED  BY <3>2, <1>3, <2>1, <2>3
  <2>6. 0 <= l
    <3>1. SUFFICES ASSUME l <= -1 PROVE FALSE
      BY <2>2
    <3>2. l * c <= (-1) * c
      BY <3>1, <1>2, <2>2, MulLeq
    <3> QED  BY <3>2, <1>2, <1>3, <2>2
  <2>7. l < d
    <3>1. SUFFICES ASSUME d <= l PROVE FALSE
      BY <1>2, <2>2
    <3>2. d * c <= l * c
      BY <3>1, <1>2, <2>2, MulLeq
    <3> QED  BY <3>2, <1>3, <2>2, <2>3
  <2> QED  BY <2>1, <2>2, <2>3, <2>4, <2>5, <2>6, <2>7
<1>5. v = h * d + l
  <2>1. (h * d) % d = 0
    <3> HIDE DEF c, d, h
    <3>1. h * d = h * d + 0
      BY <1>4
    <3> QED  BY <3>1, <1>2, <1>4, DivModUnique
  <2>2. ByteBits * k \in 0 .. DW
    BY <1>1, ShiftPow
  <2>3. l \in 0 .. (2^(ByteBits * k) - 1)
    <3> HIDE DEF l
    <3> QED  BY <1>2, <1>4
  <2>4. ((h * d) | l) = l + h * d
    <3> DEFINE e == h * d
    <3>1. e \in Int /\ e % 2^(ByteBits * k) = 0
      BY <2>1, <1>4
    <3> HIDE DEF e, l
    <3>2. (e | l) = l + e
      BY <3>1, <2>2, <2>3, OrDisjoint
    <3> QED  BY <3>2 DEF e
  <2>5. v = ((h * d) | l)
    BY <1>4
  <2> HIDE DEF h, d, l
  <2> QED  BY <2>4, <2>5, <1>4
<1>6. v \in Unsigned(WW)
  <2> HIDE DEF c, d, h, l
  <2>1. h * d <= (c - 1) * d /\ 0 <= h * d
    BY <1>2, <1>4, MulLeq
  <2>2. (c - 1) * d = c * d - d /\ c * d \in Int
    BY <1>2
  <2> QED  BY <2>1, <2>2, <1>2, <1>4, <1>5 DEF Unsigned
<1>7. ASSUME NEW j \in 0 .. 3
      PROVE  ByteOf(v, j) = IF j < k THEN ByteOf(y, j + (4 - k)) ELSE ByteOf(x, j)
  <2>1. j \in 0 .. 7 /\ l \in Unsigned(ByteBits * k)
    <3> HIDE DEF l
    <3> QED  BY <1>2, <1>4 DEF Unsigned
  <2>2. CASE j < k
    <3>1. ByteOf(h * d + l, j) = ByteOf(l, j)
      <4> HIDE DEF h, l
      <4> QED  BY <1>1, <1>4, <2>1, <2>2, ByteOfJoin
    <3>2. ByteOf(l, j) = ByteOf(y, j + (4 - k))
      <4>1. j + (4 - k) <= 8
        BY <2>2
      <4> QED  BY <4>1, <1>1, <1>3, <2>1, ByteOfPart
    <3> HIDE DEF h, d, l
    <3> QED  BY <3>1, <3>2, <1>5, <2>2
  <2>3. CASE ~(j < k)
    <3>1. ByteOf(h * d + l, j) = ByteOf(h, j - k)
      <4> HIDE DEF h, l
      <4> QED  BY <1>1, <1>4, <2>1, <2>3, ByteOfJoin
    <3>2. ByteOf(h, j - k) = ByteOf(x, j)
      <4>1. j - k \in 0 .. 7 /\ (j - k) + k <= 8 /\ (j - k) + k = j
        BY <2>3
      <4>2. ByteOf(h, j - k) = ByteOf(x, (j - k) + k)
        BY <4>1, <1>1, <1>3, ByteOfPart
      <4> QED  BY <4>1, <4>2
    <3> HIDE DEF h, d, l
    <3> QED  BY <3>1, <3>2, <1>5, <2>3
  <2> QED  BY <2>2, <2>3
<1> QED  BY <1>6, <1>7

LEMMA GprIs ==
    ASSUME NEW x \in States(WW), NEW r \in Registers, NEW v \in Unsigned(WW)
    PROVE  LET y == Gpr(x, r, v)
           IN  /\ y \in States(WW) /\ y.frames = x.frames /\ y.mem = x.mem
               /\ y.gpr[r] = v /\ \A q \in Registers : q # r => y.gpr[q] = x.gpr[q]
<1>1. v \in Int /\ U(v, WW) = v
  BY USmall
<1>2. Straight(x, Gpr(x, r, v)) /\ x.w = WW
  BY <1>1, GprStraight, Reads
<1>3. x.gpr \in [Registers -> Unsigned(WW)]
  BY DEF States
<1>4. Gpr(x, r, v).gpr = [x.gpr EXCEPT ![r] = v] /\ Gpr(x, r, v).mem = x.mem
  BY <1>1, <1>2 DEF Gpr, Adv, States
<1> QED  BY <1>2, <1>3, <1>4 DEF Straight

LEMMA MemIs ==
    ASSUME NEW x \in States(WW), NEW a \in Nat, NEW v \in Unsigned(WW)
    PROVE  LET y == Mem(x, a, 4, v)
           IN  /\ y \in States(WW) /\ y.frames = x.frames /\ y.gpr = x.gpr /\ y.mem = Store(x.mem, a, 4, v)
<1>1. v \in Int /\ 4 \in {1, 2, 4, 8}
  BY USmall
<1>2. Straight(x, Mem(x, a, 4, v)) /\ x.w = WW
  BY <1>1, MemStraight, Reads
<1> QED  BY <1>2 DEF Straight, Mem, Adv, States

LEMMA WholeBytes ==
    ASSUME NEW k \in 0 .. 4
    PROVE  ByteBits * k \in 0 .. WW /\ ByteBits * k \in 0 .. DW /\ (k < 4 => ByteBits * k < WW)
BY Widths

LEMMA LwlIs ==
    ASSUME NEW x \in States(WW), NEW i, Ready(i), NEW y, y = _lwl(x, i)
    PROVE  /\ y \in States(WW) /\ y.frames = x.frames /\ y.mem = x.mem
           /\ \A q \in Registers : q # i.rt => y.gpr[q] = x.gpr[q]
           /\ \A j \in 0 .. 3 : ByteOf(y.gpr[i.rt], j) =
                  IF j < ma(x, i) THEN ByteOf(x.gpr[i.rt], j) ELSE ByteAt(x.mem, Aligned(x, i) + Place(j - ma(x, i)))
<1> DEFINE k == ma(x, i)
           a == Aligned(x, i)
           old == OldWord(x, i)
           rt == x.gpr[i.rt]
           v == U(old * 2^(ByteBits * k), WW) | (rt % 2^(ByteBits * k))
<1>1. k \in 0 .. 3 /\ k \in 0 .. 4 /\ a \in Nat /\ rt \in Unsigned(WW) /\ rt \in Int /\ i.rt \in Registers /\ x.mem \in Memories
  BY AddressRange, Reads, Fields
<1>2. old \in Unsigned(WW) /\ \A j \in 0 .. 3 : ByteOf(old, j) = ByteAt(x.mem, a + Place(j))
  BY <1>1, LoadBytes DEF OldWord
<1> HIDE DEF k, a, old, rt
<1>3. (rt & Low(k)) = rt % 2^(ByteBits * k)
  <2>1. ByteBits * k \in 0 .. DW
    BY <1>1, WholeBytes
  <2> QED  BY <2>1, <1>1, AndMask DEF Low
<1>4. y = Gpr(x, i.rt, v)
  BY <1>3 DEF _lwl, k, old, rt
<1>5. v \in Unsigned(WW) /\ \A j \in 0 .. 3 : ByteOf(v, j) = IF j < k THEN ByteOf(rt, j) ELSE ByteOf(old, j - k)
  BY <1>1, <1>2, ShiftedOver
<1> HIDE DEF v
<1>6. /\ y \in States(WW) /\ y.frames = x.frames /\ y.mem = x.mem
      /\ y.gpr[i.rt] = v /\ \A q \in Registers : q # i.rt => y.gpr[q] = x.gpr[q]
  BY <1>1, <1>4, <1>5, GprIs
<1>7. \A j \in 0 .. 3 : ~(j < k) => j - k \in 0 .. 3
  BY <1>1
<1>8. \A j \in 0 .. 3 : ByteOf(v, j) = IF j < k THEN ByteOf(rt, j) ELSE ByteAt(x.mem, a + Place(j - k))
  BY <1>2, <1>5, <1>7
<1> QED  BY <1>6, <1>8 DEF k, a, rt

LEMMA LwrIs ==
    ASSUME NEW x \in States(WW), NEW i, Ready(i), NEW y, y = _lwr(x, i)
    PROVE  /\ y \in States(WW) /\ y.frames = x.frames /\ y.mem = x.mem /\ y.gpr[i.rt] \in Unsigned(WW)
           /\ \A j \in 0 .. 3 : ByteOf(y.gpr[i.rt], j) =
                  IF j <= ma(x, i) THEN ByteAt(x.mem, Aligned(x, i) + Place(j + (3 - ma(x, i)))) ELSE ByteOf(x.gpr[i.rt], j)
<1> DEFINE n == ma(x, i)
           k == n + 1
           a == Aligned(x, i)
           old == OldWord(x, i)
           rt == x.gpr[i.rt]
           v == (rt - (rt % 2^(ByteBits * k))) | (old \div 2^(ByteBits * (4 - k)))
<1>1. n \in 0 .. 3 /\ k \in 0 .. 4 /\ a \in Nat /\ rt \in Unsigned(WW) /\ rt \in Int /\ i.rt \in Registers /\ x.mem \in Memories
  BY AddressRange, Reads, Fields
<1>2. old \in Unsigned(WW) /\ \A j \in 0 .. 3 : ByteOf(old, j) = ByteAt(x.mem, a + Place(j))
  BY <1>1, LoadBytes DEF OldWord
<1>3. (rt & High(k)) = rt - (rt % 2^(ByteBits * k))
  <2> HIDE DEF n, k, a, old, rt
  <2>1. ByteBits * k \in 0 .. WW /\ WW \in 0 .. DW
    BY <1>1, WholeBytes, Widths
  <2> QED  BY <2>1, <1>1, AndHigh DEF High, Low
<1>4. y = Gpr(x, i.rt, v)
  <2>1. y = Gpr(x, i.rt, (rt & High(k)) | (old \div 2^(ByteBits * (4 - k))))
    BY DEF _lwr
  <2> QED  BY <2>1, <1>3
<1> HIDE DEF k, a, old, rt
<1>5. v \in Unsigned(WW) /\ \A j \in 0 .. 3 : ByteOf(v, j) = IF j < k THEN ByteOf(old, j + (4 - k)) ELSE ByteOf(rt, j)
  BY <1>1, <1>2, HighOver
<1> HIDE DEF v, n
<1>6. /\ y \in States(WW) /\ y.frames = x.frames /\ y.mem = x.mem /\ y.gpr[i.rt] = v
  BY <1>1, <1>4, <1>5, GprIs
<1>7. \A j \in 0 .. 3 : /\ j < k <=> j <= n
                        /\ j < k => j + (4 - k) \in 0 .. 3 /\ j + (4 - k) = j + (3 - n)
  BY <1>1 DEF k
<1>8. \A j \in 0 .. 3 : ByteOf(v, j) = IF j <= n THEN ByteAt(x.mem, a + Place(j + (3 - n))) ELSE ByteOf(rt, j)
  BY <1>2, <1>5, <1>7
<1> QED  BY <1>5, <1>6, <1>8 DEF n, a, rt

LEMMA SwrIs ==
    ASSUME NEW x \in States(WW), NEW i, Ready(i), NEW y, y = _swr(x, i)
    PROVE  /\ y.mem \in Memories
           /\ \A b : b \notin Aligned(x, i) .. Aligned(x, i) + 3 => ByteAt(y.mem, b) = ByteAt(x.mem, b)
           /\ \A j \in 0 .. 3 : ByteAt(y.mem, Aligned(x, i) + Place(j)) =
                  IF j < 3 - ma(x, i) THEN ByteAt(x.mem, Aligned(x, i) + Place(j)) ELSE ByteOf(x.gpr[i.rt], j - (3 - ma(x, i)))
<1> DEFINE k == 3 - ma(x, i)
           a == Aligned(x, i)
           old == OldWord(x, i)
           rt == x.gpr[i.rt]
           v == U(rt * 2^(ByteBits * k), WW) | (old % 2^(ByteBits * k))
<1>1. k \in 0 .. 4 /\ a \in Nat /\ rt \in Unsigned(WW) /\ i.rt \in Registers /\ x.mem \in Memories
  BY AddressRange, Reads, Fields
<1>2. old \in Unsigned(WW) /\ \A j \in 0 .. 3 : ByteOf(old, j) = ByteAt(x.mem, a + Place(j))
  BY <1>1, LoadBytes DEF OldWord
<1>3. (Low(k) & old) = old % 2^(ByteBits * k)
  <2> HIDE DEF k, old
  <2>1. ByteBits * k \in 0 .. DW /\ old \in Int
    BY <1>1, <1>2, WholeBytes, USmall
  <2> QED  BY <2>1, AndMask DEF Low
<1>4. y = Mem(x, a, 4, v)
  <2>1. y = Mem(x, a, 4, U(rt * 2^(ByteBits * k), WW) | (Low(k) & old))
    BY DEF _swr
  <2> QED  BY <2>1, <1>3
<1> HIDE DEF k, a, old, rt
<1>5. v \in Unsigned(WW) /\ \A j \in 0 .. 3 : ByteOf(v, j) = IF j < k THEN ByteOf(old, j) ELSE ByteOf(rt, j - k)
  BY <1>1, <1>2, ShiftedOver
<1> HIDE DEF v
<1>6. y.mem = Store(x.mem, a, 4, v)
  BY <1>1, <1>4, <1>5, MemIs, ZenonT(40)
<1>7. /\ y.mem \in Memories
      /\ \A j \in 0 .. 3 : ByteAt(y.mem, a + j) = ByteOf(v, Place(j))
      /\ \A b : b \notin a .. a + 3 => ByteAt(y.mem, b) = ByteAt(x.mem, b)
  <2>1. x.mem \in Memories /\ a \in Nat /\ v \in Unsigned(WW)
    BY <1>1, <1>5
  <2> QED  BY <2>1, <1>6, StoreBytes
<1>8. \A j \in 0 .. 3 : ByteAt(y.mem, a + Place(j)) = ByteOf(v, j)
  BY <1>7, Places
<1>9. \A j \in 0 .. 3 : ByteAt(y.mem, a + Place(j)) = IF j < k THEN ByteAt(x.mem, a + Place(j)) ELSE ByteOf(rt, j - k)
  BY <1>2, <1>5, <1>8
<1> QED  BY <1>7, <1>9 DEF k, a, rt

\* An aligned swl is left open: what it stores depends on the build.
LEMMA SwlIs ==
    ASSUME NEW x \in States(WW), NEW i, Ready(i), NEW y, y = _swl(x, i)
    PROVE  /\ y \in States(WW) /\ y.frames = x.frames /\ y.gpr = x.gpr
           /\ \A b : b \notin Aligned(x, i) .. Aligned(x, i) + 3 => ByteAt(y.mem, b) = ByteAt(x.mem, b)
           /\ ma(x, i) # 0 =>
                 \A j \in 0 .. 3 : ByteAt(y.mem, Aligned(x, i) + Place(j)) =
                     IF j < 4 - ma(x, i) THEN ByteOf(x.gpr[i.rt], j + ma(x, i)) ELSE ByteAt(x.mem, Aligned(x, i) + Place(j))
<1> DEFINE k == ma(x, i)
           a == Aligned(x, i)
           old == OldWord(x, i)
           rt == x.gpr[i.rt]
           m == Inv(Shl1(ByteBits * (4 - k), i.u) - 1, WW)
           v == (old & m) | (rt \div 2^(ByteBits * k))
<1>1. k \in 0 .. 3 /\ k \in 0 .. 4 /\ 4 - k \in 0 .. 4 /\ a \in Nat /\ rt \in Unsigned(WW) /\ i.rt \in Registers /\ x.mem \in Memories /\ i.u \in {0, 1}
  BY AddressRange, Reads, Fields
<1>2. old \in Unsigned(WW) /\ \A j \in 0 .. 3 : ByteOf(old, j) = ByteAt(x.mem, a + Place(j))
  BY <1>1, LoadBytes DEF OldWord
<1>3. y = Mem(x, a, 4, v)
  BY DEF _swl
<1> HIDE DEF k, a, old, rt
<1>4. k # 0 => /\ v \in Unsigned(WW)
               /\ \A j \in 0 .. 3 : ByteOf(v, j) = IF j < 4 - k THEN ByteOf(rt, j + k) ELSE ByteOf(old, j)
  <2>1. SUFFICES ASSUME k # 0
                 PROVE  /\ v \in Unsigned(WW)
                        /\ \A j \in 0 .. 3 : ByteOf(v, j) = IF j < 4 - k THEN ByteOf(rt, j + k) ELSE ByteOf(old, j)
    OBVIOUS
  <2> DEFINE n == 4 - k
  <2>2. n \in 0 .. 4 /\ n < 4 /\ 4 - n = k
    BY <1>1, <2>1
  <2>3. m = Inv(2^(ByteBits * n) - 1, WW)
    <3> HIDE DEF n
    <3>1. ByteBits * n < WW
      BY <2>2, WholeBytes
    <3> QED  BY <3>1 DEF n, Shl1
  <2> HIDE DEF n, m
  <2>4. (old & m) = old - (old % 2^(ByteBits * n))
    <3>1. ByteBits * n \in 0 .. WW /\ WW \in 0 .. DW
      BY <2>2, WholeBytes, Widths
    <3> QED  BY <3>1, <2>3, <1>2, AndHigh
  <2>5. v = ((old - (old % 2^(ByteBits * n))) | (rt \div 2^(ByteBits * (4 - n))))
    BY <2>2, <2>4
  <2> HIDE DEF v
  <2>6. v \in Unsigned(WW) /\ \A j \in 0 .. 3 : ByteOf(v, j) = IF j < n THEN ByteOf(rt, j + (4 - n)) ELSE ByteOf(old, j)
    BY <2>2, <2>5, <1>1, <1>2, HighOver
  <2> QED  BY <2>2, <2>6 DEF n
<1>5. k = 0 => v \in Unsigned(WW)
  <2>1. SUFFICES ASSUME k = 0 PROVE v \in Unsigned(WW)
    OBVIOUS
  <2>2. rt \div 2^(ByteBits * k) = rt
    <3>1. 2^(ByteBits * k) = 1
      BY <2>1, ZeroPow
    <3>2. rt \in Int /\ rt \div 1 = rt
      BY <1>1, USmall
    <3> QED  BY <3>1, <3>2
  <2>3. m \in Unsigned(WW)
    <3>1. Shl1(ByteBits * (4 - k), i.u) - 1 \in Int
      <4>1. Shl1(ByteBits * (4 - k), 0) \in Int /\ Shl1(ByteBits * (4 - k), 1) \in Int
        BY <1>1, LowRange
      <4> QED  BY <4>1, <1>1
    <3> QED  BY <3>1, InvInt
  <2> HIDE DEF m
  <2>4. WW \in 0 .. DW
    BY Widths
  <2>5. (old & m) \in Unsigned(WW)
    BY <2>3, <2>4, <1>2, BitwiseRange DEF Unsigned
  <2>6. ((old & m) | rt) \in Unsigned(WW)
    <3> DEFINE e == old & m
    <3>1. e \in Unsigned(WW)
      BY <2>5
    <3> HIDE DEF e
    <3>2. (e | rt) \in Unsigned(WW)
      BY <3>1, <2>4, <1>1, BitwiseRange DEF Unsigned
    <3> QED  BY <3>2 DEF e
  <2> QED  BY <2>2, <2>6
<1> HIDE DEF v, m
<1>6. v \in Unsigned(WW)
  BY <1>4, <1>5
<1>7. y \in States(WW) /\ y.frames = x.frames /\ y.gpr = x.gpr /\ y.mem = Store(x.mem, a, 4, v)
  <2>1. a \in Nat
    BY <1>1
  <2>2. /\ Mem(x, a, 4, v) \in States(WW) /\ Mem(x, a, 4, v).frames = x.frames
        /\ Mem(x, a, 4, v).gpr = x.gpr /\ Mem(x, a, 4, v).mem = Store(x.mem, a, 4, v)
    BY <2>1, <1>6, MemIs
  <2> QED  BY <2>2, <1>3
<1>8. /\ \A j \in 0 .. 3 : ByteAt(y.mem, a + j) = ByteOf(v, Place(j))
      /\ \A b : b \notin a .. a + 3 => ByteAt(y.mem, b) = ByteAt(x.mem, b)
  <2>1. x.mem \in Memories /\ a \in Nat
    BY <1>1
  <2> QED  BY <2>1, <1>6, <1>7, StoreBytes
<1>9. \A j \in 0 .. 3 : ByteAt(y.mem, a + Place(j)) = ByteOf(v, j)
  BY <1>8, Places
<1>10. k # 0 => \A j \in 0 .. 3 : ByteAt(y.mem, a + Place(j)) =
                    IF j < 4 - k THEN ByteOf(rt, j + k) ELSE ByteAt(x.mem, a + Place(j))
  BY <1>2, <1>4, <1>9
<1> QED  BY <1>7, <1>8, <1>10 DEF k, a, rt

\* The place in its word of an address, and where that word starts.
InWord(e) == IF EL THEN 3 - (e % 4) ELSE e % 4
WordOf(e) == e - (e % 4)

\* The addresses of the two accesses of a pair to the word at a.
FirstOf(a) == IF EL THEN a + 3 ELSE a
SecondOf(a) == IF EL THEN a ELSE a + 3

\* Byte j of the unaligned word at a lies in the word of g, the address of the
\* second access, or else in the word of f, that of the first.
Covers(a, f, g, j) ==
    /\ InWord(f) \in 0 .. 3 /\ InWord(g) \in 0 .. 3 /\ WordOf(f) \in Nat /\ WordOf(g) \in Nat
    /\ j <= InWord(g) => /\ j + (3 - InWord(g)) \in 0 .. 3
                         /\ WordOf(g) + Place(j + (3 - InWord(g))) = a + Place(j)
    /\ j > InWord(g) => /\ InWord(f) # 0 /\ j - InWord(f) \in 0 .. 3 /\ j - InWord(f) < 4 - InWord(f)
                        /\ WordOf(f) + Place(j - InWord(f)) = a + Place(j)
                        /\ a + Place(j) \notin WordOf(g) .. WordOf(g) + 3

LEMMA PairPlaces ==
    ASSUME NEW a \in Nat, NEW f, NEW g, f = FirstOf(a), g = SecondOf(a), NEW j \in 0 .. 3
    PROVE  Covers(a, f, g, j)
<1>1. a \in Int /\ a % 4 \in 0 .. 3 /\ (a + 3) % 4 = (IF a % 4 = 0 THEN 3 ELSE (a % 4) - 1)
  OBVIOUS
<1> DEFINE r == a % 4
<1>2. a - r \in Nat
  OBVIOUS
<1> HIDE DEF r
<1>3. r \in 0 .. 3 /\ a % 4 = r /\ (a + 3) % 4 = (IF r = 0 THEN 3 ELSE r - 1)
  BY <1>1 DEF r
<1>4. CASE EL
  BY <1>2, <1>3, <1>4 DEF Covers, InWord, WordOf, Place, FirstOf, SecondOf
<1>5. CASE ~EL
  BY <1>2, <1>3, <1>5 DEF Covers, InWord, WordOf, Place, FirstOf, SecondOf
<1> QED  BY <1>4, <1>5

\* A byte that a store of the pair replaces belongs to the unaligned word.
LEMMA PairTouches ==
    ASSUME NEW a \in Nat, NEW f, NEW g, f = FirstOf(a), g = SecondOf(a), NEW j \in 0 .. 3
    PROVE  /\ ~(j < 3 - InWord(g)) => WordOf(g) + Place(j) \in a .. a + 3
           /\ j < 4 - InWord(f) => WordOf(f) + Place(j) \in a .. a + 3
<1>1. a \in Int /\ a % 4 \in 0 .. 3 /\ (a + 3) % 4 = (IF a % 4 = 0 THEN 3 ELSE (a % 4) - 1)
  OBVIOUS
<1> DEFINE r == a % 4
<1> HIDE DEF r
<1>2. r \in 0 .. 3 /\ a % 4 = r /\ (a + 3) % 4 = (IF r = 0 THEN 3 ELSE r - 1)
  BY <1>1 DEF r
<1>3. CASE EL
  BY <1>2, <1>3 DEF InWord, WordOf, Place, FirstOf, SecondOf
<1>4. CASE ~EL
  BY <1>2, <1>4 DEF InWord, WordOf, Place, FirstOf, SecondOf
<1> QED  BY <1>3, <1>4

LEMMA InWordIs ==
    ASSUME NEW x, NEW i
    PROVE  ma(x, i) = InWord(EA(x, i)) /\ Aligned(x, i) = WordOf(EA(x, i))
BY DEF ma, Aligned, InWord, WordOf

\* An access three bytes on, where the address space does not end in between.
LEMMA ThreeOn ==
    ASSUME NEW z \in Int, U(z, WW) + 3 < 2^WW
    PROVE  U(z + 3, WW) = U(z, WW) + 3
<1> DEFINE d == 2^WW
           q == z \div d
           r == z % d
<1>1. d \in Int /\ d > 0 /\ U(z, WW) = r /\ U(z + 3, WW) = (z + 3) % d
  BY Powers DEF U
<1> HIDE DEF d
<1>2. q \in Int /\ r \in Int /\ 0 <= r /\ r < d /\ z = q * d + r
  BY <1>1, DivMod
<1>3. r + 3 < d
  BY <1>1 DEF d
<1> HIDE DEF q, r
<1>4. z + 3 = q * d + (r + 3) /\ q * d \in Int
  BY <1>1, <1>2
<1>5. (z + 3) % d = r + 3
  <2>1. z + 3 \in Int /\ r + 3 \in Int /\ 0 <= r + 3
    BY <1>2
  <2> QED  BY <2>1, <1>1, <1>2, <1>3, <1>4, DivModUnique
<1> QED  BY <1>1, <1>5

LEMMA RanIs ==
    ASSUME NEW x \in States(WW), x.frames = <<>>, NEW i, i.op \in MemoryOps, NEW y \in States(WW), y.frames = <<>>,
           LoadStore(Count(x), i) = y
    PROVE  Ran(x, i) = y
<1>1. Handler(Count(x), i) = y
  BY OneGroup DEF Handler
<1>2. Return(y) = y
  BY ReturnIs
<1>3. ~(Len(y.frames) > Len(x.frames))
  OBVIOUS
<1> QED  BY <1>1, <1>2, <1>3 DEF Ran, execMips

\* Two instructions of a pair, x the state before them and a the word's address.
Paired(x, i, e, a) ==
    /\ Ready(i) /\ Ready(e) /\ i.rs = e.rs /\ i.rt = e.rt
    /\ EA(x, i) = FirstOf(a) /\ EA(x, e) = SecondOf(a)

LEMMA SameAddress ==
    ASSUME NEW x, NEW y, NEW i, y.gpr[i.rs] = x.gpr[i.rs]
    PROVE  EA(y, i) = EA(x, i)
BY DEF EA

LEMMA LoadPair ==
    ASSUME NEW x \in States(WW), x.frames = <<>>, NEW i, NEW e, NEW a \in Nat, Paired(x, i, e, a),
           i.op = "lwl", e.op = "lwr", i.rs # i.rt
    PROVE  Ran(Ran(x, i), e).gpr[i.rt] = Load(x.mem, a, 4)
<1> DEFINE c == Count(x)
           y == _lwl(c, i)
           d == Count(y)
           z == _lwr(d, e)
           f == EA(x, i)
           g == EA(x, e)
           M(b) == ByteAt(x.mem, b)
<1>1. Ready(i) /\ Ready(e) /\ i.rs = e.rs /\ i.rt = e.rt /\ i.rs \in Registers /\ i.rt \in Registers
  BY Fields DEF Paired
<1>2. c \in States(WW) /\ c.frames = x.frames /\ c.gpr = x.gpr /\ c.mem = x.mem
  BY CountIs DEF Count, States
<1>3. EA(c, i) = f /\ EA(c, e) = g
  BY <1>2, SameAddress
<1> HIDE DEF c
<1>4. /\ y \in States(WW) /\ y.frames = x.frames /\ y.mem = x.mem
      /\ \A q \in Registers : q # i.rt => y.gpr[q] = c.gpr[q]
      /\ \A j \in 0 .. 3 : ByteOf(y.gpr[i.rt], j) =
             IF j < ma(c, i) THEN ByteOf(c.gpr[i.rt], j) ELSE ByteAt(c.mem, Aligned(c, i) + Place(j - ma(c, i)))
  <2>1. /\ y \in States(WW) /\ y.frames = c.frames /\ y.mem = c.mem
        /\ \A q \in Registers : q # i.rt => y.gpr[q] = c.gpr[q]
        /\ \A j \in 0 .. 3 : ByteOf(y.gpr[i.rt], j) =
               IF j < ma(c, i) THEN ByteOf(c.gpr[i.rt], j) ELSE ByteAt(c.mem, Aligned(c, i) + Place(j - ma(c, i)))
    BY <1>1, <1>2, LwlIs, ZenonT(40)
  <2> QED  BY <2>1, <1>2
<1> HIDE DEF y
<1>5. d \in States(WW) /\ d.frames = y.frames /\ d.gpr = y.gpr /\ d.mem = y.mem
  BY <1>4, CountIs DEF Count, States
<1>6. EA(d, e) = g
  <2>1. d.gpr[e.rs] = c.gpr[e.rs]
    BY <1>1, <1>4, <1>5
  <2> QED  BY <2>1, <1>3, SameAddress
<1>7. Ran(x, i) = y
  <2>1. LoadStore(c, i) = y /\ i.op \in MemoryOps
    BY DEF LoadStore, y, MemoryOps
  <2> QED  BY <2>1, <1>4, RanIs DEF c
<1> HIDE DEF d
<1>8. /\ z \in States(WW) /\ z.frames = d.frames /\ z.mem = d.mem /\ z.gpr[i.rt] \in Unsigned(WW)
      /\ \A j \in 0 .. 3 : ByteOf(z.gpr[i.rt], j) =
             IF j <= ma(d, e) THEN ByteAt(d.mem, Aligned(d, e) + Place(j + (3 - ma(d, e)))) ELSE ByteOf(d.gpr[i.rt], j)
  BY <1>1, <1>5, LwrIs, SMTT(40)
<1> HIDE DEF z
<1>9. Ran(y, e) = z
  <2>1. LoadStore(d, e) = z /\ e.op \in MemoryOps
    BY DEF LoadStore, z, MemoryOps
  <2> QED  BY <2>1, <1>4, <1>5, <1>8, RanIs DEF d
<1>10. f = FirstOf(a) /\ g = SecondOf(a)
  BY DEF Paired
<1>11. ma(c, i) = InWord(f) /\ Aligned(c, i) = WordOf(f) /\ ma(d, e) = InWord(g) /\ Aligned(d, e) = WordOf(g)
  BY <1>3, <1>6, InWordIs
<1> HIDE DEF f, g
<1>12. \A j \in 0 .. 3 : ByteOf(z.gpr[i.rt], j) = M(a + Place(j))
  <2> TAKE j \in 0 .. 3
  <2>1. /\ InWord(f) \in 0 .. 3 /\ InWord(g) \in 0 .. 3 /\ WordOf(f) \in Nat /\ WordOf(g) \in Nat
        /\ j <= InWord(g) => /\ j + (3 - InWord(g)) \in 0 .. 3
                             /\ WordOf(g) + Place(j + (3 - InWord(g))) = a + Place(j)
        /\ j > InWord(g) => /\ InWord(f) # 0 /\ j - InWord(f) \in 0 .. 3 /\ j - InWord(f) < 4 - InWord(f)
                            /\ WordOf(f) + Place(j - InWord(f)) = a + Place(j)
                            /\ a + Place(j) \notin WordOf(g) .. WordOf(g) + 3
    <3>1. Covers(a, f, g, j)
      BY <1>10, PairPlaces
    <3> QED  BY <3>1 DEF Covers
  <2>2. CASE j <= InWord(g)
    <3>1. ByteOf(z.gpr[i.rt], j) = ByteAt(d.mem, WordOf(g) + Place(j + (3 - InWord(g))))
      BY <2>2, <1>8, <1>11
    <3> QED  BY <3>1, <2>1, <2>2, <1>4, <1>5
  <2>3. CASE j > InWord(g)
    <3>1. ByteOf(z.gpr[i.rt], j) = ByteOf(y.gpr[i.rt], j)
      BY <2>1, <2>3, <1>5, <1>8, <1>11
    <3>2. ~(j < InWord(f))
      BY <2>1, <2>3
    <3>3. ByteOf(y.gpr[i.rt], j) = ByteAt(c.mem, WordOf(f) + Place(j - InWord(f)))
      BY <3>2, <1>4, <1>11
    <3> QED  BY <3>1, <3>3, <2>1, <2>3, <1>2
  <2> QED  BY <2>1, <2>2, <2>3
<1>13. Load(x.mem, a, 4) \in Unsigned(WW) /\ \A j \in 0 .. 3 : ByteOf(Load(x.mem, a, 4), j) = M(a + Place(j))
  BY Reads, LoadBytes
<1>14. z.gpr[i.rt] = Load(x.mem, a, 4)
  BY <1>8, <1>12, <1>13, SameBytes
<1> QED  BY <1>7, <1>9, <1>14

LEMMA StorePair ==
    ASSUME NEW x \in States(WW), x.frames = <<>>, NEW i, NEW e, NEW a \in Nat, Paired(x, i, e, a),
           i.op = "swl", e.op = "swr"
    PROVE  LET n == Ran(Ran(x, i), e).mem
           IN  /\ Load(n, a, 4) = x.gpr[i.rt]
               /\ \A b \in DOMAIN n \ (a .. a + 3) : n[b] = ByteAt(x.mem, b)
<1> DEFINE c == Count(x)
           y == _swl(c, i)
           d == Count(y)
           z == _swr(d, e)
           f == EA(x, i)
           g == EA(x, e)
           rt == x.gpr[i.rt]
<1>1. Ready(i) /\ Ready(e) /\ i.rs = e.rs /\ i.rt = e.rt /\ i.rs \in Registers /\ i.rt \in Registers
  BY Fields DEF Paired
<1>2. c \in States(WW) /\ c.frames = x.frames /\ c.gpr = x.gpr /\ c.mem = x.mem
  BY CountIs DEF Count, States
<1>3. EA(c, i) = f /\ EA(c, e) = g
  BY <1>2, SameAddress
<1> HIDE DEF c
<1>4. /\ y \in States(WW) /\ y.frames = x.frames /\ y.gpr = x.gpr
      /\ \A b : b \notin Aligned(c, i) .. Aligned(c, i) + 3 => ByteAt(y.mem, b) = ByteAt(c.mem, b)
      /\ ma(c, i) # 0 =>
            \A j \in 0 .. 3 : ByteAt(y.mem, Aligned(c, i) + Place(j)) =
                IF j < 4 - ma(c, i) THEN ByteOf(c.gpr[i.rt], j + ma(c, i)) ELSE ByteAt(c.mem, Aligned(c, i) + Place(j))
  BY <1>1, <1>2, SwlIs, SMTT(40)
<1> HIDE DEF y
<1>5. d \in States(WW) /\ d.frames = y.frames /\ d.gpr = y.gpr /\ d.mem = y.mem
  BY <1>4, CountIs DEF Count, States
<1>6. EA(d, e) = g
  BY <1>2, <1>3, <1>4, <1>5, SameAddress
<1>7. Ran(x, i) = y
  <2>1. LoadStore(c, i) = y /\ i.op \in MemoryOps
    BY DEF LoadStore, y, MemoryOps
  <2> QED  BY <2>1, <1>4, RanIs DEF c
<1> HIDE DEF d
<1>8. /\ z.mem \in Memories
      /\ \A b : b \notin Aligned(d, e) .. Aligned(d, e) + 3 => ByteAt(z.mem, b) = ByteAt(d.mem, b)
      /\ \A j \in 0 .. 3 : ByteAt(z.mem, Aligned(d, e) + Place(j)) =
             IF j < 3 - ma(d, e) THEN ByteAt(d.mem, Aligned(d, e) + Place(j)) ELSE ByteOf(d.gpr[e.rt], j - (3 - ma(d, e)))
  BY <1>1, <1>5, SwrIs
<1>9. z \in States(WW) /\ z.frames = d.frames
  <2>1. Straight(d, z) /\ d.w = WW
    BY <1>1, <1>5, UnalignedStraight, Reads
  <2> QED  BY <2>1 DEF Straight
<1> HIDE DEF z
<1>10. Ran(y, e) = z
  <2>1. LoadStore(d, e) = z /\ e.op \in MemoryOps
    BY DEF LoadStore, z, MemoryOps
  <2> QED  BY <2>1, <1>4, <1>5, <1>9, RanIs DEF d
<1>11. f = FirstOf(a) /\ g = SecondOf(a)
  BY DEF Paired
<1>12. ma(c, i) = InWord(f) /\ Aligned(c, i) = WordOf(f) /\ ma(d, e) = InWord(g) /\ Aligned(d, e) = WordOf(g)
  BY <1>3, <1>6, InWordIs
<1>13. c.gpr[i.rt] = rt /\ d.gpr[e.rt] = rt /\ rt \in Unsigned(WW)
  BY <1>1, <1>2, <1>4, <1>5, Reads
<1> HIDE DEF f, g, rt
<1>14. \A j \in 0 .. 3 : ByteAt(z.mem, a + Place(j)) = ByteOf(rt, j)
  <2> TAKE j \in 0 .. 3
  <2>1. /\ InWord(f) \in 0 .. 3 /\ InWord(g) \in 0 .. 3 /\ WordOf(f) \in Nat /\ WordOf(g) \in Nat
        /\ j <= InWord(g) => /\ j + (3 - InWord(g)) \in 0 .. 3
                             /\ WordOf(g) + Place(j + (3 - InWord(g))) = a + Place(j)
        /\ j > InWord(g) => /\ InWord(f) # 0 /\ j - InWord(f) \in 0 .. 3 /\ j - InWord(f) < 4 - InWord(f)
                            /\ WordOf(f) + Place(j - InWord(f)) = a + Place(j)
                            /\ a + Place(j) \notin WordOf(g) .. WordOf(g) + 3
    <3>1. Covers(a, f, g, j)
      BY <1>11, PairPlaces
    <3> QED  BY <3>1 DEF Covers
  <2>2. CASE j <= InWord(g)
    <3> DEFINE k == j + (3 - InWord(g))
    <3>1. k \in 0 .. 3 /\ ~(k < 3 - InWord(g)) /\ k - (3 - InWord(g)) = j
      BY <2>1, <2>2
    <3>2. WordOf(g) + Place(k) = a + Place(j)
      BY <2>1, <2>2
    <3> HIDE DEF k
    <3>3. ByteAt(z.mem, WordOf(g) + Place(k)) = ByteOf(rt, k - (3 - InWord(g)))
      BY <3>1, <1>8, <1>12, <1>13
    <3> QED  BY <3>1, <3>2, <3>3
  <2>3. CASE j > InWord(g)
    <3> DEFINE k == j - InWord(f)
    <3>1. k \in 0 .. 3 /\ k < 4 - InWord(f) /\ k + InWord(f) = j /\ InWord(f) # 0
      BY <2>1, <2>3
    <3>2. WordOf(f) + Place(k) = a + Place(j)
      BY <2>1, <2>3
    <3> HIDE DEF k
    <3>3. ByteAt(z.mem, a + Place(j)) = ByteAt(y.mem, a + Place(j))
      BY <2>1, <2>3, <1>5, <1>8, <1>12
    <3>4. ByteAt(y.mem, WordOf(f) + Place(k)) = ByteOf(rt, k + InWord(f))
      BY <3>1, <1>4, <1>12, <1>13
    <3> QED  BY <3>1, <3>2, <3>3, <3>4
  <2> QED  BY <2>1, <2>2, <2>3
<1>15. Load(z.mem, a, 4) = rt
  <2>1. Load(z.mem, a, 4) \in Unsigned(WW) /\ \A j \in 0 .. 3 : ByteOf(Load(z.mem, a, 4), j) = ByteAt(z.mem, a + Place(j))
    BY <1>8, LoadBytes
  <2> QED  BY <2>1, <1>13, <1>14, SameBytes
<1>16. ASSUME NEW b \in DOMAIN z.mem, b \notin a .. a + 3
       PROVE  z.mem[b] = ByteAt(x.mem, b)
  <2>1. b \in Nat /\ ByteAt(z.mem, b) = z.mem[b]
    BY <1>8, MemoryIs DEF ByteAt
  <2>2. InWord(f) \in 0 .. 3 /\ InWord(g) \in 0 .. 3 /\ WordOf(f) \in Nat /\ WordOf(g) \in Nat
    <3>1. 0 \in 0 .. 3
      OBVIOUS
    <3>2. Covers(a, f, g, 0)
      BY <3>1, <1>11, PairPlaces
    <3> QED  BY <3>2 DEF Covers
  <2>3. ByteAt(z.mem, b) = ByteAt(y.mem, b)
    <3>1. CASE b \in WordOf(g) .. WordOf(g) + 3
      <4> DEFINE k == Place(b - WordOf(g))
      <4>1. b - WordOf(g) \in 0 .. 3
        BY <3>1, <2>1, <2>2
      <4>2. k \in 0 .. 3 /\ WordOf(g) + Place(k) = b
        <5>1. k \in 0 .. 3 /\ Place(k) = b - WordOf(g)
          BY <4>1, Places
        <5> QED  BY <5>1, <2>1, <2>2
      <4> HIDE DEF k
      <4>3. k < 3 - InWord(g)
        BY <4>2, <1>11, <1>16, PairTouches
      <4> QED  BY <4>2, <4>3, <1>5, <1>8, <1>12
    <3>2. CASE b \notin WordOf(g) .. WordOf(g) + 3
      BY <3>2, <1>5, <1>8, <1>12
    <3> QED  BY <3>1, <3>2
  <2>4. ByteAt(y.mem, b) = ByteAt(x.mem, b)
    <3>1. CASE b \in WordOf(f) .. WordOf(f) + 3
      <4> DEFINE k == Place(b - WordOf(f))
      <4>1. b - WordOf(f) \in 0 .. 3
        BY <3>1, <2>1, <2>2
      <4>2. k \in 0 .. 3 /\ WordOf(f) + Place(k) = b
        <5>1. k \in 0 .. 3 /\ Place(k) = b - WordOf(f)
          BY <4>1, Places
        <5> QED  BY <5>1, <2>1, <2>2
      <4> HIDE DEF k
      <4>3. ~(k < 4 - InWord(f))
        BY <4>2, <1>11, <1>16, PairTouches
      <4>4. InWord(f) # 0
        BY <4>2, <4>3, <2>2
      <4> QED  BY <4>2, <4>3, <4>4, <1>2, <1>4, <1>12
    <3>2. CASE b \notin WordOf(f) .. WordOf(f) + 3
      BY <3>2, <1>2, <1>4, <1>12
    <3> QED  BY <3>1, <3>2
  <2> QED  BY <2>1, <2>3, <2>4
<1> QED  BY <1>7, <1>10, <1>15, <1>16 DEF rt

LEMMA DecodedReady ==
    ASSUME NEW i, Decoded(i), NEW u \in {0, 1}
    PROVE  /\ Ready(i) /\ Ready([i EXCEPT !.u = u])
           /\ LET e == [i EXCEPT !.u = u] IN e.op = i.op /\ e.rs = i.rs /\ e.rt = i.rt /\ e.imm = i.imm
<1>1. Len(HostBytes) \in Nat /\ 0 \in Int /\ 0 <= Len(HostBytes)
  BY IssAssumption
<1> DEFINE e == [i EXCEPT !.u = u]
<1>2. /\ i \in [op : Ops, rs : Registers, rt : Registers, rd : Registers, sa : Registers, imm : Nat, tgt : Nat,
                fmt : {"S", "D", "W"}, u : {0}, h : {0}]
  BY DEF Decoded
<1>3. /\ e.op = i.op /\ e.rs = i.rs /\ e.rt = i.rt /\ e.rd = i.rd /\ e.sa = i.sa /\ e.imm = i.imm /\ e.tgt = i.tgt
      /\ e.fmt = i.fmt /\ e.h = i.h /\ i.h = 0
      /\ e \in [op : Ops, rs : Registers, rt : Registers, rd : Registers, sa : Registers, imm : Nat, tgt : Nat,
                fmt : {"S", "D", "W"}, u : {0, 1}, h : Int]
      /\ i \in [op : Ops, rs : Registers, rt : Registers, rd : Registers, sa : Registers, imm : Nat, tgt : Nat,
                fmt : {"S", "D", "W"}, u : {0, 1}, h : Int]
  BY <1>1, <1>2
<1>4. Ready(i)
  BY <1>1, <1>3 DEF Ready, Decoded
<1> HIDE DEF e
<1>5. Ready(e)
  BY <1>1, <1>3, <1>4 DEF Ready
<1> QED  BY <1>3, <1>4, <1>5 DEF e

\* The addresses of the two instructions, where the word does not wrap around.
LEMMA PairIs ==
    ASSUME NEW x \in States(WW), NEW i, Ready(i), NEW e, Ready(e), i.rs = e.rs, i.rt = e.rt,
           S(e.imm, HW) = S(i.imm, HW) + (IF EL THEN -3 ELSE 3),
           NEW a, a = EA(x, IF EL THEN e ELSE i), a + 3 < 2^WW
    PROVE  a \in Nat /\ Paired(x, i, e, a)
<1> DEFINE r == x.gpr[i.rs]
           m == S(i.imm, HW)
           n == S(e.imm, HW)
<1>1. r \in Int /\ m \in Int /\ n \in Int /\ EA(x, i) = U(r + m, WW) /\ EA(x, e) = U(r + n, WW)
  BY Reads, Fields DEF EA
<1>2. a \in Nat
  BY AddressRange
<1> HIDE DEF r
<1>3. CASE EL
  <2>1. a = U(r + n, WW) /\ r + m = (r + n) + 3 /\ r + n \in Int
    BY <1>1, <1>3
  <2>2. U((r + n) + 3, WW) = a + 3
    BY <2>1, ThreeOn
  <2> QED  BY <1>1, <1>2, <1>3, <2>1, <2>2 DEF Paired, FirstOf, SecondOf
<1>4. CASE ~EL
  <2>1. a = U(r + m, WW) /\ r + n = (r + m) + 3 /\ r + m \in Int
    BY <1>1, <1>4
  <2>2. U((r + m) + 3, WW) = a + 3
    BY <2>1, ThreeOn
  <2> QED  BY <1>1, <1>2, <1>4, <2>1, <2>2 DEF Paired, FirstOf, SecondOf
<1> QED  BY <1>3, <1>4

LEMMA PairsWork == IInv => UnalignedPair
<1>1. SUFFICES ASSUME IInv, NEW p \in DOMAIN code, NEW u \in {0, 1}, s.frames = <<>>
               PROVE  /\ PairAt(p, "lwl", "lwr") /\ LowAddr(p) + 3 < 2^WW => LoadsWord(p, u)
                      /\ PairAt(p, "swl", "swr") /\ LowAddr(p) + 3 < 2^WW => StoresWord(p, u)
  BY DEF UnalignedPair
<1>2. s \in States(WW) /\ Loaded
  BY <1>1 DEF IInv
<1>3. ASSUME NEW left, NEW right, PairAt(p, left, right), LowAddr(p) + 3 < 2^WW
      PROVE  LET i == [code[p] EXCEPT !.u = u]
                 e == code[p + 4]
             IN  /\ LowAddr(p) \in Nat /\ Paired(s, i, e, LowAddr(p)) /\ i.op = left /\ e.op = right
                 /\ i.rs # i.rt /\ i.rt = code[p].rt
  <2> DEFINE i == [code[p] EXCEPT !.u = u]
             e == code[p + 4]
             a == LowAddr(p)
  <2>1. Decoded(code[p]) /\ Decoded(e)
    BY <1>2, <1>3 DEF Loaded, PairAt
  <2>2. Ready(i) /\ i.op = code[p].op /\ i.rs = code[p].rs /\ i.rt = code[p].rt /\ i.imm = code[p].imm
    BY <2>1, DecodedReady
  <2>3. Ready(e)
    BY <2>1, DecodedReady
  <2>4. /\ code[p].op = left /\ e.op = right /\ code[p].rs = e.rs /\ code[p].rt = e.rt /\ code[p].rs # code[p].rt
        /\ S(e.imm, HW) = S(code[p].imm, HW) + (IF EL THEN -3 ELSE 3)
    BY <1>3 DEF PairAt
  <2>5. a = EA(s, IF EL THEN e ELSE i)
    <3>1. EA(s, i) = EA(s, code[p])
      BY <2>2 DEF EA
    <3>2. CASE EL
      BY <3>2 DEF LowAddr
    <3>3. CASE ~EL
      BY <3>1, <3>3 DEF LowAddr
    <3> QED  BY <3>2, <3>3
  <2>6. a + 3 < 2^WW
    BY <1>3
  <2> HIDE DEF i, e, a
  <2>7. i.rs = e.rs /\ i.rt = e.rt /\ S(e.imm, HW) = S(i.imm, HW) + (IF EL THEN -3 ELSE 3)
    BY <2>2, <2>4
  <2>8. a \in Nat /\ Paired(s, i, e, a)
    BY <1>2, <2>2, <2>3, <2>5, <2>6, <2>7, PairIs
  <2>9. i.op = left /\ e.op = right /\ i.rs # i.rt /\ i.rt = code[p].rt
    BY <2>2, <2>4
  <2> QED  BY <2>8, <2>9 DEF i, e, a
<1> DEFINE i == [code[p] EXCEPT !.u = u]
           e == code[p + 4]
           a == LowAddr(p)
<1>4. ASSUME PairAt(p, "lwl", "lwr"), a + 3 < 2^WW PROVE LoadsWord(p, u)
  <2>1. a \in Nat /\ Paired(s, i, e, a) /\ i.op = "lwl" /\ e.op = "lwr" /\ i.rs # i.rt /\ i.rt = code[p].rt
    BY <1>3, <1>4
  <2>2. Both(p, u) = Ran(Ran(s, i), e)
    BY DEF Both
  <2> HIDE DEF i, e, a
  <2>3. Ran(Ran(s, i), e).gpr[i.rt] = Load(s.mem, a, 4)
    BY <1>1, <1>2, <2>1, LoadPair
  <2> QED  BY <2>1, <2>2, <2>3 DEF LoadsWord, a
<1>5. ASSUME PairAt(p, "swl", "swr"), a + 3 < 2^WW PROVE StoresWord(p, u)
  <2>1. a \in Nat /\ Paired(s, i, e, a) /\ i.op = "swl" /\ e.op = "swr" /\ i.rt = code[p].rt
    BY <1>3, <1>5
  <2>2. Both(p, u) = Ran(Ran(s, i), e)
    BY DEF Both
  <2> HIDE DEF i, e, a
  <2> DEFINE n == Ran(Ran(s, i), e).mem
  <2>3. /\ Load(n, a, 4) = s.gpr[i.rt]
        /\ \A b \in DOMAIN n \ (a .. a + 3) : n[b] = ByteAt(s.mem, b)
    BY <1>1, <1>2, <2>1, StorePair
  <2>4. n = Both(p, u).mem
    BY <2>2
  <2> HIDE DEF n
  <2> QED  BY <2>1, <2>3, <2>4 DEF StoresWord, a
<1> QED  BY <1>4, <1>5

\* Wherever a program reaches them, lwl and lwr load the word that starts at any
\* address, swl and swr store it and touch nothing else, whatever an aligned swl
\* stores first: for every alignment, byte order and word size.
THEOREM UnalignedPairs == FpuTotal => (Spec => []UnalignedPair)
BY IInvHolds, PairsWork, PTL

-----------------------------------------------------------------------------
(* The interpreters against each other.  W(v) is the word v as a register  *)
(* of the 64-bit interpreter holds it.                                     *)

W(v) == SExt(v, WW, DW)

LEMMA HalfWord ==
    /\ 2^(WW - 1) \in Nat /\ 2^(WW - 1) >= 8 /\ 2^WW = 2 * 2^(WW - 1) /\ 2^DW = 2^WW * 2^WW
    /\ 2^WW \in Nat /\ 2^DW \in Nat /\ 2^WW < 2^DW
    /\ 2^HW \in Nat /\ 2^HW < 2^(WW - 1) + 1 /\ 2^HW = 2 * 2^(HW - 1) /\ 2^(HW - 1) \in Nat
    /\ 2^DW = 2 * 2^(DW - 1) /\ 2^(DW - 1) \in Nat
<1>1. WW - 1 \in 0 .. DW /\ (WW - 1) + 1 = WW /\ HW - 1 \in 0 .. DW /\ (HW - 1) + 1 = HW
      /\ DW - 1 \in 0 .. DW /\ (DW - 1) + 1 = DW
  BY Widths
<1>2. 2^WW = 2 * 2^(WW - 1) /\ 2^HW = 2 * 2^(HW - 1) /\ 2^DW = 2 * 2^(DW - 1)
  BY <1>1, PowersOfTwo
<1>3. 2^(WW - 1) \in Nat /\ 2^(HW - 1) \in Nat /\ 2^(DW - 1) \in Nat
  BY <1>1, PowPos, Widths
<1>4. 2^WW \in Nat /\ 2^WW >= 16 /\ 2^DW \in Nat /\ 2^DW = 2^WW * 2^WW /\ 2^HW \in Nat /\ 2^HW >= 4 /\ 2^WW = 2^HW * 2^HW
  BY Powers
<1>5. 2^WW < 2^DW
  <2>1. 2 * 2^WW <= 2^WW * 2^WW
    BY <1>4, MulLeq
  <2> QED  BY <2>1, <1>4
<1>6. 4 * 2^HW <= 2^HW * 2^HW
  BY <1>4, MulLeq
<1> QED  BY <1>2, <1>3, <1>4, <1>5, <1>6

\* How a word widens.
LEMMA Ext ==
    ASSUME NEW v \in Unsigned(WW)
    PROVE  /\ v \in Nat /\ v < 2^WW
           /\ S(v, WW) = IF v < 2^(WW - 1) THEN v ELSE v - 2^WW
           /\ W(v) = IF v < 2^(WW - 1) THEN v ELSE v - 2^WW + 2^DW
           /\ W(v) \in Unsigned(DW) /\ W(v) \in Nat
           /\ U(W(v), WW) = v /\ S(W(v), DW) = S(v, WW)
<1> DEFINE h == 2^(WW - 1)
           P == 2^WW
           Q == 2^DW
           g == 2^(DW - 1)
<1>1. h \in Nat /\ h >= 8 /\ P = 2 * h /\ Q = P * P /\ P \in Nat /\ Q \in Nat /\ P < Q /\ Q = 2 * g /\ g \in Nat
  BY HalfWord
<1>2. v \in Nat /\ v < P /\ U(v, WW) = v
  BY USmall, Unsigneds
<1>3. S(v, WW) = IF v < h THEN v ELSE v - P
  BY <1>2 DEF S
<1>4. W(v) = U(S(v, WW), DW) /\ U(S(v, WW), DW) = S(v, WW) % Q
  BY DEF W, SExt, U
<1> HIDE DEF h, P, Q, g
<1>5. v < h => v % Q = v
  BY <1>1, <1>2, ModSmall
<1>6. ~(v < h) => (v - P) % Q = v - P + Q
  <2>1. v - P \in Int /\ v - P + Q \in Int /\ v - P + Q = (v - P) + 1 * Q
    BY <1>1, <1>2
  <2> DEFINE a == v - P
  <2>5. a \in Int /\ 1 \in Int /\ Q \in Int /\ Q > 0
    BY <2>1, <1>1
  <2> HIDE DEF a
  <2>6. (a + 1 * Q) % Q = a % Q
    BY <2>5, ModShift
  <2>2. (v - P + Q) % Q = (v - P) % Q
    BY <2>6, <2>1 DEF a
  <2>3. 0 <= v - P + Q /\ v - P + Q < Q
    BY <1>1, <1>2
  <2>4. (v - P + Q) % Q = v - P + Q
    BY <2>1, <2>3, <1>1, ModSmall
  <2> QED  BY <2>2, <2>4
<1>7. W(v) = IF v < h THEN v ELSE v - P + Q
  BY <1>3, <1>4, <1>5, <1>6
<1>8. W(v) \in Nat /\ W(v) < Q
  BY <1>1, <1>2, <1>7
<1>9. W(v) % P = v
  <2>1. v % P = v
    BY <1>1, <1>2, ModSmall
  <2>2. ~(v < h) => W(v) = v + (P - 1) * P
    BY <1>1, <1>2, <1>7
  <2>3. P - 1 \in Int
    BY <1>1
  <2> DEFINE k == P - 1
  <2>5. v \in Int /\ P \in Int /\ P > 0 /\ k \in Int
    BY <2>3, <1>1, <1>2
  <2> HIDE DEF k
  <2>6. (v + k * P) % P = v % P
    BY <2>5, ModShift
  <2>4. ~(v < h) => W(v) % P = v % P
    BY <2>2, <2>6 DEF k
  <2> QED  BY <2>1, <2>4, <1>7
<1>10. W(v) \in Unsigned(DW)
  BY <1>8, <1>1 DEF Unsigned, Q
<1>11. U(W(v), DW) = W(v)
  BY <1>10, USmall
<1>12. g >= P
  <2>1. 2 * P <= P * P
    BY <1>1, MulLeq
  <2> QED  BY <2>1, <1>1
<1>13. S(W(v), DW) = IF W(v) < g THEN W(v) ELSE W(v) - Q
  BY <1>11 DEF S, g, Q
<1>14. S(W(v), DW) = IF v < h THEN v ELSE v - P
  BY <1>13, <1>12, <1>7, <1>1, <1>2
<1> QED  BY <1>2, <1>3, <1>7, <1>8, <1>9, <1>10, <1>14 DEF U, h, P, Q

\* A number that an int32_t holds.
LEMMA ExtFits ==
    ASSUME NEW v \in Int, -(2^(WW - 1)) <= v, v < 2^(WW - 1)
    PROVE  W(U(v, WW)) = U(v, DW) /\ S(U(v, WW), WW) = v
<1> DEFINE h == 2^(WW - 1)
           P == 2^WW
<1>1. h \in Nat /\ P = 2 * h /\ P \in Nat /\ P > 0 /\ h >= 8
  BY HalfWord
<1>2. U(v, WW) \in Unsigned(WW) /\ U(v, WW) = v % P /\ -h <= v /\ v < h
  BY URanges DEF U
<1>3. S(U(v, WW), WW) = IF U(v, WW) < h THEN U(v, WW) ELSE U(v, WW) - P
  BY <1>2, Ext
<1> HIDE DEF h, P
<1>4. v >= 0 => v % P = v
  BY <1>1, <1>2, ModSmall
<1>5. v < 0 => v % P = v + P
  <2>1. v + P \in Int /\ v + P = v + 1 * P
    BY <1>1
  <2>2. (v + P) % P = v % P
    BY <2>1, <1>1, ModEqual
  <2>3. v < 0 => (v + P) % P = v + P
    BY <2>1, <1>1, <1>2, ModSmall
  <2> QED  BY <2>2, <2>3
<1>6. S(U(v, WW), WW) = v
  BY <1>1, <1>2, <1>3, <1>4, <1>5
<1> QED  BY <1>6 DEF W, SExt

LEMMA ExtCast ==
    ASSUME NEW v \in Int
    PROVE  /\ u32toi64(v) = W(U(v, WW)) /\ U(u32toi64(v), DW) = W(U(v, WW)) /\ u32toi64(v) \in Int
           /\ S(U(v, WW), WW) = S(v, WW)
<1>1. U(v, WW) \in Unsigned(WW)
  BY URanges
<1>2. U(U(v, WW), WW) = U(v, WW)
  BY <1>1, USmall
<1>3. S(U(v, WW), WW) = S(v, WW)
  BY <1>2 DEF S
<1>4. u32toi64(v) = W(U(v, WW))
  BY <1>3 DEF u32toi64, W, SExt
<1>5. W(U(v, WW)) \in Unsigned(DW) /\ W(U(v, WW)) \in Nat
  BY <1>1, Ext
<1> QED  BY <1>3, <1>4, <1>5, USmall

\* The fields of a widened state.
LEMMA WidenIs ==
    ASSUME NEW x \in States(WW)
    PROVE  /\ Widen(x) \in States(DW) /\ Widen(x).w = DW
           /\ Widen(x).pc = x.pc /\ Widen(x).lo = W(x.lo) /\ Widen(x).hi = W(x.hi)
           /\ Widen(x).gpr = [r \in Registers |-> W(x.gpr[r])]
           /\ Widen(x).cpr0 = x.cpr0 /\ Widen(x).cpr1 = x.cpr1 /\ Widen(x).fcr = x.fcr /\ Widen(x).icnt = x.icnt
           /\ Widen(x).brk = x.brk /\ Widen(x).mem = x.mem /\ Widen(x).st = x.st /\ Widen(x).frames = x.frames
<1>1. DOMAIN x.gpr = Registers /\ x.lo \in Unsigned(WW) /\ x.hi \in Unsigned(WW) /\ x.pc \in Unsigned(WW)
      /\ \A r \in Registers : x.gpr[r] \in Unsigned(WW)
  BY DEF States
<1>2. x.pc \in Unsigned(DW)
  BY <1>1, HalfWord DEF Unsigned
<1>3. W(x.lo) \in Unsigned(DW) /\ W(x.hi) \in Unsigned(DW) /\ \A r \in Registers : W(x.gpr[r]) \in Unsigned(DW)
  BY <1>1, Ext
<1> DEFINE g == [r \in Registers |-> W(x.gpr[r])]
<1>4. Widen(x) = [x EXCEPT !.w = DW, !.lo = W(x.lo), !.hi = W(x.hi), !.gpr = g]
  BY <1>1 DEF Widen, W
<1>5. g \in [Registers -> Unsigned(DW)]
  BY <1>3
<1> DEFINE a == W(x.lo)
           b == W(x.hi)
<1>6. a \in Unsigned(DW) /\ b \in Unsigned(DW)
  BY <1>3
<1> HIDE DEF g, a, b
<1>7. Widen(x) = [x EXCEPT !.w = DW, !.lo = a, !.hi = b, !.gpr = g]
  BY <1>4 DEF a, b
<1>8. /\ Widen(x) \in States(DW) /\ Widen(x).w = DW
      /\ Widen(x).pc = x.pc /\ Widen(x).lo = a /\ Widen(x).hi = b
      /\ Widen(x).gpr = g
      /\ Widen(x).cpr0 = x.cpr0 /\ Widen(x).cpr1 = x.cpr1 /\ Widen(x).fcr = x.fcr /\ Widen(x).icnt = x.icnt
      /\ Widen(x).brk = x.brk /\ Widen(x).mem = x.mem /\ Widen(x).st = x.st /\ Widen(x).frames = x.frames
  BY <1>2, <1>5, <1>6, <1>7 DEF States
<1> QED  BY <1>8 DEF a, b, g

\* A state is the widened one when its fields are.
LEMMA IsWiden ==
    ASSUME NEW x \in States(WW), NEW z \in States(DW),
           z.pc = x.pc, z.lo = W(x.lo), z.hi = W(x.hi), \A r \in Registers : z.gpr[r] = W(x.gpr[r]),
           z.cpr0 = x.cpr0, z.cpr1 = x.cpr1, z.fcr = x.fcr, z.icnt = x.icnt,
           z.brk = x.brk, z.mem = x.mem, z.st = x.st, z.frames = x.frames
    PROVE  z = Widen(x)
<1> DEFINE y == Widen(x)
<1>1. /\ y \in States(DW) /\ y.w = DW
      /\ y.pc = x.pc /\ y.lo = W(x.lo) /\ y.hi = W(x.hi)
      /\ y.gpr = [r \in Registers |-> W(x.gpr[r])]
      /\ y.cpr0 = x.cpr0 /\ y.cpr1 = x.cpr1 /\ y.fcr = x.fcr /\ y.icnt = x.icnt
      /\ y.brk = x.brk /\ y.mem = x.mem /\ y.st = x.st /\ y.frames = x.frames
  BY WidenIs
<1> HIDE DEF y
<1>2. z.gpr = y.gpr
  <2>1. z.gpr \in [Registers -> Unsigned(DW)]
    BY DEF States
  <2> QED  BY <2>1, <1>1
<1>3. z.w = y.w
  BY <1>1 DEF States
<1>4. z = y
  BY <1>1, <1>2, <1>3 DEF States
<1> QED  BY <1>4 DEF y

\* The parts of the handlers commute with widening.
Below(x) == x.pc + 8 < 2^WW

LEMMA WideAdv ==
    ASSUME NEW x \in States(WW), x.pc + 4 < 2^WW
    PROVE  Adv(Widen(x)) = Widen(Adv(x)) /\ Adv(x) \in States(WW) /\ Adv(x).pc = x.pc + 4
<1>1. x.pc \in Nat /\ x.w = WW
  BY Unsigneds DEF States
<1> DEFINE p == x.pc + 4
<1>2. p \in Unsigned(WW) /\ p \in Unsigned(DW)
  BY <1>1, HalfWord DEF Unsigned
<1>3. U(p, WW) = p /\ U(p, DW) = p
  BY <1>2, USmall
<1> DEFINE y == Widen(x)
<1>4. y \in States(DW) /\ y.w = DW /\ y.pc = x.pc
  BY WidenIs
<1>5. Adv(x) = [x EXCEPT !.pc = p] /\ Adv(y) = [y EXCEPT !.pc = p]
  BY <1>1, <1>3, <1>4 DEF Adv
<1> DEFINE x1 == [x EXCEPT !.pc = p]
           y1 == [y EXCEPT !.pc = p]
<1> HIDE DEF p
<1>6. x1 \in States(WW) /\ x1.pc = p
  BY <1>2 DEF States
<1>7. y1 = Widen(x1)
  BY DEF Widen, States
<1> QED  BY <1>5, <1>6, <1>7 DEF p

LEMMA WideSetGpr ==
    ASSUME NEW x \in States(WW), NEW r \in Registers, NEW v \in Unsigned(WW)
    PROVE  /\ [Widen(x) EXCEPT !.gpr[r] = W(v)] = Widen([x EXCEPT !.gpr[r] = v])
           /\ [x EXCEPT !.gpr[r] = v] \in States(WW) /\ [x EXCEPT !.gpr[r] = v].pc = x.pc
<1> DEFINE x1 == [x EXCEPT !.gpr[r] = v]
           a == W(v)
<1>1. x1 \in States(WW) /\ x1.pc = x.pc
  BY DEF States
<1>2. /\ x1.lo = x.lo /\ x1.hi = x.hi /\ x1.cpr0 = x.cpr0 /\ x1.cpr1 = x.cpr1 /\ x1.fcr = x.fcr /\ x1.icnt = x.icnt
      /\ x1.brk = x.brk /\ x1.mem = x.mem /\ x1.st = x.st /\ x1.frames = x.frames
      /\ \A q \in Registers : x1.gpr[q] = IF q = r THEN v ELSE x.gpr[q]
  BY DEF States
<1>3. a \in Unsigned(DW)
  BY Ext
<1> DEFINE y == Widen(x)
<1>4. y \in States(DW)
  BY WidenIs
<1>9. /\ y.pc = x.pc /\ y.lo = W(x.lo) /\ y.hi = W(x.hi) /\ \A q \in Registers : y.gpr[q] = W(x.gpr[q])
      /\ y.cpr0 = x.cpr0 /\ y.cpr1 = x.cpr1 /\ y.fcr = x.fcr /\ y.icnt = x.icnt
      /\ y.brk = x.brk /\ y.mem = x.mem /\ y.st = x.st /\ y.frames = x.frames
  BY WidenIs
<1> HIDE DEF y, a
<1> DEFINE z1 == [y EXCEPT !.gpr[r] = a]
<1>5. /\ z1 \in States(DW) /\ z1.pc = y.pc
      /\ z1.lo = y.lo /\ z1.hi = y.hi /\ z1.cpr0 = y.cpr0 /\ z1.cpr1 = y.cpr1 /\ z1.fcr = y.fcr /\ z1.icnt = y.icnt
      /\ z1.brk = y.brk /\ z1.mem = y.mem /\ z1.st = y.st /\ z1.frames = y.frames
      /\ \A q \in Registers : z1.gpr[q] = IF q = r THEN a ELSE y.gpr[q]
  BY <1>3, <1>4 DEF States
<1> HIDE DEF x1, z1
<1>6. \A q \in Registers : z1.gpr[q] = W(x1.gpr[q])
  <2> TAKE q \in Registers
  <2>1. y.gpr[q] = W(x.gpr[q])
    BY <1>9
  <2>2. x1.gpr[q] = IF q = r THEN v ELSE x.gpr[q]
    BY <1>2
  <2>3. z1.gpr[q] = IF q = r THEN a ELSE y.gpr[q]
    BY <1>5
  <2> QED  BY <2>1, <2>2, <2>3 DEF a
<1>7. z1 = Widen(x1)
  BY <1>1, <1>2, <1>5, <1>6, <1>9, IsWiden
<1> QED  BY <1>1, <1>7 DEF z1, x1, y, a

PutHiLo(x, a, b) == [x EXCEPT !.hi = a, !.lo = b]

LEMMA WideSetHiLo ==
    ASSUME NEW x \in States(WW), NEW a \in Unsigned(WW), NEW b \in Unsigned(WW)
    PROVE  /\ PutHiLo(Widen(x), W(a), W(b)) = Widen(PutHiLo(x, a, b))
           /\ PutHiLo(x, a, b) \in States(WW) /\ PutHiLo(x, a, b).pc = x.pc
BY DEF Widen, States, W, PutHiLo

LEMMA WideSetMem ==
    ASSUME NEW x \in States(WW), NEW m \in Memories
    PROVE  /\ [Widen(x) EXCEPT !.mem = m] = Widen([x EXCEPT !.mem = m])
           /\ [x EXCEPT !.mem = m] \in States(WW) /\ [x EXCEPT !.mem = m].pc = x.pc
BY DEF Widen, States

LEMMA WideSetCpr1 ==
    ASSUME NEW x \in States(WW), NEW r \in Registers, NEW v \in Unsigned(WW)
    PROVE  /\ [Widen(x) EXCEPT !.cpr1[r] = v] = Widen([x EXCEPT !.cpr1[r] = v])
           /\ [x EXCEPT !.cpr1[r] = v] \in States(WW) /\ [x EXCEPT !.cpr1[r] = v].pc = x.pc
BY DEF Widen, States

LEMMA WideGpr ==
    ASSUME NEW x \in States(WW), Below(x), NEW r \in Registers, NEW a \in Int, NEW b \in Int, U(a, DW) = W(U(b, WW))
    PROVE  Gpr(Widen(x), r, a) = Widen(Gpr(x, r, b))
<1>1. x.w = WW /\ Widen(x).w = DW /\ x.pc \in Nat
  BY WidenIs, Unsigneds DEF States
<1>2. x.pc + 4 < 2^WW
  BY <1>1, HalfWord DEF Below
<1>3. U(b, WW) \in Unsigned(WW)
  BY URanges
<1> DEFINE v == U(b, WW)
           x1 == [x EXCEPT !.gpr[r] = v]
<1>4. Gpr(x, r, b) = Adv(x1) /\ Gpr(Widen(x), r, a) = Adv([Widen(x) EXCEPT !.gpr[r] = W(v)])
  BY <1>1 DEF Gpr
<1>6. v \in Unsigned(WW)
  BY <1>3
<1> HIDE DEF v
<1>5. [Widen(x) EXCEPT !.gpr[r] = W(v)] = Widen(x1) /\ x1 \in States(WW) /\ x1.pc = x.pc
  BY <1>6, WideSetGpr
<1> HIDE DEF x1
<1> QED  BY <1>2, <1>4, <1>5, WideAdv

LEMMA WideHiLo ==
    ASSUME NEW x \in States(WW), Below(x), NEW a \in Int, NEW b \in Int, NEW c \in Int, NEW d \in Int,
           U(a, DW) = W(U(c, WW)), U(b, DW) = W(U(d, WW))
    PROVE  HiLo(Widen(x), a, b) = Widen(HiLo(x, c, d))
<1>1. x.w = WW /\ Widen(x).w = DW /\ x.pc \in Nat
  BY WidenIs, Unsigneds DEF States
<1>2. x.pc + 4 < 2^WW
  BY <1>1, HalfWord DEF Below
<1>3. U(c, WW) \in Unsigned(WW) /\ U(d, WW) \in Unsigned(WW)
  BY URanges
<1> DEFINE v == U(c, WW)
           u == U(d, WW)
           x1 == PutHiLo(x, v, u)
<1>4. HiLo(x, c, d) = Adv(x1) /\ HiLo(Widen(x), a, b) = Adv(PutHiLo(Widen(x), W(v), W(u)))
  BY <1>1 DEF HiLo, PutHiLo
<1>6. v \in Unsigned(WW) /\ u \in Unsigned(WW)
  BY <1>3
<1> HIDE DEF v, u
<1>5. PutHiLo(Widen(x), W(v), W(u)) = Widen(x1) /\ x1 \in States(WW) /\ x1.pc = x.pc
  BY <1>6, WideSetHiLo
<1> HIDE DEF x1
<1> QED  BY <1>2, <1>4, <1>5, WideAdv

LEMMA WideMem ==
    ASSUME NEW x \in States(WW), Below(x), NEW m \in Memories
    PROVE  Adv([Widen(x) EXCEPT !.mem = m]) = Widen(Adv([x EXCEPT !.mem = m]))
<1>1. x.pc \in Nat
  BY Unsigneds DEF States
<1>2. x.pc + 4 < 2^WW
  BY <1>1, HalfWord DEF Below
<1> DEFINE x1 == [x EXCEPT !.mem = m]
<1>3. [Widen(x) EXCEPT !.mem = m] = Widen(x1) /\ x1 \in States(WW) /\ x1.pc = x.pc
  BY WideSetMem
<1> HIDE DEF x1
<1>4. Adv(Widen(x1)) = Widen(Adv(x1))
  BY <1>2, <1>3, WideAdv
<1> QED  BY <1>3, <1>4 DEF x1

LEMMA WideStop ==
    ASSUME NEW x \in States(WW), NEW why
    PROVE  Stop(Widen(x), why) = Widen(Stop(x, why))
BY DEF Stop, Widen, States

LEMMA WideSlot ==
    ASSUME NEW x \in States(WW), Below(x), NEW taken, NEW target, NEW link
    PROVE  Slot(Widen(x), taken, target, link) = Widen(Slot(x, taken, target, link))
<1>1. x.pc \in Nat
  BY Unsigneds DEF States
<1>2. x.pc + 4 < 2^WW
  BY <1>1, HalfWord DEF Below
<1> DEFINE y == Adv(x)
           f == <<[taken |-> taken, target |-> target, link |-> link]>>
<1>3. Adv(Widen(x)) = Widen(y) /\ y \in States(WW)
  BY <1>2, WideAdv
<1>4. Slot(Widen(x), taken, target, link) = [Widen(y) EXCEPT !.frames = f \o @]
      /\ Slot(x, taken, target, link) = [y EXCEPT !.frames = f \o @]
  BY <1>3 DEF Slot
<1> HIDE DEF y, f
<1>5. [Widen(y) EXCEPT !.frames = f \o @] = Widen([y EXCEPT !.frames = f \o @])
  BY <1>3 DEF Widen, States
<1> QED  BY <1>4, <1>5

\* Returning from the slots, when no branch of the nest links.
Linkless(x) == \A k \in 1 .. Len(x.frames) : x.frames[k].link = 0

LEMMA WideAfterSlot ==
    ASSUME NEW x \in States(WW), NEW f \in Frames, f.link = 0
    PROVE  AfterSlot(Widen(x), f) = Widen(AfterSlot(x, f))
<1>1. f.taken \in BOOLEAN /\ f.target \in Unsigned(WW)
  BY DEF Frames
<1>2. CASE f.taken
  <2>1. AfterSlot(x, f) = [x EXCEPT !.pc = f.target] /\ AfterSlot(Widen(x), f) = [Widen(x) EXCEPT !.pc = f.target]
    BY <1>2 DEF AfterSlot
  <2>2. [Widen(x) EXCEPT !.pc = f.target] = Widen([x EXCEPT !.pc = f.target])
    BY DEF Widen, States
  <2> QED  BY <2>1, <2>2
<1>3. CASE ~f.taken
  <2>1. AfterSlot(x, f) = x /\ AfterSlot(Widen(x), f) = Widen(x)
    BY <1>3 DEF AfterSlot
  <2> QED  BY <2>1
<1> QED  BY <1>1, <1>2, <1>3

LEMMA WideReturn ==
    ASSUME NEW x \in States(WW), Linkless(x)
    PROVE  Return(Widen(x)) = Widen(Return(x))
<1> DEFINE z == Widen(x)
           n == Len(x.frames)
           u == CHOOSE f : f = [k \in 0 .. Len(x.frames) |->
                                  IF k = 0 THEN [x EXCEPT !.frames = <<>>] ELSE AfterSlot(f[k - 1], x.frames[k])]
           v == CHOOSE f : f = [k \in 0 .. Len(z.frames) |->
                                  IF k = 0 THEN [z EXCEPT !.frames = <<>>] ELSE AfterSlot(f[k - 1], z.frames[k])]
<1>0. x.frames \in Seq(Frames)
  BY DEF States
<1>00. n \in Nat
  BY <1>0
<1>1. z \in States(DW) /\ z.frames = x.frames /\ z.st = x.st /\ x.frames \in Seq(Frames) /\ n \in Nat
  BY <1>0, <1>00, WidenIs, Zenon
<1>2. Return(x) = IF x.st = "run" THEN u[n] ELSE x
  BY Zenon DEF Return
<1>3. Return(z) = IF z.st = "run" THEN v[Len(z.frames)] ELSE z
  BY Zenon DEF Return
<1>4. z.frames \in Seq(Frames)
  BY <1>1
<1> HIDE DEF z
<1>5. Unwinds(u, x) /\ Unwinds(v, z)
  BY <1>1, <1>4, UnwindsExist, Zenon DEF Unwinds
<1> HIDE DEF u, v
<1>6. \A k \in 0 .. n : u[k] = IF k = 0 THEN [x EXCEPT !.frames = <<>>] ELSE AfterSlot(u[k - 1], x.frames[k])
  BY <1>5, <1>1 DEF Unwinds
<1>7. \A k \in 0 .. n : v[k] = IF k = 0 THEN [z EXCEPT !.frames = <<>>] ELSE AfterSlot(v[k - 1], x.frames[k])
  BY <1>5, <1>1 DEF Unwinds
<1> DEFINE Good(k) == u[k] \in States(WW) /\ v[k] = Widen(u[k])
           T == {k \in 0 .. n : ~Good(k)}
<1>8. Good(0)
  <2>1. u[0] = [x EXCEPT !.frames = <<>>] /\ v[0] = [z EXCEPT !.frames = <<>>]
    BY <1>1, <1>6, <1>7
  <2>2. <<>> \in Seq(Frames)
    OBVIOUS
  <2>3. [x EXCEPT !.frames = <<>>] \in States(WW)
    BY <2>2 DEF States
  <2>4. [z EXCEPT !.frames = <<>>] = Widen([x EXCEPT !.frames = <<>>])
    BY DEF z, Widen, States
  <2> QED  BY <2>1, <2>3, <2>4
<1>9. ASSUME NEW k \in 1 .. n, Good(k - 1)
      PROVE  Good(k)
  <2>1. u[k] = AfterSlot(u[k - 1], x.frames[k]) /\ v[k] = AfterSlot(v[k - 1], x.frames[k])
    BY <1>1, <1>6, <1>7
  <2>2. x.frames[k] \in Frames /\ x.frames[k].link = 0
    BY <1>1 DEF Linkless
  <2>3. AfterSlot(u[k - 1], x.frames[k]) \in States(WW)
    BY <2>2, <1>9, AfterSlotRange
  <2> QED  BY <2>1, <2>2, <2>3, <1>9, WideAfterSlot
<1> HIDE DEF Good
<1>10. ASSUME T # {} PROVE FALSE
  <2>0. T \subseteq Nat
    BY <1>1
  <2>1. PICK k \in T : \A j \in T : k <= j
    <3> HIDE DEF T
    <3> QED  BY <1>10, <2>0, LeastNatural
  <2>2. k # 0
    BY <2>1, <1>8
  <2>3. k \in 1 .. n /\ k - 1 \in 0 .. n /\ k - 1 \notin T
    BY <2>1, <2>2, <1>1
  <2>4. Good(k - 1)
    BY <2>3
  <2>5. Good(k)
    BY <2>3, <2>4, <1>9
  <2> QED  BY <2>1, <2>5
<1>11. Good(n)
  BY <1>1, <1>10
<1> QED  BY <1>1, <1>2, <1>3, <1>11 DEF Good, z

\* What a widened state makes of a step, at the end of it.
LEMMA WideExec ==
    ASSUME NEW x \in States(WW), NEW r \in States(WW), Linkless(r)
    PROVE  execMips(Widen(x), Widen(r)) = Widen(execMips(x, r))
<1>1. Widen(x).frames = x.frames /\ Widen(r).frames = r.frames
  BY WidenIs
<1> QED  BY <1>1, WideReturn DEF execMips

-----------------------------------------------------------------------------
(* The values the handlers compute, in 32 and in 64 bits.                  *)

\* The bits of a sum of which one summand lies below the other.
LEMMA BitsApart ==
    ASSUME NEW k \in 0 .. DW, NEW a \in 0 .. (2^k - 1), NEW b \in Int, b % 2^k = 0, NEW m \in 0 .. (DW - 1)
    PROVE  Bit(a, m) + Bit(b, m) = Bit(a + b, m)
<1> DEFINE d == 2^k
           q == b \div d
           g == 2^m
<1>1. d \in Int /\ d >= 1 /\ a \in Int /\ 0 <= a /\ a < d /\ m \in 0 .. DW /\ g \in Int /\ g >= 1
  BY PowPos, Widths
<1>2. q \in Int /\ b = q * d + 0
  <2>1. b % d = 0
    OBVIOUS
  <2> HIDE DEF d
  <2> QED  BY <2>1, <1>1, DivMod
<1>3. CASE m >= k
  <2> DEFINE e == 2^(m - k)
  <2>1. m - k \in Nat /\ k \in Nat /\ (m - k) + k = m /\ m <= DW + 1 /\ m - k \in 0 .. DW
    BY <1>3, Widths
  <2>2. g = e * d /\ e \in Int /\ e >= 1
    <3>1. 2^((m - k) + k) = e * d
      BY <2>1, PowAdd
    <3>2. e \in Int /\ e >= 1
      BY <2>1, PowPos, Widths
    <3> QED  BY <3>1, <3>2, <2>1
  <2>3. Bit(a, m) = (a \div g) % 2 /\ Bit(b, m) = (b \div g) % 2 /\ Bit(a + b, m) = ((a + b) \div g) % 2
    BY DEF Bit
  <2> HIDE DEF d, q, g, e
  <2>4. a \div d = 0 /\ b \div d = q
    BY <1>1, <1>2, ModSmall, DivModUnique
  <2>5. (a + q * d) \div d = q
    BY <1>1, <1>2, <2>4, ModShift
  <2>6. a + b \in Int /\ (a + b) \div d = q /\ d > 0 /\ e > 0
    BY <1>1, <1>2, <2>2, <2>5
  <2>7. a \div (e * d) = (a \div d) \div e /\ b \div (e * d) = (b \div d) \div e
        /\ (a + b) \div (e * d) = ((a + b) \div d) \div e
    BY <1>1, <2>2, <2>6, ModOfProduct
  <2>8. 0 \div e = 0 /\ 0 % 2 = 0
    BY <2>2, ModSmall
  <2>9. a \div g = 0 /\ b \div g = q \div e /\ (a + b) \div g = q \div e
    BY <2>2, <2>4, <2>6, <2>7, <2>8
  <2>10. (q \div e) % 2 \in Int
    <3>1. q \div e \in Int
      BY <1>2, <2>2, DivMod
    <3> QED  BY <3>1
  <2> QED  BY <2>3, <2>8, <2>9, <2>10
<1>4. CASE m < k
  <2> DEFINE f == 2^(k - m - 1)
  <2>1. k - m - 1 \in Nat /\ k - m - 1 \in 0 .. DW /\ m \in Nat /\ (k - m - 1) + 1 \in Nat
        /\ ((k - m - 1) + 1) + m = k /\ k <= DW + 1
    BY <1>4, Widths
  <2>2. d = 2^((k - m - 1) + 1) * g
    <3>1. 2^(((k - m - 1) + 1) + m) = 2^((k - m - 1) + 1) * g
      BY <2>1, PowAdd
    <3> QED  BY <3>1, <2>1
  <2>3. 2^((k - m - 1) + 1) = 2 * f /\ f \in Int
    BY <2>1, PowersOfTwo, PowPos, Widths
  <2>4. Bit(a, m) = (a \div g) % 2 /\ Bit(b, m) = (b \div g) % 2 /\ Bit(a + b, m) = ((a + b) \div g) % 2
    BY DEF Bit
  <2> DEFINE r == q * f
             n == a \div g
  <2>5. r \in Int /\ n \in Int
    <3> HIDE DEF q, f, g
    <3> QED  BY <1>1, <1>2, <2>3, DivMod
  <2>6. b = (2 * r) * g + 0
    <3> HIDE DEF q, f, g, d
    <3>1. d = (2 * f) * g
      BY <2>2, <2>3
    <3>2. q * ((2 * f) * g) = (2 * (q * f)) * g
      BY <1>1, <1>2, <2>3
    <3>3. (2 * (q * f)) * g \in Int
      BY <1>1, <1>2, <2>3
    <3> QED  BY <3>1, <3>2, <3>3, <1>2
  <2> HIDE DEF d, q, g, f, r
  <2>7. 2 * r \in Int /\ b \div g = 2 * r
    BY <1>1, <2>5, <2>6, DivModUnique
  <2>8. (a + (2 * r) * g) \div g = n + 2 * r
    <3> DEFINE j == 2 * r
    <3>1. j \in Int
      BY <2>7
    <3> HIDE DEF j
    <3>2. (a + j * g) \div g = n + j
      BY <1>1, <3>1, ModShift
    <3> QED  BY <3>2 DEF j
  <2>9. (a + b) \div g = n + 2 * r
    BY <1>1, <2>5, <2>6, <2>8
  <2> HIDE DEF n
  <2>10. (2 * r) % 2 = 0 /\ (n + r * 2) % 2 = n % 2 /\ n + 2 * r = n + r * 2 /\ n % 2 \in Int
    BY <2>5, ModShift
  <2>11. (n + 2 * r) % 2 = n % 2
    BY <2>10
  <2> QED  BY <2>4, <2>7, <2>9, <2>10, <2>11 DEF n
<1> QED  BY <1>3, <1>4

\* Conjunctions of numbers of k bits, with or without the ones above, up to n.
LEMMA AndOnes ==
    ASSUME NEW n \in 0 .. DW, NEW k \in 0 .. n, NEW a \in Unsigned(k), NEW b \in Unsigned(k)
    PROVE  LET ones == 2^n - 2^k
           IN  /\ (a & (b + ones)) = (a & b) /\ ((a + ones) & b) = (a & b)
               /\ ((a + ones) & (b + ones)) = (a & b) + ones
<1> DEFINE ones == 2^n - 2^k
           d == 2^k
<1>1. 2^n \in Nat /\ d \in Nat /\ d >= 1 /\ d <= 2^n /\ k \in 0 .. DW /\ n <= DW /\ n \in 0 .. DW
      /\ 2^(n - k) \in Nat /\ 2^n = 2^(n - k) * d
  BY PowMono, Widths
<1>2. ones \in Int /\ ones >= 0 /\ ones % d = 0
  <2> DEFINE c == 2^(n - k)
  <2>1. c \in Nat /\ 2^n = c * d
    BY <1>1
  <2> HIDE DEF c, d
  <2> DEFINE j == c - 1
             b0 == 2^n - d
  <2>2. b0 = j * d + 0 /\ j \in Int /\ b0 \in Int /\ d > 0
    BY <1>1, <2>1
  <2> HIDE DEF j, b0
  <2>3. b0 % d = 0
    BY <2>2, <1>1, DivModUnique
  <2> QED  BY <2>3, <1>1 DEF d, b0
<1>3. a \in Int /\ b \in Int /\ 0 <= a /\ a < d /\ 0 <= b /\ b < d /\ a \in 0 .. (2^k - 1) /\ b \in 0 .. (2^k - 1)
  BY <1>1 DEF Unsigned
<1>4. ASSUME NEW x \in Int, NEW y \in 0 .. (2^k - 1)
      PROVE  (x & y) + (x & ones) = (x & (y + ones))
  <2>1. y \in Int /\ y + ones \in Int
    BY <1>1, <1>2
  <2>2. \A m \in 0 .. (DW - 1) : Bit(y, m) + Bit(ones, m) = Bit(y + ones, m)
    <3> HIDE DEF ones
    <3> QED  BY <1>1, <1>2, BitsApart
  <2> HIDE DEF ones
  <2> QED  BY <1>2, <2>1, <2>2, AndSplit
<1>5. ASSUME NEW x \in Unsigned(n)
      PROVE  (x & ones) = x - (x % d)
  <2>1. (x & Inv(2^k - 1, n)) = x - (x % 2^k)
    BY AndHigh
  <2>2. Inv(2^k - 1, n) = 2^n - 2^k
    <3>1. (2^k - 1) % 2^n = 2^k - 1
      BY <1>1, ModSmall
    <3> QED  BY <3>1, <1>1 DEF Inv, U
  <2> QED  BY <2>1, <2>2
<1>6. a \in Unsigned(n) /\ b \in Unsigned(n) /\ a + ones \in Unsigned(n) /\ b + ones \in Unsigned(n)
  BY <1>1, <1>3 DEF Unsigned
<1>7. a % d = a /\ b % d = b /\ (a + ones) % d = a
  <2>1. a % d = a /\ b % d = b
    BY <1>1, <1>3, ModSmall
  <2> DEFINE q == ones \div d
  <2>2. ones = q * d + 0 /\ q \in Int
    <3> HIDE DEF ones, d
    <3> QED  BY <1>1, <1>2, DivMod
  <2> HIDE DEF ones, d, q
  <2>3. (a + q * d) % d = a % d
    BY <1>1, <1>3, <2>2, ModShift
  <2>4. a + ones = a + q * d
    <3>1. q * d \in Int
      BY <1>1, <2>2
    <3> QED  BY <3>1, <1>2, <2>2, <1>3
  <2> QED  BY <2>1, <2>3, <2>4
<1>8. (a & ones) = 0 /\ (b & ones) = 0 /\ ((a + ones) & ones) = ones
  <2>1. (a & ones) = a - (a % d) /\ (b & ones) = b - (b % d) /\ ((a + ones) & ones) = (a + ones) - ((a + ones) % d)
    BY <1>5, <1>6
  <2> HIDE DEF ones, d
  <2> QED  BY <2>1, <1>2, <1>3, <1>7
<1> HIDE DEF ones, d
<1>9. (a & b) \in Int /\ (a & b) = (b & a) /\ a + ones \in Int
  BY <1>2, <1>3, BitwiseInt, AndComm
<1>10. (a & (b + ones)) = (a & b)
  BY <1>3, <1>4, <1>8, <1>9
<1>11. ((a + ones) & b) = (a & b)
  <2>1. (b & (a + ones)) = (b & a)
    BY <1>3, <1>4, <1>8, <1>9
  <2>2. ((a + ones) & b) = (b & (a + ones))
    BY <1>3, <1>9, AndComm
  <2> QED  BY <2>1, <2>2, <1>9
<1>12. ((a + ones) & (b + ones)) = (a & b) + ones
  <2>1. ((a + ones) & b) + ((a + ones) & ones) = ((a + ones) & (b + ones))
    BY <1>3, <1>4, <1>9
  <2> QED  BY <2>1, <1>8, <1>11
<1> QED  BY <1>10, <1>11, <1>12 DEF ones

\* Words as the 64-bit registers hold them, under the bitwise operators.
LEMMA WideAnd ==
    ASSUME NEW a \in Unsigned(WW), NEW b \in Unsigned(WW)
    PROVE  /\ (W(a) & W(b)) = W(a & b) /\ (a & b) \in Unsigned(WW)
           /\ (W(a) | W(b)) = W(a | b) /\ (a | b) \in Unsigned(WW)
           /\ (W(a) ^^ W(b)) = W(a ^^ b) /\ (a ^^ b) \in Unsigned(WW)
<1> DEFINE h == 2^(WW - 1)
           P == 2^WW
           Q == 2^DW
           f == a % h
           g == b % h
           c == (f & g)
<1>1. h \in Nat /\ h >= 8 /\ P = 2 * h /\ P \in Nat /\ Q \in Nat /\ P < Q
  BY HalfWord
<1>2. WW - 1 \in 0 .. WW /\ WW \in 0 .. DW /\ WW - 1 \in 0 .. DW /\ DW \in 0 .. DW
  BY Widths
<1>3. a \in Int /\ b \in Int /\ 0 <= a /\ a < P /\ 0 <= b /\ b < P
  BY <1>1 DEF Unsigned
<1>4. /\ a < h => f = a
      /\ a >= h => f = a - h
      /\ f \in 0 .. (h - 1)
  <2> HIDE DEF h, P
  <2>1. a < h => a % h = a
    BY <1>1, <1>3, ModSmall
  <2>2. a >= h => a % h = a - h
    <3>1. a = 1 * h + (a - h) /\ a - h \in Int
      BY <1>1, <1>3
    <3> QED  BY <3>1, <1>1, <1>3, DivModUnique
  <2> QED  BY <2>1, <2>2, <1>1, <1>3
<1>5. /\ b < h => g = b
      /\ b >= h => g = b - h
      /\ g \in 0 .. (h - 1)
  <2> HIDE DEF h, P
  <2>1. b < h => b % h = b
    BY <1>1, <1>3, ModSmall
  <2>2. b >= h => b % h = b - h
    <3>1. b = 1 * h + (b - h) /\ b - h \in Int
      BY <1>1, <1>3
    <3> QED  BY <3>1, <1>1, <1>3, DivModUnique
  <2> QED  BY <2>1, <2>2, <1>1, <1>3
<1>6. f \in Unsigned(WW - 1) /\ g \in Unsigned(WW - 1)
  BY <1>4, <1>5 DEF Unsigned
<1>7. (f & (g + h)) = c /\ ((f + h) & g) = c /\ ((f + h) & (g + h)) = c + h
  <2>1. h = P - h
    BY <1>1
  <2> HIDE DEF f, g
  <2>2. /\ (f & (g + (P - h))) = (f & g) /\ ((f + (P - h)) & g) = (f & g)
        /\ ((f + (P - h)) & (g + (P - h))) = (f & g) + (P - h)
    BY <1>2, <1>6, AndOnes
  <2> HIDE DEF h, P
  <2> QED  BY <2>1, <2>2
<1>8. c \in 0 .. (h - 1) /\ (f | g) \in 0 .. (h - 1) /\ (f ^^ g) \in 0 .. (h - 1)
  <2> HIDE DEF f, g
  <2> QED  BY <1>2, <1>4, <1>5, BitwiseRange
<1>9. (f | g) = f + g - c /\ (f ^^ g) = f + g - 2 * c /\ (a | b) = a + b - (a & b) /\ (a ^^ b) = a + b - 2 * (a & b)
      /\ (W(a) | W(b)) = W(a) + W(b) - (W(a) & W(b)) /\ (W(a) ^^ W(b)) = W(a) + W(b) - 2 * (W(a) & W(b))
  BY DEF |, ^^
<1>10. (a & b) = IF a >= h /\ b >= h THEN c + h ELSE c
  <2> HIDE DEF f, g, h, P
  <2>1. /\ a >= h => a = f + h
        /\ b >= h => b = g + h
    BY <1>1, <1>3, <1>4, <1>5
  <2> QED  BY <2>1, <1>1, <1>3, <1>4, <1>5, <1>7 DEF c
<1>11. (a & b) \in Unsigned(WW) /\ (a | b) \in Unsigned(WW) /\ (a ^^ b) \in Unsigned(WW)
  BY <1>2, <1>3, BitwiseRange DEF Unsigned
<1>12. /\ W(a) = IF a < h THEN a ELSE a + (Q - P)
       /\ W(b) = IF b < h THEN b ELSE b + (Q - P)
       /\ W(a & b) = IF (a & b) < h THEN (a & b) ELSE (a & b) + (Q - P)
       /\ W(a | b) = IF (a | b) < h THEN (a | b) ELSE (a | b) + (Q - P)
       /\ W(a ^^ b) = IF (a ^^ b) < h THEN (a ^^ b) ELSE (a ^^ b) + (Q - P)
  <2>1. ASSUME NEW v \in Unsigned(WW)
        PROVE  W(v) = IF v < h THEN v ELSE v + (Q - P)
    <3>1. v \in Nat /\ W(v) = IF v < h THEN v ELSE v - P + Q
      BY Ext
    <3> HIDE DEF h, P, Q
    <3> QED  BY <3>1, <1>1
  <2> HIDE DEF h, P, Q
  <2> QED  BY <2>1, <1>11
<1>13. (W(a) & W(b)) = IF a >= h /\ b >= h THEN (a & b) + (Q - P) ELSE (a & b)
  <2>1. /\ (a & (b + (Q - P))) = (a & b) /\ ((a + (Q - P)) & b) = (a & b)
        /\ ((a + (Q - P)) & (b + (Q - P))) = (a & b) + (Q - P)
    BY <1>2, AndOnes
  <2> HIDE DEF h, P, Q
  <2> QED  BY <2>1, <1>1, <1>3, <1>12
<1> DEFINE d == (a & b)
<1>14. d \in Int
  BY <1>11 DEF Unsigned
<1> HIDE DEF f, g, h, P, Q, c
<1>15. d = (IF a >= h /\ b >= h THEN c + h ELSE c) /\ (W(a) & W(b)) = IF a >= h /\ b >= h THEN d + (Q - P) ELSE d
  BY <1>10, <1>13
<1>16. (W(a) & W(b)) = W(d)
  BY <1>1, <1>8, <1>12, <1>15 DEF c
<1>17. (a | b) = a + b - d /\ (a ^^ b) = a + b - 2 * d
  BY <1>9
<1>18. f + g - c \in 0 .. (h - 1) /\ f + g - 2 * c \in 0 .. (h - 1)
  BY <1>8, <1>9 DEF c
<1> DEFINE o == (a | b)
           e == (a ^^ b)
<1>19. o < h <=> a < h /\ b < h
  <2> HIDE DEF d
  <2> QED  BY <1>1, <1>3, <1>4, <1>5, <1>8, <1>15, <1>17, <1>18 DEF c
<1>20. e < h <=> (a < h <=> b < h)
  <2> HIDE DEF d
  <2> QED  BY <1>1, <1>3, <1>4, <1>5, <1>8, <1>15, <1>17, <1>18 DEF c
<1>21. W(o) = (IF o < h THEN o ELSE o + (Q - P)) /\ W(e) = (IF e < h THEN e ELSE e + (Q - P))
  BY <1>12
<1>22. o \in Int /\ e \in Int
  BY <1>11 DEF Unsigned
<1>23. (W(a) | W(b)) = W(a) + W(b) - (W(a) & W(b)) /\ (W(a) ^^ W(b)) = W(a) + W(b) - 2 * (W(a) & W(b))
  BY <1>9
<1>24. (W(a) | W(b)) = W(o) /\ (W(a) ^^ W(b)) = W(e)
  <2>1. o = a + b - d /\ e = a + b - 2 * d
    BY <1>17
  <2>2. W(a) = (IF a < h THEN a ELSE a + (Q - P)) /\ W(b) = (IF b < h THEN b ELSE b + (Q - P))
    BY <1>12
  <2>3. (W(a) & W(b)) = IF a >= h /\ b >= h THEN d + (Q - P) ELSE d
    BY <1>15
  <2> DEFINE x == (W(a) & W(b))
  <2>4. (W(a) | W(b)) = W(a) + W(b) - x /\ (W(a) ^^ W(b)) = W(a) + W(b) - 2 * x
    BY <1>23
  <2>5. x = IF a >= h /\ b >= h THEN d + (Q - P) ELSE d
    BY <2>3
  <2> HIDE DEF o, e, d, x
  <2> QED  BY <1>1, <1>3, <1>14, <1>19, <1>20, <1>21, <1>22, <2>1, <2>2, <2>4, <2>5
<1> QED  BY <1>11, <1>16, <1>24

LEMMA WideNor ==
    ASSUME NEW v \in Unsigned(WW)
    PROVE  Inv(W(v), DW) = W(Inv(v, WW)) /\ Inv(v, WW) \in Unsigned(WW)
<1> DEFINE h == 2^(WW - 1)
           P == 2^WW
           Q == 2^DW
           n == P - 1 - v
<1>1. h \in Nat /\ h >= 8 /\ P = 2 * h /\ P \in Nat /\ Q \in Nat /\ P < Q
  BY HalfWord
<1>2. v \in Nat /\ v < P /\ W(v) = (IF v < h THEN v ELSE v - P + Q) /\ W(v) \in Unsigned(DW)
  BY Ext
<1>3. U(v, WW) = v /\ U(W(v), DW) = W(v)
  BY <1>2, USmall
<1>4. Inv(v, WW) = n /\ Inv(W(v), DW) = Q - 1 - W(v)
  BY <1>3 DEF Inv
<1>5. n \in Unsigned(WW)
  BY <1>1, <1>2 DEF Unsigned
<1> HIDE DEF n
<1>6. W(n) = (IF n < h THEN n ELSE n - P + Q)
  BY <1>5, Ext
<1> HIDE DEF h, P, Q
<1>7. Q - 1 - W(v) = W(n)
  BY <1>1, <1>2, <1>6 DEF n
<1> QED  BY <1>4, <1>5, <1>7

\* The registers of the two states an instruction reads.
LEMMA WideReads ==
    ASSUME NEW x \in States(WW), NEW i, Ready(i)
    PROVE  /\ i.rs \in Registers /\ i.rt \in Registers /\ i.rd \in Registers
           /\ \A r \in Registers : x.gpr[r] \in Unsigned(WW) /\ Widen(x).gpr[r] = W(x.gpr[r])
           /\ \A r \in Registers : x.gpr[r] \in Int /\ W(x.gpr[r]) \in Int
           /\ x.hi \in Unsigned(WW) /\ x.lo \in Unsigned(WW) /\ Widen(x).hi = W(x.hi) /\ Widen(x).lo = W(x.lo)
           /\ Widen(x).pc = x.pc /\ Widen(x).fcr = x.fcr /\ Widen(x).mem = x.mem /\ Widen(x).cpr1 = x.cpr1
           /\ x.w = WW /\ Widen(x).w = DW /\ x.mem \in Memories
<1>1. \A r \in Registers : x.gpr[r] \in Unsigned(WW) /\ x.gpr[r] \in Int
  BY Reads
<1>2. \A r \in Registers : W(x.gpr[r]) \in Int
  BY <1>1, Ext
<1> QED  BY <1>1, <1>2, Reads, Fields, WidenIs

LEMMA WideWord ==
    ASSUME NEW v \in Unsigned(WW)
    PROVE  v \in Int /\ W(v) \in Int /\ U(v, WW) = v /\ U(W(v), DW) = W(U(v, WW))
<1>1. W(v) \in Unsigned(DW) /\ v \in Int /\ W(v) \in Int
  BY Ext
<1> QED  BY <1>1, USmall

\* Numbers that fit are the same in both widths.
LEMMA WideFit ==
    ASSUME NEW v \in Int, -(2^(WW - 1)) <= v, v < 2^(WW - 1)
    PROVE  U(v, DW) = W(U(v, WW))
BY ExtFits

LEMMA FloorRange ==
    ASSUME NEW v \in Int, NEW h \in Nat, -h <= v, v < h, NEW d \in Nat, d >= 1
    PROVE  v \div d \in Int /\ -h <= v \div d /\ v \div d < h
<1> DEFINE q == v \div d
<1>1. q \in Int /\ v % d \in Int /\ 0 <= v % d /\ v % d < d /\ v = q * d + (v % d)
  BY DivMod
<1> HIDE DEF q
<1>2. ~(q >= h)
  <2>1. q >= h => h * d <= q * d
    BY <1>1, MulLeq
  <2>2. h * d >= h
    <3>1. h * 1 <= h * d
      OBVIOUS
    <3> QED  BY <3>1
  <2>3. q * d \in Int /\ h * d \in Int
    BY <1>1
  <2> QED  BY <2>1, <2>2, <2>3, <1>1
<1>3. ~(q < -h)
  <2>1. q < -h => q * d <= (-h - 1) * d
    BY <1>1, MulLeq
  <2>2. (-h - 1) * d = -(h * d) - d
    OBVIOUS
  <2>3. h * d >= h
    <3>1. h * 1 <= h * d
      OBVIOUS
    <3> QED  BY <3>1
  <2>4. q * d \in Int /\ h * d \in Int
    BY <1>1
  <2> QED  BY <2>1, <2>2, <2>3, <2>4, <1>1
<1> QED  BY <1>1, <1>2, <1>3 DEF q

\* The number of bits of a word divides 2^WW, as 32 divides 2^32.
SizeDivides == \E q \in Nat : 2^WW = q * WW

LEMMA WideAmount ==
    ASSUME SizeDivides, NEW v \in Unsigned(WW)
    PROVE  W(v) % WW = v % WW
<1>1. PICK q \in Nat : 2^WW = q * WW
  BY DEF SizeDivides
<1> DEFINE P == 2^WW
           Q == 2^DW
           n == WW
<1>2. P \in Nat /\ Q = P * P /\ v \in Int /\ n \in Int /\ n > 0 /\ P = q * n /\ Q \in Nat
  BY <1>1, HalfWord, Widths, Ext
<1>3. W(v) = v \/ W(v) = v - P + Q
  BY Ext
<1> DEFINE k == (P - 1) * q
<1>4. k \in Int /\ Q - P = k * n
  <2> HIDE DEF P, Q, n
  <2>1. Q - P = (P - 1) * P
    BY <1>2
  <2>2. (P - 1) * (q * n) = ((P - 1) * q) * n
    BY <1>2
  <2> QED  BY <2>1, <2>2, <1>2
<1> HIDE DEF k, P, Q
<1>5. (v + k * n) % n = v % n
  <2> HIDE DEF n
  <2> QED  BY <1>2, <1>4, ModShift
<1>6. v - P + Q = v + k * n
  <2>1. k * n \in Int
    BY <1>2, <1>4
  <2> HIDE DEF n
  <2> QED  BY <2>1, <1>2, <1>4
<1> QED  BY <1>3, <1>5, <1>6 DEF P, Q, n

LEMMA WideShifts ==
    ASSUME SizeDivides, NEW x \in States(WW), Below(x), NEW i, Ready(i), i.op \in {"sra", "srav", "movci"}
    PROVE  Shifts_64(Widen(x), i) = Widen(Shifts(x, i))
<1> DEFINE y == Widen(x)
           a == x.gpr[i.rs]
           b == x.gpr[i.rt]
           c == x.gpr[i.rd]
<1>1. i.rd \in Registers /\ a \in Unsigned(WW) /\ b \in Unsigned(WW) /\ c \in Unsigned(WW)
      /\ y.gpr[i.rs] = W(a) /\ y.gpr[i.rt] = W(b) /\ y.gpr[i.rd] = W(c) /\ y.fcr = x.fcr
  BY WideReads
<1>2. CASE i.op = "movci"
  <2> DEFINE v == IF OnCode(x, i) THEN a ELSE c
  <2>1. OnCode(y, i) = OnCode(x, i)
    BY <1>1 DEF OnCode, getConditionCode
  <2>2. Shifts(x, i) = Gpr(x, i.rd, v)
    BY <1>2 DEF Shifts, _movci
  <2>3. Shifts_64(y, i) = Gpr(y, i.rd, IF OnCode(y, i) THEN y.gpr[i.rs] ELSE y.gpr[i.rd])
    BY <1>2 DEF Shifts_64, _movci_64
  <2>4. Shifts_64(y, i) = Gpr(y, i.rd, W(v))
    BY <2>1, <2>3, <1>1
  <2>5. v \in Unsigned(WW)
    BY <1>1
  <2> HIDE DEF v
  <2>6. Gpr(Widen(x), i.rd, W(v)) = Widen(Gpr(x, i.rd, v))
    BY <2>5, <1>1, WideWord, WideGpr
  <2> QED  BY <2>2, <2>4, <2>6
<1>3. CASE i.op \in {"sra", "srav"}
  <2> DEFINE n == IF i.op = "srav" THEN a % WW ELSE i.sa
             v == S(b, WW) \div 2^n
  <2>1. Shifts(x, i) = Gpr(x, i.rd, v)
    BY <1>3 DEF Shifts
  <2>2. W(a) % WW = a % WW
    BY <1>1, WideAmount
  <2>3. Shifts_64(y, i) = Gpr(y, i.rd, S(W(b), DW) \div 2^n)
    <3> HIDE DEF y
    <3>1. CASE i.op = "srav"
      <4>1. Shifts_64(y, i) = Gpr(y, i.rd, S(y.gpr[i.rt], DW) \div 2^(y.gpr[i.rs] % WW))
        BY <3>1 DEF Shifts_64
      <4>2. n = a % WW
        BY <3>1
      <4> QED  BY <4>1, <4>2, <1>1, <2>2
    <3>2. CASE i.op = "sra"
      <4>1. Shifts_64(y, i) = Gpr(y, i.rd, S(y.gpr[i.rt], DW) \div 2^i.sa)
        BY <3>2 DEF Shifts_64
      <4>2. n = i.sa
        BY <3>2
      <4> QED  BY <4>1, <4>2, <1>1
    <3> QED  BY <3>1, <3>2, <1>3
  <2>4. S(W(b), DW) = S(b, WW)
    BY <1>1, Ext
  <2>5. 2^n \in Nat /\ 2^n >= 1
    <3>1. n \in {i.sa, x.gpr[i.rs] % WW} /\ i.op \in ShiftOps
      BY <1>3 DEF ShiftOps
    <3> HIDE DEF n
    <3> QED  BY <3>1, ShiftAmount
  <2>6. S(b, WW) \in Int /\ -(2^(WW - 1)) <= S(b, WW) /\ S(b, WW) < 2^(WW - 1) /\ 2^(WW - 1) \in Nat
    <3>1. WW \in 1 .. DW /\ b \in Int
      BY <1>1, WideWord, Widths
    <3> QED  BY <3>1, SRange, HalfWord
  <2> DEFINE d == 2^n
             z == S(b, WW)
             h == 2^(WW - 1)
  <2>7. v \in Int /\ -h <= v /\ v < h
    <3>1. d \in Nat /\ d >= 1 /\ z \in Int /\ -h <= z /\ z < h /\ h \in Nat
      BY <2>5, <2>6
    <3> HIDE DEF d, z, h
    <3>2. z \div d \in Int /\ -h <= z \div d /\ z \div d < h
      BY <3>1, FloorRange
    <3> QED  BY <3>2 DEF z, d
  <2>8. Shifts_64(y, i) = Gpr(y, i.rd, v)
    BY <2>3, <2>4
  <2> HIDE DEF v, n
  <2>9. U(v, DW) = W(U(v, WW))
    BY <2>7, WideFit
  <2>10. Gpr(Widen(x), i.rd, v) = Widen(Gpr(x, i.rd, v))
    BY <2>7, <2>9, <1>1, WideGpr
  <2> QED  BY <2>1, <2>8, <2>10
<1> QED  BY <1>2, <1>3

\* A power of two exceeds its exponent.
LEMMA PowOver == WW < 2^(WW - 1)
<1> DEFINE T == {n \in 3 .. DW : ~(n + 2 <= 2^n)}
<1>1. ASSUME T # {} PROVE FALSE
  <2>0. T \subseteq Nat
    OBVIOUS
  <2>1. PICK n \in T : \A j \in T : n <= j
    <3> HIDE DEF T
    <3> QED  BY <1>1, <2>0, LeastNatural
  <2>2. ASSUME n = 3 PROVE FALSE
    <3>1. 2^n = 2^3
      BY <2>2, Zenon
    <3>2. 2^3 = 8
      OBVIOUS
    <3> QED  BY <3>1, <3>2, <2>1, <2>2
  <2> DEFINE m == n - 1
  <2>3. m \in 3 .. DW /\ m \in 0 .. DW /\ m \notin T /\ m + 1 = n
    BY <2>1, <2>2, Widths
  <2>4. m + 2 <= 2^m
    BY <2>3
  <2> HIDE DEF m
  <2>5. 2^n = 2 * 2^m /\ 2^m \in Nat
    BY <2>3, PowersOfTwo, PowPos, Widths
  <2> QED  BY <2>1, <2>3, <2>4, <2>5
<1>2. WW - 1 \in 3 .. DW
  BY Widths
<1>3. WW - 1 + 2 <= 2^(WW - 1)
  BY <1>1, <1>2
<1> QED  BY <1>3, HalfWord, Widths

\* A product or a sum cut in two, into hi and lo.
LEMMA WideSplit ==
    ASSUME NEW x \in States(WW), Below(x), NEW v \in Int
    PROVE  /\ HiLo(Widen(x), u32toi64(U(v, DW) \div 2^WW), u32toi64(v)) = Widen(HiLo(x, U(v, DW) \div 2^WW, v))
           /\ HiLo(Widen(x), u32toi64(U(v, DW) \div 2^WW), u32toi64(U(v, DW))) = Widen(HiLo(x, U(v, DW) \div 2^WW, v))
<1> DEFINE h == U(v, DW) \div 2^WW
           n == U(v, DW)
           a == u32toi64(h)
           b == u32toi64(v)
           c == u32toi64(n)
<1>1. n \in Int /\ h \in Int
  <2>1. n \in Int
    BY URanges
  <2> QED  BY <2>1, Powers, DivMod
<1>2. U(n, WW) = U(v, WW)
  <2> DEFINE d == 2^WW
  <2>1. d \in Int /\ d > 0 /\ n = v % (d * d)
    BY Powers DEF U
  <2> HIDE DEF d, n
  <2>2. (v % (d * d)) % d = v % d
    BY <2>1, ModOfProduct
  <2> QED  BY <2>1, <2>2 DEF U, d
<1> HIDE DEF n, h
<1>3. /\ a \in Int /\ U(a, DW) = W(U(h, WW))
      /\ b \in Int /\ U(b, DW) = W(U(v, WW))
      /\ c \in Int /\ U(c, DW) = W(U(v, WW))
  BY <1>1, <1>2, ExtCast
<1> HIDE DEF a, b, c
<1>4. HiLo(Widen(x), a, b) = Widen(HiLo(x, h, v)) /\ HiLo(Widen(x), a, c) = Widen(HiLo(x, h, v))
  BY <1>1, <1>3, WideHiLo
<1> QED  BY <1>4 DEF a, b, c, h, n

LEMMA WideBreaks ==
    ASSUME NEW x \in States(WW), Below(x), NEW i, i.op \in {"break", "sync"}
    PROVE  MulDiv_64(Widen(x), i) = Widen(Breaks(x, i))
<1>1. CASE i.op = "sync"
  <2>1. MulDiv_64(Widen(x), i) = Adv(Widen(x)) /\ Breaks(x, i) = Adv(x)
    BY <1>1 DEF MulDiv_64, Breaks
  <2>2. x.pc + 4 < 2^WW
    BY Reads, HalfWord DEF Below
  <2> QED  BY <2>1, <2>2, WideAdv
<1>2. CASE i.op = "break"
  <2>1. MulDiv_64(Widen(x), i) = [Widen(x) EXCEPT !.brk = 1] /\ Breaks(x, i) = [x EXCEPT !.brk = 1]
    BY <1>2 DEF MulDiv_64, Breaks
  <2>2. [Widen(x) EXCEPT !.brk = 1] = Widen([x EXCEPT !.brk = 1])
    BY DEF Widen, States
  <2> QED  BY <2>1, <2>2
<1> QED  BY <1>1, <1>2

LEMMA WideMulDiv ==
    ASSUME NEW x \in States(WW), Below(x), NEW i, Ready(i), i.op \in {"mfhi", "mthi", "mflo", "mtlo", "mult"}
    PROVE  MulDiv_64(Widen(x), i) = Widen(MulDiv(x, i))
<1> DEFINE y == Widen(x)
           a == x.gpr[i.rs]
           b == x.gpr[i.rt]
           hi == x.hi
           lo == x.lo
<1>1. i.rd \in Registers /\ a \in Unsigned(WW) /\ b \in Unsigned(WW) /\ hi \in Unsigned(WW) /\ lo \in Unsigned(WW)
      /\ y.gpr[i.rs] = W(a) /\ y.gpr[i.rt] = W(b) /\ y.hi = W(hi) /\ y.lo = W(lo)
  BY WideReads
<1>2. /\ a \in Int /\ W(a) \in Int /\ U(W(a), DW) = W(U(a, WW))
      /\ hi \in Int /\ W(hi) \in Int /\ U(W(hi), DW) = W(U(hi, WW))
      /\ lo \in Int /\ W(lo) \in Int /\ U(W(lo), DW) = W(U(lo, WW))
  BY <1>1, WideWord
<1>3. ASSUME i.op = "mult" PROVE MulDiv_64(y, i) = Widen(MulDiv(x, i))
  <2> DEFINE p == S(a, WW) * S(b, WW)
  <2>1. MulDiv(x, i) = HiLo(x, U(p, DW) \div 2^WW, p)
    BY <1>3 DEF MulDiv
  <2>2. S(W(a), DW) = S(a, WW) /\ S(W(b), DW) = S(b, WW)
    BY <1>1, Ext
  <2>3. MulDiv_64(y, i) = HiLo(y, u32toi64(U(p, DW) \div 2^WW), u32toi64(U(p, DW)))
    <3> HIDE DEF y
    <3> QED  BY <1>1, <1>3, <2>2 DEF MulDiv_64
  <2>4. p \in Int
    <3>1. S(a, WW) \in Int /\ S(b, WW) \in Int
      BY <1>1, WideWord, SInts
    <3> QED  BY <3>1
  <2> HIDE DEF p
  <2> QED  BY <2>1, <2>3, <2>4, WideSplit
<1>4. ASSUME i.op = "mfhi" PROVE MulDiv_64(y, i) = Widen(MulDiv(x, i))
  <2>1. MulDiv(x, i) = Gpr(x, i.rd, hi) /\ MulDiv_64(y, i) = Gpr(y, i.rd, W(hi))
    BY <1>1, <1>4 DEF MulDiv, MulDiv_64
  <2> HIDE DEF hi
  <2> QED  BY <2>1, <1>1, <1>2, WideGpr
<1>5. ASSUME i.op = "mflo" PROVE MulDiv_64(y, i) = Widen(MulDiv(x, i))
  <2>1. MulDiv(x, i) = Gpr(x, i.rd, lo) /\ MulDiv_64(y, i) = Gpr(y, i.rd, W(lo))
    BY <1>1, <1>5 DEF MulDiv, MulDiv_64
  <2> HIDE DEF lo
  <2> QED  BY <2>1, <1>1, <1>2, WideGpr
<1>6. ASSUME i.op = "mthi" PROVE MulDiv_64(y, i) = Widen(MulDiv(x, i))
  <2>1. MulDiv(x, i) = HiLo(x, a, lo) /\ MulDiv_64(y, i) = HiLo(y, W(a), W(lo))
    BY <1>1, <1>6 DEF MulDiv, MulDiv_64
  <2> HIDE DEF lo, a
  <2> QED  BY <2>1, <1>1, <1>2, WideHiLo
<1>7. ASSUME i.op = "mtlo" PROVE MulDiv_64(y, i) = Widen(MulDiv(x, i))
  <2>1. MulDiv(x, i) = HiLo(x, hi, a) /\ MulDiv_64(y, i) = HiLo(y, W(hi), W(a))
    BY <1>1, <1>7 DEF MulDiv, MulDiv_64
  <2> HIDE DEF hi, a
  <2> QED  BY <2>1, <1>1, <1>2, WideHiLo
<1> QED  BY <1>3, <1>4, <1>5, <1>6, <1>7

\* Both interpreters build the same accumulator: hi moves to the upper word, its
\* own sign out of the register.
LEMMA WideAcc ==
    ASSUME NEW x \in States(WW)
    PROVE  (U(W(x.hi) * 2^WW, DW) | W(x.lo)) = Acc(x) /\ Acc(x) \in Int
<1> DEFINE P == 2^WW
           Q == 2^DW
           v == x.hi
           e == v * P
<1>1. P \in Nat /\ Q \in Nat /\ Q = P * P /\ Q > 0 /\ v \in Unsigned(WW) /\ v \in Int
  BY HalfWord, Powers, Reads
<1>2. W(v) = v \/ W(v) = v - P + Q
  BY <1>1, Ext
<1>3. e \in Int
  BY <1>1
<1>4. W(v) * P = e \/ W(v) * P = e + (P - 1) * Q
  <2> HIDE DEF P, Q, v
  <2>1. (v - P + Q) * P = v * P + (P - 1) * Q
    <3>1. (v - P + P * P) * P = v * P + (P - 1) * (P * P)
      BY <1>1
    <3> QED  BY <3>1, <1>1
  <2> QED  BY <2>1, <1>2
<1> DEFINE k == P - 1
<1>5. k \in Int
  BY <1>1
<1>6. W(v) * P = e \/ W(v) * P = e + k * Q
  BY <1>4
<1> HIDE DEF P, Q, e, k
<1>7. (e + k * Q) % Q = e % Q
  BY <1>1, <1>3, <1>5, ModShift
<1>8. (W(v) * P) % Q = e % Q
  BY <1>6, <1>7
<1>9. U(W(x.hi) * 2^WW, DW) = U(x.hi * 2^WW, DW)
  BY <1>8 DEF U, P, Q, e
<1> QED  BY <1>9, AccInt DEF Acc, W

LEMMA WideSpecial2 ==
    ASSUME NEW x \in States(WW), Below(x), NEW i, Ready(i), i.op \in {"madd", "mul", "msub", "clz"}
    PROVE  execSpecial2_64(Widen(x), i) = Widen(execSpecial2(x, i))
<1> DEFINE y == Widen(x)
           a == x.gpr[i.rs]
           b == x.gpr[i.rt]
           acc == Acc(x)
           p == S(a, WW) * S(b, WW)
<1>1. i.rd \in Registers /\ a \in Unsigned(WW) /\ b \in Unsigned(WW)
      /\ y.gpr[i.rs] = W(a) /\ y.gpr[i.rt] = W(b) /\ y.hi = W(x.hi) /\ y.lo = W(x.lo)
  BY WideReads
<1>2. (U(y.hi * 2^WW, DW) | y.lo) = acc /\ acc \in Int
  BY <1>1, WideAcc
<1>3. S(W(a), DW) = S(a, WW) /\ S(W(b), DW) = S(b, WW) /\ U(W(a), WW) = a
  BY <1>1, Ext
<1>4. p \in Int
  <2>1. S(a, WW) \in Int /\ S(b, WW) \in Int
    BY <1>1, WideWord, SInts
  <2> QED  BY <2>1
<1>5. S(y.gpr[i.rs], DW) * S(y.gpr[i.rt], DW) = p
  BY <1>1, <1>3
<1> HIDE DEF y, acc
<1>6. ASSUME i.op = "madd" PROVE execSpecial2_64(y, i) = Widen(execSpecial2(x, i))
  <2> DEFINE v == p + acc
  <2>1. execSpecial2(x, i) = HiLo(x, U(v, DW) \div 2^WW, v)
    BY <1>6 DEF execSpecial2, acc
  <2>2. execSpecial2_64(y, i) = HiLo(y, u32toi64(U(v, DW) \div 2^WW), u32toi64(v))
    BY <1>2, <1>5, <1>6 DEF execSpecial2_64
  <2>3. v \in Int
    BY <1>2, <1>4
  <2> HIDE DEF v
  <2> QED  BY <2>1, <2>2, <2>3, WideSplit DEF y
<1>7. ASSUME i.op = "msub" PROVE execSpecial2_64(y, i) = Widen(execSpecial2(x, i))
  <2> DEFINE v == acc - p
  <2>1. execSpecial2(x, i) = HiLo(x, U(v, DW) \div 2^WW, v)
    BY <1>7 DEF execSpecial2, acc
  <2>2. execSpecial2_64(y, i) = HiLo(y, u32toi64(U(v, DW) \div 2^WW), u32toi64(v))
    BY <1>2, <1>5, <1>7 DEF execSpecial2_64
  <2>3. v \in Int
    BY <1>2, <1>4
  <2> HIDE DEF v
  <2> QED  BY <2>1, <2>2, <2>3, WideSplit DEF y
<1>8. ASSUME i.op = "mul" PROVE execSpecial2_64(y, i) = Widen(execSpecial2(x, i))
  <2>1. execSpecial2(x, i) = Gpr(x, i.rd, p)
    BY <1>8 DEF execSpecial2
  <2>2. execSpecial2_64(y, i) = Gpr(y, i.rd, u32toi64(p))
    BY <1>5, <1>8 DEF execSpecial2_64
  <2> HIDE DEF p
  <2> DEFINE v == u32toi64(p)
  <2>3. U(v, DW) = W(U(p, WW)) /\ v \in Int
    BY <1>4, ExtCast
  <2> HIDE DEF v
  <2>4. Gpr(Widen(x), i.rd, v) = Widen(Gpr(x, i.rd, p))
    BY <2>3, <1>1, <1>4, WideGpr
  <2> QED  BY <2>1, <2>2, <2>4 DEF y, v
<1>9. ASSUME i.op = "clz" PROVE execSpecial2_64(y, i) = Widen(execSpecial2(x, i))
  <2> DEFINE n == CHOOSE n \in 0 .. WW : a \div 2^(WW - n) = 0 /\ (n = WW \/ a \div 2^(WW - n - 1) = 1)
  <2>1. execSpecial2(x, i) = Gpr(x, i.rd, n)
    BY <1>9 DEF execSpecial2
  <2>2. execSpecial2_64(y, i) = Gpr(y, i.rd, CHOOSE m \in 0 .. WW : U(y.gpr[i.rs], WW) \div 2^(WW - m) = 0
                                                   /\ (m = WW \/ U(y.gpr[i.rs], WW) \div 2^(WW - m - 1) = 1))
    BY <1>9 DEF execSpecial2_64
  <2>3. U(y.gpr[i.rs], WW) = a
    BY <1>1, <1>3
  <2>4. execSpecial2_64(y, i) = Gpr(y, i.rd, n)
    BY <2>2, <2>3
  <2>5. n \in 0 .. WW
    BY <1>1, LeadingZeros, Zenon
  <2> HIDE DEF n
  <2>6. n \in Int /\ -(2^(WW - 1)) <= n /\ n < 2^(WW - 1)
    BY <2>5, PowOver, HalfWord, Widths
  <2>7. U(n, DW) = W(U(n, WW))
    BY <2>6, WideFit
  <2>8. Gpr(Widen(x), i.rd, n) = Widen(Gpr(x, i.rd, n))
    BY <2>6, <2>7, <1>1, WideGpr
  <2> QED  BY <2>1, <2>4, <2>8 DEF y
<1> QED  BY <1>6, <1>7, <1>8, <1>9 DEF y

LEMMA ByteRanges ==
    ASSUME NEW v \in Int
    PROVE  /\ S(v, ByteBits) \in Int /\ -(2^(WW - 1)) <= S(v, ByteBits) /\ S(v, ByteBits) < 2^(WW - 1)
           /\ S(v, HW) \in Int /\ -(2^(WW - 1)) <= S(v, HW) /\ S(v, HW) < 2^(WW - 1)
<1>1. ByteBits \in 1 .. DW /\ HW \in 1 .. DW
  BY Widths
<1>2. ASSUME NEW n \in {ByteBits, HW}
      PROVE  S(v, n) \in Int /\ -(2^(WW - 1)) <= S(v, n) /\ S(v, n) < 2^(WW - 1)
  <2>0. n \in 1 .. DW
    BY <1>1
  <2>1. S(v, n) \in Int /\ -(2^(n - 1)) <= S(v, n) /\ S(v, n) < 2^(n - 1)
    BY <2>0, SRange
  <2>2. n - 1 \in Nat /\ WW - 1 \in Nat /\ n - 1 <= WW - 1 /\ WW - 1 <= DW + 1
    BY Widths
  <2> DEFINE j == n - 1
             k == WW - 1
  <2>3. j \in Nat /\ k \in Nat /\ j <= k /\ k <= DW + 1
    BY <2>2
  <2> HIDE DEF j, k
  <2>4. 2^j \in Nat /\ 2^k \in Nat /\ 2^j <= 2^k
    BY <2>3, PowMono
  <2> QED  BY <2>1, <2>4 DEF j, k
<1> QED  BY <1>2

\* The low bits of a word are those of the widened one.
LEMMA WideLow ==
    ASSUME NEW b \in Unsigned(WW), NEW n \in 0 .. WW
    PROVE  U(W(b), n) = U(b, n)
<1> DEFINE d == 2^n
           e == 2^(WW - n)
           P == 2^WW
           Q == 2^DW
<1>1. n \in Nat /\ n <= WW /\ WW <= DW + 1 /\ WW \in Nat
  BY Widths
<1>2. P = e * d /\ e \in Nat /\ d \in Nat /\ d >= 1 /\ Q = P * P /\ P \in Nat /\ Q \in Nat
  BY <1>1, PowMono, HalfWord
<1>3. (W(b) = b \/ W(b) = b - P + Q) /\ b \in Int
  BY Ext
<1> DEFINE k == (P - 1) * e
<1>4. k \in Int /\ Q - P = k * d /\ k * d \in Int
  <2> HIDE DEF P, Q, d, e
  <2>1. Q - P = (P - 1) * P
    BY <1>2
  <2>2. (P - 1) * (e * d) = ((P - 1) * e) * d
    BY <1>2
  <2> QED  BY <2>1, <2>2, <1>2
<1> HIDE DEF P, Q, d, e, k
<1>5. W(b) = b \/ W(b) = b + k * d
  BY <1>2, <1>3, <1>4
<1>6. (b + k * d) % d = b % d
  <2>1. b \in Int /\ k \in Int /\ d \in Int /\ d > 0
    BY <1>2, <1>3, <1>4
  <2> QED  BY <2>1, ModShift
<1>7. W(b) % d = b % d
  BY <1>5, <1>6
<1> QED  BY <1>7 DEF U, d

LEMMA WideSpecial3 ==
    ASSUME NEW x \in States(WW), Below(x), NEW i, Ready(i), i.op \in {"seb", "seh"}
    PROVE  execSpecial3_64(Widen(x), i) = Widen(execSpecial3(x, i))
<1> DEFINE y == Widen(x)
           b == x.gpr[i.rt]
<1>1. i.rd \in Registers /\ b \in Unsigned(WW) /\ b \in Int /\ y.gpr[i.rt] = W(b) /\ W(b) \in Int
  BY WideReads
<1>2. ASSUME NEW n \in {ByteBits, HW}
      PROVE  S(W(b), n) = S(b, n)
  <2>1. n \in 0 .. WW
    BY Widths
  <2>2. U(W(b), n) = U(b, n)
    BY <2>1, <1>1, WideLow
  <2> QED  BY <2>2 DEF S
<1> DEFINE v == IF i.op = "seb" THEN S(b, ByteBits) ELSE S(b, HW)
<1>3. execSpecial3(x, i) = Gpr(x, i.rd, v) /\ execSpecial3_64(y, i) = Gpr(y, i.rd, v)
  <2>1. CASE i.op = "seb"
    <3>1. execSpecial3(x, i) = Gpr(x, i.rd, S(b, ByteBits))
      BY <2>1 DEF execSpecial3
    <3>2. execSpecial3_64(y, i) = Gpr(y, i.rd, S(y.gpr[i.rt], ByteBits))
      BY <2>1 DEF execSpecial3_64
    <3> QED  BY <3>1, <3>2, <2>1, <1>1, <1>2
  <2>2. CASE i.op = "seh"
    <3>1. execSpecial3(x, i) = Gpr(x, i.rd, S(b, HW))
      BY <2>2 DEF execSpecial3
    <3>2. execSpecial3_64(y, i) = Gpr(y, i.rd, S(y.gpr[i.rt], HW))
      BY <2>2 DEF execSpecial3_64
    <3> QED  BY <3>1, <3>2, <2>2, <1>1, <1>2
  <2> QED  BY <2>1, <2>2
<1>4. v \in Int /\ -(2^(WW - 1)) <= v /\ v < 2^(WW - 1)
  BY <1>1, ByteRanges
<1> HIDE DEF v
<1>5. U(v, DW) = W(U(v, WW))
  BY <1>4, WideFit
<1>6. Gpr(Widen(x), i.rd, v) = Widen(Gpr(x, i.rd, v))
  BY <1>1, <1>4, <1>5, WideGpr
<1> QED  BY <1>3, <1>6

\* Widening keeps words apart and in order, and sums modulo a word.
LEMMA WideOrder ==
    ASSUME NEW a \in Unsigned(WW), NEW b \in Unsigned(WW)
    PROVE  /\ W(a) = W(b) <=> a = b
           /\ W(a) = 0 <=> a = 0
           /\ W(a) < W(b) <=> a < b
<1> DEFINE h == 2^(WW - 1)
           P == 2^WW
           Q == 2^DW
<1>1. h \in Nat /\ h >= 8 /\ P = 2 * h /\ P \in Nat /\ Q \in Nat /\ P < Q
  BY HalfWord
<1>2. /\ a \in Nat /\ a < P /\ W(a) = (IF a < h THEN a ELSE a - P + Q)
      /\ b \in Nat /\ b < P /\ W(b) = (IF b < h THEN b ELSE b - P + Q)
  BY Ext
<1> HIDE DEF h, P, Q
<1> QED  BY <1>1, <1>2

LEMMA WideCongruent ==
    ASSUME NEW a \in Unsigned(WW)
    PROVE  \E k \in Int : W(a) = a + k * 2^WW
<1> DEFINE P == 2^WW
           Q == 2^DW
<1>1. P \in Nat /\ Q = P * P /\ a \in Int /\ (W(a) = a \/ W(a) = a - P + Q)
  BY HalfWord, Ext
<1> HIDE DEF P, Q
<1>2. CASE W(a) = a
  <2>1. W(a) = a + 0 * P
    BY <1>1, <1>2
  <2> QED  BY <2>1 DEF P
<1>3. CASE W(a) = a - P + Q
  <2>1. W(a) = a + (P - 1) * P /\ P - 1 \in Int
    BY <1>1, <1>3
  <2> QED  BY <2>1 DEF P
<1> QED  BY <1>1, <1>2, <1>3

LEMMA WideSums ==
    ASSUME NEW a \in Unsigned(WW), NEW b \in Unsigned(WW), NEW c \in Int
    PROVE  /\ U(W(a) + W(b), WW) = U(a + b, WW) /\ U(W(a) - W(b), WW) = U(a - b, WW)
           /\ U(W(a) + c, WW) = U(a + c, WW)
<1> DEFINE P == 2^WW
<1>1. PICK j \in Int : W(a) = a + j * P
  BY WideCongruent
<1>2. PICK k \in Int : W(b) = b + k * P
  BY WideCongruent
<1>3. P \in Int /\ P > 0 /\ a \in Int /\ b \in Int
  BY Powers, WideWord
<1> HIDE DEF P
<1> DEFINE m == j + k
           n == j - k
           v == a + b
           u == a - b
           w == a + c
<1>4. m \in Int /\ n \in Int /\ v \in Int /\ u \in Int /\ w \in Int
  BY <1>3
<1>5. W(a) + W(b) = v + m * P /\ W(a) - W(b) = u + n * P /\ W(a) + c = w + j * P
  <2>1. (j + k) * P = j * P + k * P /\ (j - k) * P = j * P - k * P /\ j * P \in Int /\ k * P \in Int
    BY <1>3
  <2> QED  BY <2>1, <1>1, <1>2, <1>3
<1> HIDE DEF m, n, v, u, w
<1>6. (v + m * P) % P = v % P
  BY <1>3, <1>4, ModShift
<1>7. (u + n * P) % P = u % P
  BY <1>3, <1>4, ModShift
<1>8. (w + j * P) % P = w % P
  BY <1>3, <1>4, ModShift
<1> QED  BY <1>5, <1>6, <1>7, <1>8 DEF U, P, v, u, w

LEMMA WideBool ==
    ASSUME NEW b \in BOOLEAN
    PROVE  Bool(b) \in Int /\ U(Bool(b), DW) = W(U(Bool(b), WW))
<1>1. Bool(b) \in Int /\ -(2^(WW - 1)) <= Bool(b) /\ Bool(b) < 2^(WW - 1)
  BY HalfWord DEF Bool
<1> QED  BY <1>1, WideFit

LEMMA WideArith ==
    ASSUME NEW x \in States(WW), Below(x), NEW i, Ready(i),
           i.op \in {"addu", "subu", "and", "xor", "nor", "slt", "sltu", "movn", "movz", "teq"}
    PROVE  Arith_64(Widen(x), i) = Widen(Arith(x, i))
<1> DEFINE y == Widen(x)
           a == x.gpr[i.rs]
           b == x.gpr[i.rt]
           c == x.gpr[i.rd]
           r == i.rd
<1>1. r \in Registers /\ a \in Unsigned(WW) /\ b \in Unsigned(WW) /\ c \in Unsigned(WW)
      /\ a \in Int /\ b \in Int /\ c \in Int /\ W(a) \in Int /\ W(b) \in Int /\ W(c) \in Int
      /\ y.gpr[i.rs] = W(a) /\ y.gpr[i.rt] = W(b) /\ y.gpr[i.rd] = W(c)
  BY WideReads
<1>2. S(W(a), DW) = S(a, WW) /\ S(W(b), DW) = S(b, WW) /\ U(W(a), WW) = a /\ U(W(b), WW) = b
      /\ S(a, WW) \in Int /\ S(b, WW) \in Int
  BY <1>1, Ext, SInts
\* A word, a number that casts to it, and a truth value, as results.
<1>3. ASSUME NEW v \in Unsigned(WW), Arith(x, i) = Gpr(x, r, v), Arith_64(y, i) = Gpr(y, r, W(v))
      PROVE  Arith_64(y, i) = Widen(Arith(x, i))
  <2> HIDE DEF r
  <2>1. v \in Int /\ W(v) \in Int /\ U(W(v), DW) = W(U(v, WW))
    BY WideWord
  <2>2. Gpr(Widen(x), r, W(v)) = Widen(Gpr(x, r, v))
    BY <2>1, <1>1, WideGpr
  <2> QED  BY <2>2, <1>3
<1>4. ASSUME NEW v \in Int, NEW u \in Int, U(u, WW) = U(v, WW), Arith(x, i) = Gpr(x, r, v), Arith_64(y, i) = Gpr(y, r, u32toi64(u))
      PROVE  Arith_64(y, i) = Widen(Arith(x, i))
  <2> HIDE DEF r
  <2> DEFINE z == u32toi64(u)
  <2>1. z \in Int /\ U(z, DW) = W(U(v, WW))
    BY <1>4, ExtCast
  <2> HIDE DEF z
  <2>2. Gpr(Widen(x), r, z) = Widen(Gpr(x, r, v))
    BY <2>1, <1>1, WideGpr
  <2> QED  BY <2>2, <1>4 DEF z
<1>5. ASSUME NEW t0 \in BOOLEAN, Arith(x, i) = Gpr(x, r, Bool(t0)), Arith_64(y, i) = Gpr(y, r, Bool(t0))
      PROVE  Arith_64(y, i) = Widen(Arith(x, i))
  <2> HIDE DEF r
  <2> DEFINE z == Bool(t0)
  <2>1. z \in Int /\ U(z, DW) = W(U(z, WW))
    BY WideBool
  <2> HIDE DEF z
  <2>2. Gpr(Widen(x), r, z) = Widen(Gpr(x, r, z))
    BY <2>1, <1>1, WideGpr
  <2> QED  BY <2>2, <1>5 DEF z
<1> DEFINE Done == Arith_64(y, i) = Widen(Arith(x, i))
<1>6. ASSUME i.op = "addu" PROVE Done
  <2>1. Arith(x, i) = Gpr(x, r, a + b) /\ Arith_64(y, i) = Gpr(y, r, u32toi64(W(a) + W(b)))
    BY <1>1, <1>6 DEF Arith, Arith_64
  <2>2. U(W(a) + W(b), WW) = U(a + b, WW) /\ a + b \in Int /\ W(a) + W(b) \in Int
    BY <1>1, WideSums
  <2> QED  BY <2>1, <2>2, <1>4
<1>7. ASSUME i.op = "subu" PROVE Done
  <2>1. Arith(x, i) = Gpr(x, r, a - b) /\ Arith_64(y, i) = Gpr(y, r, u32toi64(W(a) - W(b)))
    BY <1>1, <1>7 DEF Arith, Arith_64
  <2>2. U(W(a) - W(b), WW) = U(a - b, WW) /\ a - b \in Int /\ W(a) - W(b) \in Int
    BY <1>1, WideSums
  <2> QED  BY <2>1, <2>2, <1>4
<1>8. ASSUME i.op = "and" PROVE Done
  <2>1. Arith(x, i) = Gpr(x, r, (a & b)) /\ Arith_64(y, i) = Gpr(y, r, (W(a) & W(b)))
    BY <1>1, <1>8 DEF Arith, Arith_64
  <2>2. (W(a) & W(b)) = W(a & b) /\ (a & b) \in Unsigned(WW)
    BY <1>1, WideAnd
  <2> QED  BY <2>1, <2>2, <1>3
<1>9. ASSUME i.op = "xor" PROVE Done
  <2>1. Arith(x, i) = Gpr(x, r, (a ^^ b)) /\ Arith_64(y, i) = Gpr(y, r, (W(a) ^^ W(b)))
    BY <1>1, <1>9 DEF Arith, Arith_64
  <2>2. (W(a) ^^ W(b)) = W(a ^^ b) /\ (a ^^ b) \in Unsigned(WW)
    BY <1>1, WideAnd
  <2> QED  BY <2>1, <2>2, <1>3
<1>10. ASSUME i.op = "nor" PROVE Done
  <2>1. Arith(x, i) = Gpr(x, r, Inv(a | b, WW)) /\ Arith_64(y, i) = Gpr(y, r, Inv(W(a) | W(b), DW))
    BY <1>1, <1>10 DEF Arith, Arith_64
  <2>2. (W(a) | W(b)) = W(a | b) /\ (a | b) \in Unsigned(WW)
    BY <1>1, WideAnd
  <2> DEFINE o == (a | b)
  <2>3. o \in Unsigned(WW)
    BY <2>2
  <2> HIDE DEF o
  <2>4. Inv(W(o), DW) = W(Inv(o, WW)) /\ Inv(o, WW) \in Unsigned(WW)
    BY <2>3, WideNor
  <2> QED  BY <2>1, <2>2, <2>4, <1>3 DEF o
<1>11. ASSUME i.op = "slt" PROVE Done
  <2>1. Arith(x, i) = Gpr(x, r, Bool(S(a, WW) < S(b, WW))) /\ Arith_64(y, i) = Gpr(y, r, Bool(S(W(a), DW) < S(W(b), DW)))
    BY <1>1, <1>11 DEF Arith, Arith_64
  <2>2. (S(a, WW) < S(b, WW)) \in BOOLEAN
    BY <1>2
  <2> QED  BY <2>1, <2>2, <1>2, <1>5
<1>12. ASSUME i.op = "sltu" PROVE Done
  <2>1. Arith(x, i) = Gpr(x, r, Bool(a < b)) /\ Arith_64(y, i) = Gpr(y, r, Bool(U(W(a), WW) < U(W(b), WW)))
    BY <1>1, <1>12 DEF Arith, Arith_64
  <2>2. (a < b) \in BOOLEAN
    BY <1>1
  <2> QED  BY <2>1, <2>2, <1>2, <1>5
<1>13. ASSUME i.op \in {"movn", "movz"} PROVE Done
  <2> DEFINE v == IF (b = 0) = (i.op = "movz") THEN a ELSE c
  <2>1. W(b) = 0 <=> b = 0
    BY <1>1, WideOrder
  <2>2. Arith(x, i) = Gpr(x, r, v)
    BY <1>13 DEF Arith
  <2>3. Arith_64(y, i) = Gpr(y, r, IF (W(b) = 0) = (i.op = "movz") THEN W(a) ELSE W(c))
    BY <1>1, <1>13 DEF Arith_64
  <2>4. v \in Unsigned(WW) /\ Arith_64(y, i) = Gpr(y, r, W(v))
    BY <2>1, <2>3, <1>1
  <2> HIDE DEF v
  <2> QED  BY <2>2, <2>4, <1>3
<1>14. ASSUME i.op = "teq" PROVE Done
  <2>1. W(a) = W(b) <=> a = b
    BY <1>1, WideOrder
  <2>2. Arith(x, i) = (IF a = b THEN Stop(x, "exit") ELSE Adv(x))
        /\ Arith_64(y, i) = (IF W(a) = W(b) THEN Stop(y, "exit") ELSE Adv(y))
    BY <1>1, <1>14 DEF Arith, Arith_64
  <2>3. Stop(y, "exit") = Widen(Stop(x, "exit"))
    BY WideStop
  <2>4. Adv(y) = Widen(Adv(x))
    <3>1. x.pc + 4 < 2^WW
      BY Reads, HalfWord DEF Below
    <3> QED  BY <3>1, WideAdv
  <2> QED  BY <2>1, <2>2, <2>3, <2>4
<1> QED  BY <1>6, <1>7, <1>8, <1>9, <1>10, <1>11, <1>12, <1>13, <1>14

LEMMA WideImmediate ==
    ASSUME NEW x \in States(WW), Below(x), NEW i, Ready(i),
           i.op \in {"slti", "sltiu", "andi", "ori", "xori", "lui"}
    PROVE  Immediate_64(Widen(x), i) = Widen(Immediate(x, i))
<1> DEFINE y == Widen(x)
           a == x.gpr[i.rs]
           r == i.rt
           m == i.imm
           simm == S(i.imm, HW)
<1>1. r \in Registers /\ a \in Unsigned(WW) /\ a \in Int /\ W(a) \in Int /\ y.gpr[i.rs] = W(a)
  BY WideReads
<1>2. S(W(a), DW) = S(a, WW) /\ S(a, WW) \in Int
  BY <1>1, Ext, SInts
<1>3. m \in Nat /\ m < 2^HW /\ m \in Int
  BY Fields DEF Ready
<1>4. m \in Unsigned(WW) /\ W(m) = m
  <2>1. m < 2^(WW - 1) /\ m < 2^WW
    BY <1>3, HalfWord
  <2>2. m \in Unsigned(WW)
    BY <1>3, <2>1, HalfWord DEF Unsigned
  <2> HIDE DEF m
  <2> QED  BY <2>1, <2>2, Ext
<1>5. simm \in Int /\ -(2^(WW - 1)) <= simm /\ simm < 2^(WW - 1)
  BY <1>3, ByteRanges
<1>6. ASSUME NEW v \in Unsigned(WW), Immediate(x, i) = Gpr(x, r, v), Immediate_64(y, i) = Gpr(y, r, W(v))
      PROVE  Immediate_64(y, i) = Widen(Immediate(x, i))
  <2> HIDE DEF r
  <2>1. v \in Int /\ W(v) \in Int /\ U(W(v), DW) = W(U(v, WW))
    BY WideWord
  <2>2. Gpr(Widen(x), r, W(v)) = Widen(Gpr(x, r, v))
    BY <2>1, <1>1, WideGpr
  <2> QED  BY <2>2, <1>6
<1>7. ASSUME NEW t0 \in BOOLEAN, Immediate(x, i) = Gpr(x, r, Bool(t0)), Immediate_64(y, i) = Gpr(y, r, Bool(t0))
      PROVE  Immediate_64(y, i) = Widen(Immediate(x, i))
  <2> HIDE DEF r
  <2> DEFINE z == Bool(t0)
  <2>1. z \in Int /\ U(z, DW) = W(U(z, WW))
    BY WideBool
  <2> HIDE DEF z
  <2>2. Gpr(Widen(x), r, z) = Widen(Gpr(x, r, z))
    BY <2>1, <1>1, WideGpr
  <2> QED  BY <2>2, <1>7 DEF z
<1>8. (W(a) & m) = W(a & m) /\ (a & m) \in Unsigned(WW)
      /\ (W(a) | m) = W(a | m) /\ (a | m) \in Unsigned(WW)
      /\ (W(a) ^^ m) = W(a ^^ m) /\ (a ^^ m) \in Unsigned(WW)
  <2> HIDE DEF m
  <2>1. /\ (W(a) & W(m)) = W(a & m) /\ (a & m) \in Unsigned(WW)
        /\ (W(a) | W(m)) = W(a | m) /\ (a | m) \in Unsigned(WW)
        /\ (W(a) ^^ W(m)) = W(a ^^ m) /\ (a ^^ m) \in Unsigned(WW)
    BY <1>1, <1>4, WideAnd
  <2> QED  BY <2>1, <1>4
<1> DEFINE Done == Immediate_64(y, i) = Widen(Immediate(x, i))
<1>9. ASSUME i.op = "andi" PROVE Done
  <2>1. Immediate(x, i) = Gpr(x, r, (a & m)) /\ Immediate_64(y, i) = Gpr(y, r, (W(a) & m))
    BY <1>1, <1>9 DEF Immediate, Immediate_64
  <2> QED  BY <2>1, <1>6, <1>8
<1>10. ASSUME i.op = "ori" PROVE Done
  <2>1. Immediate(x, i) = Gpr(x, r, (a | m)) /\ Immediate_64(y, i) = Gpr(y, r, (W(a) | m))
    BY <1>1, <1>10 DEF Immediate, Immediate_64
  <2> QED  BY <2>1, <1>6, <1>8
<1>11. ASSUME i.op = "xori" PROVE Done
  <2>1. Immediate(x, i) = Gpr(x, r, (a ^^ m)) /\ Immediate_64(y, i) = Gpr(y, r, (W(a) ^^ m))
    BY <1>1, <1>11 DEF Immediate, Immediate_64
  <2> QED  BY <2>1, <1>6, <1>8
<1>12. ASSUME i.op = "slti" PROVE Done
  <2>1. Immediate(x, i) = Gpr(x, r, Bool(S(a, WW) < simm)) /\ Immediate_64(y, i) = Gpr(y, r, Bool(S(W(a), DW) < simm))
    BY <1>1, <1>12 DEF Immediate, Immediate_64
  <2>2. (S(a, WW) < simm) \in BOOLEAN
    BY <1>2, <1>5
  <2> QED  BY <2>1, <2>2, <1>2, <1>7
<1>13. ASSUME i.op = "sltiu" PROVE Done
  <2>1. Immediate(x, i) = Gpr(x, r, Bool(a < U(simm, WW))) /\ Immediate_64(y, i) = Gpr(y, r, Bool(W(a) < U(simm, DW)))
    BY <1>1, <1>13 DEF Immediate, Immediate_64
  <2> HIDE DEF simm
  <2>2. U(simm, DW) = W(U(simm, WW)) /\ U(simm, WW) \in Unsigned(WW) /\ U(simm, WW) \in Int
    BY <1>5, WideFit, URanges
  <2> DEFINE b == U(simm, WW)
  <2>3. b \in Unsigned(WW) /\ b \in Int
    BY <2>2
  <2> HIDE DEF b
  <2>4. W(a) < W(b) <=> a < b
    BY <1>1, <2>3, WideOrder
  <2>5. (a < b) \in BOOLEAN /\ (W(a) < W(b)) \in BOOLEAN
    <3>1. W(b) \in Int
      BY <2>3, WideWord
    <3> QED  BY <3>1, <1>1, <2>3
  <2>6. (W(a) < W(b)) = (a < b)
    BY <2>4, <2>5
  <2>7. Immediate(x, i) = Gpr(x, r, Bool(a < b)) /\ Immediate_64(y, i) = Gpr(y, r, Bool(a < b))
    <3>1. Immediate_64(y, i) = Gpr(y, r, Bool(W(a) < W(b)))
      BY <2>1, <2>2 DEF b
    <3>2. Immediate(x, i) = Gpr(x, r, Bool(a < b))
      BY <2>1 DEF b
    <3> QED  BY <2>6, <3>1, <3>2
  <2> QED  BY <2>5, <2>7, <1>7
<1>14. ASSUME i.op = "lui" PROVE Done
  <2> DEFINE v == i.imm * 2^HW
             z == u32toi64(v)
  <2>1. Immediate(x, i) = Gpr(x, r, v) /\ Immediate_64(y, i) = Gpr(y, r, z)
    BY <1>14 DEF Immediate, Immediate_64
  <2>2. v \in Int
    BY <1>3, HalfWord
  <2> HIDE DEF v
  <2>3. z \in Int /\ U(z, DW) = W(U(v, WW))
    BY <2>2, ExtCast
  <2> HIDE DEF z, r
  <2>4. Gpr(Widen(x), r, z) = Widen(Gpr(x, r, v))
    BY <2>2, <2>3, <1>1, WideGpr
  <2> QED  BY <2>1, <2>4
<1> QED  BY <1>9, <1>10, <1>11, <1>12, <1>13, <1>14

\* The addresses of both interpreters.
LEMMA WideAddress ==
    ASSUME NEW x \in States(WW), NEW i, Ready(i)
    PROVE  /\ EA(Widen(x), i) = EA(x, i) /\ EA(x, i) \in Unsigned(WW) /\ EA(x, i) \in Nat
           /\ S(x.gpr[i.rs], WW) + S(i.imm, HW) >= 0 => generateEA(Widen(x), i) = EA(x, i)
<1> DEFINE a == x.gpr[i.rs]
           c == S(i.imm, HW)
           n == S(a, WW) + c
           P == 2^WW
           Q == 2^DW
           h == 2^(WW - 1)
<1>1. a \in Unsigned(WW) /\ a \in Int /\ Widen(x).gpr[i.rs] = W(a) /\ c \in Int /\ i.imm \in Int
  BY WideReads, Fields
<1>2. EA(Widen(x), i) = U(W(a) + c, WW) /\ EA(x, i) = U(a + c, WW) /\ generateEA(Widen(x), i) = U(W(a) + c, DW)
  BY <1>1 DEF EA, generateEA
<1>3. U(W(a) + c, WW) = U(a + c, WW) /\ U(a + c, WW) \in Unsigned(WW) /\ U(a + c, WW) \in Nat
  <2> HIDE DEF a, c
  <2>1. a + c \in Int
    BY <1>1
  <2> QED  BY <2>1, <1>1, WideSums, URanges
<1>4. ASSUME n >= 0 PROVE U(W(a) + c, DW) = U(a + c, WW)
  <2>1. c < h
    BY <1>1, ByteRanges
  <2>2. h \in Nat /\ P = 2 * h /\ P \in Nat /\ Q \in Nat /\ P < Q /\ P > 0
    BY HalfWord
  <2>3. /\ S(a, WW) = (IF a < h THEN a ELSE a - P)
        /\ W(a) = (IF a < h THEN a ELSE a - P + Q) /\ a \in Nat /\ a < P
    BY <1>1, Ext
  <2> DEFINE z == S(a, WW)
             u == a + c
             v == W(a) + c
  <2>4. z \in Int /\ 0 <= n /\ n < P /\ n \in Int /\ n = z + c
    <3>1. z \in Int /\ z < h
      BY <2>2, <2>3
    <3> HIDE DEF z, h, P
    <3> QED  BY <3>1, <2>1, <2>2, <1>1, <1>4 DEF z
  <2>5. (u = n \/ u = n + 1 * P) /\ (v = n \/ v = n + 1 * Q)
    <3> HIDE DEF P, Q, h, c
    <3> QED  BY <2>2, <2>3, <1>1
  <2> HIDE DEF n, P, Q, u, v
  <2>6. (n + 1 * P) % P = n % P /\ (n + 1 * Q) % Q = n % Q
    <3>1. n \in Int /\ P \in Int /\ P > 0 /\ Q \in Int /\ Q > 0
      BY <2>2, <2>4
    <3>2. ASSUME NEW k \in Int
          PROVE  (n + k * P) % P = n % P /\ (n + k * Q) % Q = n % Q
      BY <3>1, ModShift
    <3> QED  BY <3>2
  <2>7. n % P = n /\ n % Q = n
    <3>1. n < Q
      BY <2>2, <2>4
    <3> QED  BY <3>1, <2>2, <2>4, ModSmall
  <2>8. u % P = n /\ v % Q = n
    BY <2>5, <2>6, <2>7
  <2> QED  BY <2>8 DEF U, u, v, P, Q
<1> QED  BY <1>2, <1>3, <1>4

LEMMA WideLoads ==
    ASSUME NEW x \in States(WW), Below(x), NEW i, Ready(i), i.op \in LoadOps,
           S(x.gpr[i.rs], WW) + S(i.imm, HW) >= 0
    PROVE  LoadStore_64(Widen(x), i) = Widen(LoadStore(x, i))
<1> DEFINE y == Widen(x)
           a == EA(x, i)
           m == x.mem
           r == i.rt
<1>1. generateEA(y, i) = a /\ a \in Int /\ a < 2^WW
  <2>1. generateEA(y, i) = a /\ a \in Unsigned(WW) /\ a \in Nat
    BY WideAddress
  <2> QED  BY <2>1, USmall
<1>2. y.mem = m /\ m \in Memories /\ r \in Registers
  BY WideReads
<1>3. Load(m, a, 4) \in Int /\ Load(m, a, 2) \in Int /\ get(m, a, 1) \in Int
  <2> HIDE DEF a, m
  <2>1. \A k \in 0 .. 8 : Load(m, a, k) \in Nat /\ get(m, a, k) \in Nat
    BY <1>1, <1>2, LoadRange, GetRange
  <2> QED  BY <2>1
\* The value loaded, in 64 and in 32 bits.
<1>4. ASSUME NEW u \in Int, NEW v \in Int, U(u, DW) = W(U(v, WW)),
             LoadStore_64(y, i) = Bounded(y, a, Gpr(y, r, u)), LoadStore(x, i) = Gpr(x, r, v)
      PROVE  LoadStore_64(y, i) = Widen(LoadStore(x, i))
  <2>1. LoadStore_64(y, i) = Gpr(y, r, u)
    BY <1>1, <1>4 DEF Bounded
  <2>2. Gpr(Widen(x), r, u) = Widen(Gpr(x, r, v))
    BY <1>2, <1>4, WideGpr
  <2> QED  BY <2>1, <2>2, <1>4
<1>5. ASSUME i.op = "lw" PROVE LoadStore_64(y, i) = Widen(LoadStore(x, i))
  <2> DEFINE v == Load(m, a, 4)
             u == S(v, WW)
  <2>1. LoadStore(x, i) = Gpr(x, r, v)
    BY <1>5 DEF LoadStore, _lw
  <2>2. LoadStore_64(y, i) = Bounded(y, a, Gpr(y, r, u))
    BY <1>1, <1>2, <1>5 DEF LoadStore_64, _lw_64
  <2>3. v \in Int
    BY <1>3
  <2> HIDE DEF v
  <2>4. u \in Int /\ U(u, DW) = W(U(v, WW))
    BY <2>3, SInts, ExtCast DEF u32toi64, SExt
  <2> HIDE DEF u
  <2> QED  BY <1>4, <2>1, <2>2, <2>3, <2>4
<1>6. ASSUME i.op \in {"lh", "lb"} PROVE LoadStore_64(y, i) = Widen(LoadStore(x, i))
  <2> DEFINE v == IF i.op = "lh" THEN S(Load(m, a, 2), HW) ELSE S(get(m, a, 1), ByteBits)
  <2>1. LoadStore(x, i) = Gpr(x, r, v)
    BY <1>6 DEF LoadStore, _lh, _lb
  <2>2. LoadStore_64(y, i) = Bounded(y, a, Gpr(y, r, v))
    BY <1>1, <1>2, <1>6 DEF LoadStore_64, _lh_64, _lb_64
  <2>3. v \in Int /\ -(2^(WW - 1)) <= v /\ v < 2^(WW - 1)
    BY <1>3, ByteRanges
  <2> HIDE DEF v
  <2>4. U(v, DW) = W(U(v, WW))
    BY <2>3, WideFit
  <2> QED  BY <1>4, <2>1, <2>2, <2>3, <2>4
<1> QED  BY <1>5, <1>6 DEF LoadOps

\* The unaligned accesses find the same word at the same place.
LEMMA WidePlace ==
    ASSUME NEW x \in States(WW), NEW i, Ready(i)
    PROVE  /\ Aligned(Widen(x), i) = Aligned(x, i) /\ ma(Widen(x), i) = ma(x, i) /\ OldWord(Widen(x), i) = OldWord(x, i)
           /\ Aligned(x, i) \in Nat /\ ma(x, i) \in 0 .. 3 /\ OldWord(x, i) \in Int
<1>1. EA(Widen(x), i) = EA(x, i)
  BY WideAddress
<1>2. Aligned(Widen(x), i) = Aligned(x, i) /\ ma(Widen(x), i) = ma(x, i)
  BY <1>1 DEF Aligned, ma
<1>3. OldWord(Widen(x), i) = OldWord(x, i)
  BY <1>2, WideReads DEF OldWord
<1> QED  BY <1>2, <1>3, AddressRange

LEMMA WideStore ==
    ASSUME NEW x \in States(WW), Below(x), NEW a \in Nat, NEW k \in {1, 2, 4, 8}, NEW v \in Int
    PROVE  Mem(Widen(x), a, k, v) = Widen(Mem(x, a, k, v))
<1> DEFINE m == Store(x.mem, a, k, v)
<1>1. m \in Memories
  <2>1. x.mem \in Memories
    BY Reads
  <2> QED  BY <2>1, StoreRange
<1>2. Mem(x, a, k, v) = Adv([x EXCEPT !.mem = m])
  BY DEF Mem
<1>3. Mem(Widen(x), a, k, v) = Adv([Widen(x) EXCEPT !.mem = m])
  BY WidenIs DEF Mem
<1> HIDE DEF m
<1> QED  BY <1>1, <1>2, <1>3, WideMem

LEMMA WideStores ==
    ASSUME NEW x \in States(WW), Below(x), NEW i, Ready(i), i.op \in {"sb", "sh"}
    PROVE  LoadStore_64(Widen(x), i) = Widen(LoadStore(x, i))
<1> DEFINE y == Widen(x)
           a == EA(x, i)
           b == x.gpr[i.rt]
<1>1. b \in Unsigned(WW) /\ b \in Int /\ y.gpr[i.rt] = W(b) /\ y.mem = x.mem /\ x.mem \in Memories
  BY WideReads
<1>2. EA(y, i) = a /\ a \in Nat
  BY WideAddress
<1>3. U(W(b), ByteBits) = U(b, ByteBits) /\ U(W(b), 2 * ByteBits) = U(b, 2 * ByteBits)
  <2>1. ByteBits \in 0 .. WW /\ 2 * ByteBits \in 0 .. WW
    BY Widths
  <2>2. \A n \in 0 .. WW : U(W(b), n) = U(b, n)
    BY <1>1, WideLow
  <2> QED  BY <2>1, <2>2
<1>4. CASE i.op = "sh"
  <2>1. LoadStore(x, i) = Mem(x, a, 2, b) /\ LoadStore_64(y, i) = Mem(y, a, 2, W(b))
    BY <1>1, <1>2, <1>4 DEF LoadStore, LoadStore_64, _sh, _sh_64
  <2>2. Mem(y, a, 2, W(b)) = Mem(y, a, 2, b)
    BY <1>3 DEF Mem, Store
  <2>3. Mem(y, a, 2, b) = Widen(Mem(x, a, 2, b))
    BY <1>1, <1>2, WideStore
  <2> QED  BY <2>1, <2>2, <2>3
<1>5. CASE i.op = "sb"
  <2> DEFINE m == set(x.mem, a, 1, U(b, ByteBits))
  <2>1. LoadStore(x, i) = Adv([x EXCEPT !.mem = m])
    BY <1>5 DEF LoadStore, _sb
  <2>2. LoadStore_64(y, i) = Adv([y EXCEPT !.mem = m])
    BY <1>1, <1>2, <1>3, <1>5 DEF LoadStore_64, _sb_64
  <2>3. m \in Memories
    <3>1. U(b, ByteBits) \in Int /\ 1 \in 0 .. 8
      BY <1>1, URanges DEF Unsigned
    <3> QED  BY <3>1, <1>1, <1>2, SetRange
  <2> HIDE DEF m
  <2> QED  BY <2>1, <2>2, <2>3, WideMem
<1> QED  BY <1>4, <1>5

LEMMA WideUnaligned ==
    ASSUME NEW x \in States(WW), Below(x), NEW i, Ready(i), i.op \in {"lwl", "swl", "swr"}
    PROVE  LoadStore_64(Widen(x), i) = Widen(LoadStore(x, i))
<1> DEFINE y == Widen(x)
           b == x.gpr[i.rt]
           k == ma(x, i)
           old == OldWord(x, i)
           a == Aligned(x, i)
<1>1. b \in Unsigned(WW) /\ b \in Int /\ y.gpr[i.rt] = W(b) /\ W(b) \in Int /\ i.rt \in Registers /\ i.u \in {0, 1}
  BY WideReads, Fields
<1>2. Aligned(y, i) = a /\ ma(y, i) = k /\ OldWord(y, i) = old /\ a \in Nat /\ k \in 0 .. 3 /\ old \in Int
  BY WidePlace
<1>3. U(W(b), WW) = b
  BY <1>1, Ext
<1>4. k \in 0 .. 4 /\ 3 - k \in 0 .. 4 /\ 4 - k \in 0 .. 4
  BY <1>2
<1>5. \A j \in 0 .. 4 : /\ Low(j) \in Int /\ 2^(ByteBits * j) \in Nat /\ 2^(ByteBits * j) >= 1
                        /\ Shl1(ByteBits * j, i.u) - 1 \in Int
  BY <1>1, LowRange
<1> HIDE DEF k, old, a, b
<1>6. CASE i.op = "lwl"
  <2> DEFINE e == 2^(ByteBits * k)
             v == U(old * e, WW) | (b & Low(k))
             u == u32toi64(v)
  <2>1. LoadStore(x, i) = Gpr(x, i.rt, v)
    BY <1>6 DEF LoadStore, _lwl, k, old, b
  <2>2. LoadStore_64(y, i) = Gpr(y, i.rt, u)
    <3>1. LoadStore_64(y, i) = Gpr(y, i.rt, u32toi64(U(OldWord(y, i) * 2^(ByteBits * ma(y, i)), WW)
                                                       | (U(y.gpr[i.rt], WW) & Low(ma(y, i)))))
      BY <1>6 DEF LoadStore_64, _lwl_64
    <3> QED  BY <3>1, <1>1, <1>2, <1>3
  <2>3. v \in Int
    <3>1. e \in Int /\ Low(k) \in Int
      BY <1>4, <1>5
    <3> HIDE DEF e
    <3>2. old * e \in Int
      BY <3>1, <1>2
    <3>3. U(old * e, WW) \in Int
      BY <3>2, URanges
    <3>4. (b & Low(k)) \in Int
      BY <3>1, <1>1, BitwiseInt
    <3> QED  BY <3>3, <3>4, BitwiseInt
  <2> HIDE DEF v
  <2>4. u \in Int /\ U(u, DW) = W(U(v, WW))
    BY <2>3, ExtCast
  <2> HIDE DEF u
  <2>5. Gpr(Widen(x), i.rt, u) = Widen(Gpr(x, i.rt, v))
    BY <2>3, <2>4, <1>1, WideGpr
  <2> QED  BY <2>1, <2>2, <2>5
<1>7. CASE i.op = "swl"
  <2> DEFINE c == Inv(Shl1(ByteBits * (4 - k), i.u) - 1, WW)
             d == b \div 2^(ByteBits * k)
             v == (old & c) | d
  <2>1. LoadStore(x, i) = Mem(x, a, 4, v)
    BY <1>7 DEF LoadStore, _swl, k, old, b, a
  <2>2. LoadStore_64(y, i) = Mem(y, a, 4, v)
    <3>1. LoadStore_64(y, i) = Mem(y, Aligned(y, i), 4,
                                   (OldWord(y, i) & Inv(Shl1(ByteBits * (4 - ma(y, i)), i.u) - 1, WW))
                                   | (U(y.gpr[i.rt], WW) \div 2^(ByteBits * ma(y, i))))
      BY <1>7 DEF LoadStore_64, _swl_64
    <3> QED  BY <3>1, <1>1, <1>2, <1>3
  <2>3. v \in Int
    <3>1. c \in Int /\ d \in Int
      BY <1>1, <1>4, <1>5, InvInt, DivMod
    <3> HIDE DEF c, d
    <3>2. (old & c) \in Int
      BY <3>1, <1>2, BitwiseInt
    <3> QED  BY <3>1, <3>2, BitwiseInt
  <2> HIDE DEF v
  <2>4. Mem(Widen(x), a, 4, v) = Widen(Mem(x, a, 4, v))
    BY <2>3, <1>2, WideStore
  <2> QED  BY <2>1, <2>2, <2>4
<1>8. CASE i.op = "swr"
  <2> DEFINE e == 2^(ByteBits * (3 - k))
             v == U(b * e, WW) | (Low(3 - k) & old)
  <2>1. LoadStore(x, i) = Mem(x, a, 4, v)
    BY <1>8 DEF LoadStore, _swr, k, old, b, a
  <2>2. LoadStore_64(y, i) = Mem(y, a, 4, U(W(b) * e, WW) | (Low(3 - k) & old))
    <3>1. LoadStore_64(y, i) = Mem(y, Aligned(y, i), 4,
                                   U(y.gpr[i.rt] * 2^(ByteBits * (3 - ma(y, i))), WW) | (Low(3 - ma(y, i)) & OldWord(y, i)))
      BY <1>8 DEF LoadStore_64, _swr_64
    <3> QED  BY <3>1, <1>1, <1>2
  <2>3. e \in Int /\ Low(3 - k) \in Int
    BY <1>4, <1>5
  <2>4. U(W(b) * e, WW) = U(b * e, WW)
    <3> DEFINE P == 2^WW
    <3>1. PICK j \in Int : W(b) = b + j * P
      BY <1>1, WideCongruent
    <3>2. P \in Int /\ P > 0
      BY Powers
    <3> HIDE DEF P, e
    <3> DEFINE n == b * e
               q == j * e
    <3>3. W(b) * e = n + q * P /\ n \in Int /\ q \in Int
      <4>1. (b + j * P) * e = b * e + (j * e) * P /\ b * e \in Int /\ j * e \in Int
        BY <1>1, <2>3, <3>2
      <4> QED  BY <4>1, <3>1
    <3> HIDE DEF n, q
    <3>4. (n + q * P) % P = n % P
      BY <3>2, <3>3, ModShift
    <3> QED  BY <3>3, <3>4 DEF U, P, n
  <2>5. v \in Int
    <3> HIDE DEF e
    <3>1. b * e \in Int
      BY <1>1, <2>3
    <3>2. U(b * e, WW) \in Int /\ (Low(3 - k) & old) \in Int
      BY <3>1, <2>3, <1>2, URanges, BitwiseInt
    <3> QED  BY <3>2, BitwiseInt
  <2>6. LoadStore_64(y, i) = Mem(y, a, 4, v)
    BY <2>2, <2>4
  <2> HIDE DEF v
  <2>7. Mem(Widen(x), a, 4, v) = Widen(Mem(x, a, 4, v))
    BY <2>5, <1>2, WideStore
  <2> QED  BY <2>1, <2>6, <2>7
<1> QED  BY <1>6, <1>7, <1>8

LEMMA WideMtc1 ==
    ASSUME NEW x \in States(WW), Below(x), NEW i, Ready(i), i.op = "mtc1"
    PROVE  execCoproc1_64(Widen(x), i) = Widen(execCoproc1(x, i))
<1> DEFINE y == Widen(x)
           b == x.gpr[i.rt]
           x1 == [x EXCEPT !.cpr1[i.rd] = b]
<1>1. b \in Unsigned(WW) /\ y.gpr[i.rt] = W(b) /\ i.rd \in Registers /\ U(W(b), WW) = b
  <2>1. b \in Unsigned(WW) /\ y.gpr[i.rt] = W(b) /\ i.rd \in Registers
    BY WideReads
  <2> QED  BY <2>1, Ext
<1>2. execCoproc1(x, i) = Adv(x1)
  BY DEF execCoproc1, _mtc1, FpOps
<1>3. execCoproc1_64(y, i) = Adv([y EXCEPT !.cpr1[i.rd] = b])
  BY <1>1 DEF execCoproc1_64, _mtc1_64, FpOps
<1> HIDE DEF b
<1>4. [Widen(x) EXCEPT !.cpr1[i.rd] = b] = Widen(x1) /\ x1 \in States(WW) /\ x1.pc = x.pc
  BY <1>1, WideSetCpr1
<1>5. x.pc + 4 < 2^WW
  BY Reads, HalfWord DEF Below
<1> HIDE DEF x1
<1>6. Adv(Widen(x1)) = Widen(Adv(x1))
  BY <1>4, <1>5, WideAdv
<1> QED  BY <1>2, <1>3, <1>4, <1>6

\* The link of jal and jalr.
LEMMA WideLink ==
    ASSUME NEW x \in States(WW), Below(x), NEW b \in BOOLEAN, b => x.pc + 8 < 2^(WW - 1)
    PROVE  LET z == IF b THEN [x EXCEPT !.gpr[R_ra] = U(x.pc + 8, WW)] ELSE x
           IN  /\ (IF b THEN [Widen(x) EXCEPT !.gpr[R_ra] = U(x.pc + 8, DW)] ELSE Widen(x)) = Widen(z)
               /\ z \in States(WW) /\ Below(z)
<1> DEFINE p == x.pc + 8
           v == U(p, WW)
           x1 == [x EXCEPT !.gpr[R_ra] = v]
<1>1. CASE b
  <2>1. p \in Int /\ -(2^(WW - 1)) <= p /\ p < 2^(WW - 1) /\ R_ra \in Registers
    <3>1. x.pc \in Nat
      BY Reads, Unsigneds
    <3> QED  BY <1>1, <3>1, HalfWord DEF R_ra, Registers
  <2> HIDE DEF p
  <2>2. U(p, DW) = W(v) /\ v \in Unsigned(WW)
    BY <2>1, WideFit, URanges
  <2> HIDE DEF v
  <2>3. [Widen(x) EXCEPT !.gpr[R_ra] = W(v)] = Widen(x1) /\ x1 \in States(WW) /\ x1.pc = x.pc
    BY <2>1, <2>2, WideSetGpr
  <2> QED  BY <1>1, <2>2, <2>3 DEF Below, p, v
<1>2. CASE ~b
  BY <1>2
<1> QED  BY <1>1, <1>2

LEMMA WideJumps ==
    ASSUME NEW x \in States(WW), Below(x), NEW i, Ready(i), i.op \in LinkOps => x.pc + 8 < 2^(WW - 1)
    PROVE  /\ JType_64(Widen(x), i) = Widen(JType(x, i))
           /\ JumpRegister_64(Widen(x), i) = Widen(JumpRegister(x, i))
<1> DEFINE y == Widen(x)
           Link(b) == IF b THEN [x EXCEPT !.gpr[R_ra] = U(x.pc + 8, WW)] ELSE x
           Link64(b) == IF b THEN [y EXCEPT !.gpr[R_ra] = U(x.pc + 8, DW)] ELSE y
           npc == U(x.pc + 4, WW)
           far == U(i.tgt * 4, JumpBits) | (npc - (npc % 2^JumpBits))
           near == U(x.gpr[i.rs], WW)
           taken == TRUE
<1>1. y.pc = x.pc /\ x.w = WW /\ U(y.gpr[i.rs], WW) = near
  <2>1. y.gpr[i.rs] = W(x.gpr[i.rs]) /\ x.gpr[i.rs] \in Unsigned(WW)
    BY WideReads
  <2> QED  BY <2>1, WideReads, Ext, USmall
<1>2. /\ JType(x, i) = Slot(Link(i.op = "jal"), taken, far, 0)
      /\ JumpRegister(x, i) = Slot(Link(i.op = "jalr"), taken, near, 0)
  BY <1>1 DEF JType, JumpRegister
<1>3. /\ JType_64(y, i) = Slot(Link64(i.op = "jal"), taken, far, 0)
      /\ JumpRegister_64(y, i) = Slot(Link64(i.op = "jalr"), taken, near, 0)
  BY <1>1 DEF JType_64, JumpRegister_64
<1> HIDE DEF far, near, taken
<1>4. ASSUME NEW b \in BOOLEAN, b => x.pc + 8 < 2^(WW - 1), NEW target
      PROVE  Slot(Link64(b), taken, target, 0) = Widen(Slot(Link(b), taken, target, 0))
  <2>1. Link64(b) = Widen(Link(b)) /\ Link(b) \in States(WW) /\ Below(Link(b))
    BY <1>4, WideLink
  <2> DEFINE z == Link(b)
  <2>2. z \in States(WW) /\ Below(z) /\ Link64(b) = Widen(z)
    BY <2>1
  <2> HIDE DEF z, Link64
  <2>3. Slot(Widen(z), taken, target, 0) = Widen(Slot(z, taken, target, 0))
    BY <2>2, WideSlot
  <2> QED  BY <2>2, <2>3 DEF z
<1> HIDE DEF Link, Link64
<1>5. /\ (i.op = "jal") \in BOOLEAN /\ (i.op = "jalr") \in BOOLEAN
      /\ i.op = "jal" \/ i.op = "jalr" => x.pc + 8 < 2^(WW - 1)
  BY DEF LinkOps
<1>6. Slot(Link64(i.op = "jal"), taken, far, 0) = Widen(Slot(Link(i.op = "jal"), taken, far, 0))
  BY <1>4, <1>5
<1>7. Slot(Link64(i.op = "jalr"), taken, near, 0) = Widen(Slot(Link(i.op = "jalr"), taken, near, 0))
  BY <1>4, <1>5
<1> QED  BY <1>2, <1>3, <1>6, <1>7

\* Both interpreters decide a branch alike.
LEMMA WideTaken ==
    ASSUME NEW x \in States(WW), NEW i, Ready(i)
    PROVE  takeBranch(Widen(x), i) = takeBranch(x, i)
<1> DEFINE y == Widen(x)
           a == x.gpr[i.rs]
           b == x.gpr[i.rt]
<1>1. a \in Unsigned(WW) /\ b \in Unsigned(WW) /\ y.gpr[i.rs] = W(a) /\ y.gpr[i.rt] = W(b) /\ y.fcr = x.fcr
      /\ x.w = WW /\ y.w = DW
  BY WideReads
<1>2. S(W(a), DW) = S(a, WW) /\ (W(b) = W(a) <=> b = a)
  <2>1. W(b) = W(a) <=> b = a
    BY <1>1, WideOrder
  <2> QED  BY <2>1, <1>1, Ext
<1>3. \A cc : getConditionCode(y, cc) = getConditionCode(x, cc)
  BY <1>1 DEF getConditionCode
<1>4. S(y.gpr[i.rs], y.w) = S(x.gpr[i.rs], x.w)
  BY <1>1, <1>2
<1>5. (y.gpr[i.rt] = y.gpr[i.rs]) = (x.gpr[i.rt] = x.gpr[i.rs])
  BY <1>1, <1>2
<1>6. (y.gpr[i.rt] # y.gpr[i.rs]) = (x.gpr[i.rt] # x.gpr[i.rs])
  BY <1>1, <1>2
<1> HIDE DEF y, a, b
<1>7. takeBranch(y, i) = takeBranch(x, i)
  BY <1>3, <1>4, <1>5, <1>6 DEF takeBranch
<1> QED  BY <1>7 DEF y

LEMMA WideBranch ==
    ASSUME NEW x \in States(WW), Below(x), NEW i, Ready(i), i.op # "bgezal"
    PROVE  branch_64(Widen(x), i) = Widen(branch(x, i))
<1> DEFINE y == Widen(x)
           taken == takeBranch(x, i)
           target == U(S(i.imm, HW) * 4 + U(x.pc + 4, WW), WW)
<1>1. takeBranch(y, i) = taken /\ y.pc = x.pc
  BY WideTaken, WidenIs
<1>2. branch(x, i) = IF i.op \in Likely /\ ~taken THEN Adv(Adv(x)) ELSE Slot(x, taken, target, 0)
  BY DEF branch
<1>3. branch_64(y, i) = IF i.op \in Likely /\ ~taken THEN Adv(Adv(y)) ELSE Slot(y, taken, target, 0)
  BY <1>1 DEF branch_64
<1>4. Adv(Adv(y)) = Widen(Adv(Adv(x)))
  <2>1. x.pc \in Nat
    BY Reads, Unsigneds
  <2>2. x.pc + 4 < 2^WW
    BY <2>1, HalfWord DEF Below
  <2> DEFINE z == Adv(x)
  <2>3. Adv(y) = Widen(z) /\ z \in States(WW) /\ z.pc = x.pc + 4
    BY <2>2, WideAdv
  <2> HIDE DEF z
  <2>4. z.pc + 4 < 2^WW
    BY <2>1, <2>3, HalfWord DEF Below
  <2>5. Adv(Widen(z)) = Widen(Adv(z))
    BY <2>3, <2>4, WideAdv
  <2> QED  BY <2>3, <2>5 DEF z
<1> HIDE DEF taken, target
<1>5. Slot(y, taken, target, 0) = Widen(Slot(x, taken, target, 0))
  BY WideSlot
<1> QED  BY <1>2, <1>3, <1>4, <1>5

-----------------------------------------------------------------------------
(* The 64-bit interpreter never links after a slot.                        *)

LEMMA EntersLinkless ==
    ASSUME NEW w \in {WW, DW}, NEW x \in States(w), Linkless(x), NEW y, NEW taken \in BOOLEAN, NEW target,
           Entered(x, y, taken, target, 0)
    PROVE  Linkless(y)
<1> DEFINE f == [taken |-> taken, target |-> target, link |-> 0]
           fr == x.frames
<1>1. fr \in Seq(Frames) /\ y.frames = <<f>> \o fr
  BY DEF States, Entered
<1>2. f.link = 0
  OBVIOUS
<1>3. \A k \in 1 .. Len(fr) : fr[k].link = 0
  BY DEF Linkless
<1> HIDE DEF f, fr
<1>4. Len(fr) \in Nat
  BY <1>1
<1>5. Len(<<f>> \o fr) = 1 + Len(fr)
  BY <1>1
<1>6. ASSUME NEW k \in 1 .. Len(<<f>> \o fr)
      PROVE  (<<f>> \o fr)[k].link = 0
  <2>1. CASE k = 1
    <3>1. (<<f>> \o fr)[1] = f
      BY <1>1, <1>4
    <3> QED  BY <2>1, <3>1, <1>2
  <2>2. CASE k # 1
    <3>1. k - 1 \in 1 .. Len(fr) /\ (<<f>> \o fr)[k] = fr[k - 1]
      BY <2>2, <1>1, <1>4, <1>5
    <3> QED  BY <3>1, <1>3
  <2> QED  BY <2>1, <2>2
<1> QED  BY <1>1, <1>6 DEF Linkless

LEMMA HandlerLinkless ==
    ASSUME FpuTotal, NEW x \in States(DW), x.st = "run", Linkless(x), NEW i, Ready(i)
    PROVE  Linkless(Handler_64(x, i))
<1> DEFINE y == Handler_64(x, i)
<1>1. ASSUME NEW taken \in BOOLEAN, NEW target, Entered(x, y, taken, target, 0)
      PROVE  Linkless(y)
  <2> HIDE DEF y
  <2> QED  BY <1>1, EntersLinkless
<1>2. y.frames = x.frames => Linkless(y)
  BY DEF Linkless
<1>3. i.op \in BranchOps => y = branch_64(x, i)
  BY OneGroup DEF Handler_64
<1>4. Outcome(x, y, i)
  BY Outcomes64
<1> HIDE DEF y
<1>5. ASSUME i.op \in BranchOps
      PROVE  Linkless(y)
  <2>1. \/ Skipped(x, y)
        \/ \E taken \in BOOLEAN : Entered(x, y, taken, BranchTarget(x, i), 0)
    BY <1>3, <1>5, BranchIs64
  <2>2. ASSUME Skipped(x, y)
        PROVE  Linkless(y)
    BY <2>2, <1>2 DEF Skipped
  <2>3. ASSUME NEW taken \in BOOLEAN, Entered(x, y, taken, BranchTarget(x, i), 0)
        PROVE  Linkless(y)
    BY <2>3, <1>1
  <2> QED  BY <2>1, <2>2, <2>3
<1>6. ASSUME i.op \notin BranchOps
      PROVE  Linkless(y)
  <2>1. i.op \notin Likely
    BY <1>6 DEF BranchOps
  <2> DEFINE taken == TRUE
  <2>2. \/ y.frames = x.frames
        \/ Entered(x, y, taken, FarTarget(x, i), 0)
        \/ Entered(x, y, taken, U(x.gpr[i.rs], WW), 0)
    BY <1>4, <2>1, <1>6 DEF Outcome, Straight, Returned, SameControl
  <2>3. taken \in BOOLEAN
    OBVIOUS
  <2> HIDE DEF taken
  <2> QED  BY <2>2, <2>3, <1>1, <1>2
<1>7. Linkless(y)
  BY <1>5, <1>6
<1> QED  BY <1>7 DEF y

LEMMA ExecLinkless ==
    ASSUME NEW w \in {WW, DW}, NEW x, NEW y \in States(w), Linkless(y)
    PROVE  Linkless(execMips(x, y))
<1>1. CASE y.st = "run"
  <2>1. Return(y).frames = <<>>
    BY <1>1, ReturnIs
  <2>2. Linkless(Return(y))
    BY <2>1 DEF Linkless
  <2> QED  BY <2>2 DEF execMips
<1>2. CASE y.st # "run"
  <2>1. Return(y) = y
    BY <1>2, ReturnIs
  <2> QED  BY <2>1 DEF execMips
<1> QED  BY <1>1, <1>2

LInv == IInv /\ Linkless(t)

LEMMA InitLInv == Init => LInv
<1> SUFFICES ASSUME Init PROVE Linkless(t)
  BY InitIInv DEF LInv
<1>1. t.frames = <<>>
  BY DEF Init, Widen, initState, NewState
<1> QED  BY <1>1 DEF Linkless

LEMMA NextLInv ==
    ASSUME FpuTotal, LInv, [Next]_vars
    PROVE  LInv'
<1>1. IInv /\ IInv' /\ Linkless(t)
  BY NextIInv DEF LInv
<1>2. CASE UNCHANGED vars
  <2>1. t' = t
    BY <1>2 DEF vars
  <2>2. Linkless(t')
    BY <1>1, <2>1
  <2> QED  BY <1>1, <2>2 DEF LInv, Linkless
<1>3. CASE Next
  <2>1. PICK u \in Undefined(Fetch(s)), h \in Asked(Fetch(s)) : \E y : StepOf(u, h, y)
    BY <1>1, <1>3, StepIs
  <2> DEFINE e == [Fetch(t) EXCEPT !.u = u, !.h = h]
             c == Count(t)
             r == Handler_64(c, e)
  <2>2. t' = IF CanRun(t) THEN execMips(t, r) ELSE t
    BY <2>1 DEF StepOf
  <2>3. Ready(e)
    BY <1>1, HostIs, FetchReady DEF IInv
  <2>4. c \in States(DW) /\ c.st = t.st /\ c.frames = t.frames
    BY <1>1, CountIs DEF IInv
  <2>5. Linkless(c)
    BY <1>1, <2>4 DEF Linkless
  <2> HIDE DEF e, c
  <2>6. CanRun(t) => Linkless(execMips(t, r))
    <3>1. SUFFICES ASSUME t.st = "run" PROVE Linkless(execMips(t, r))
      BY DEF CanRun
    <3>2. Linkless(r) /\ Outcome(c, r, e)
      BY <3>1, <2>3, <2>4, <2>5, HandlerLinkless, Outcomes64
    <3> HIDE DEF r
    <3>3. r \in States(DW)
      BY <3>2, <1>1, ExecType DEF c, IInv
    <3> QED  BY <3>2, <3>3, ExecLinkless
  <2>7. Linkless(t')
    BY <2>2, <2>6, <1>1
  <2> QED  BY <1>1, <2>7 DEF LInv, Linkless
<1> QED  BY <1>2, <1>3

-----------------------------------------------------------------------------
LEMMA HandlersAgree ==
    ASSUME SizeDivides, NEW x \in States(WW), Below(x), NEW i, Ready(i), i.op \in WideOps,
           i.op \in LoadOps => S(x.gpr[i.rs], WW) + S(i.imm, HW) >= 0,
           i.op \in LinkOps => x.pc + 8 < 2^(WW - 1)
    PROVE  Handler_64(Widen(x), i) = Widen(Handler(x, i))
<1>1. CASE i.op \in {"sra", "srav", "movci"}
  <2>1. i.op \in ShiftOps
    BY <1>1 DEF ShiftOps
  <2>2. Handler_64(Widen(x), i) = Shifts_64(Widen(x), i) /\ Handler(x, i) = Shifts(x, i)
    BY <2>1, OneGroup DEF Handler, Handler_64
  <2> QED  BY <2>2, <1>1, WideShifts
<1>2. CASE i.op \in {"break", "sync"}
  <2>1. i.op \in BreakOps
    BY <1>2 DEF BreakOps
  <2>2. Handler_64(Widen(x), i) = MulDiv_64(Widen(x), i) /\ Handler(x, i) = Breaks(x, i)
    BY <2>1, OneGroup DEF Handler, Handler_64
  <2> QED  BY <2>2, <1>2, WideBreaks
<1>3. CASE i.op \in {"mfhi", "mthi", "mflo", "mtlo", "mult"}
  <2>1. i.op \in MulDivOps
    BY <1>3 DEF MulDivOps
  <2>2. Handler_64(Widen(x), i) = MulDiv_64(Widen(x), i) /\ Handler(x, i) = MulDiv(x, i)
    BY <2>1, OneGroup DEF Handler, Handler_64
  <2> QED  BY <2>2, <1>3, WideMulDiv
<1>4. CASE i.op \in {"addu", "subu", "and", "xor", "nor", "slt", "sltu", "movn", "movz", "teq"}
  <2>1. i.op \in ArithOps
    BY <1>4 DEF ArithOps
  <2>2. Handler_64(Widen(x), i) = Arith_64(Widen(x), i) /\ Handler(x, i) = Arith(x, i)
    BY <2>1, OneGroup DEF Handler, Handler_64
  <2> QED  BY <2>2, <1>4, WideArith
<1>5. CASE i.op \in {"madd", "mul", "msub", "clz"}
  <2>1. i.op \in Special2Ops
    BY <1>5 DEF Special2Ops
  <2>2. Handler_64(Widen(x), i) = execSpecial2_64(Widen(x), i) /\ Handler(x, i) = execSpecial2(x, i)
    BY <2>1, OneGroup DEF Handler, Handler_64
  <2> QED  BY <2>2, <1>5, WideSpecial2
<1>6. CASE i.op \in {"seb", "seh"}
  <2>1. i.op \in Special3Ops
    BY <1>6 DEF Special3Ops
  <2>2. Handler_64(Widen(x), i) = execSpecial3_64(Widen(x), i) /\ Handler(x, i) = execSpecial3(x, i)
    BY <2>1, OneGroup DEF Handler, Handler_64
  <2> QED  BY <2>2, <1>6, WideSpecial3
<1>7. CASE i.op \in {"slti", "sltiu", "andi", "ori", "xori", "lui"}
  <2>1. i.op \in ImmediateOps
    BY <1>7 DEF ImmediateOps
  <2>2. Handler_64(Widen(x), i) = Immediate_64(Widen(x), i) /\ Handler(x, i) = Immediate(x, i)
    BY <2>1, OneGroup DEF Handler, Handler_64
  <2> QED  BY <2>2, <1>7, WideImmediate
<1>8. CASE i.op \in {"lw", "lh", "lb", "lwl", "sb", "sh", "swl", "swr"}
  <2>1. i.op \in MemoryOps
    BY <1>8 DEF MemoryOps
  <2>2. Handler_64(Widen(x), i) = LoadStore_64(Widen(x), i) /\ Handler(x, i) = LoadStore(x, i)
    BY <2>1, OneGroup DEF Handler, Handler_64
  <2>3. CASE i.op \in LoadOps
    BY <2>2, <2>3, WideLoads
  <2>4. CASE i.op \in {"sb", "sh"}
    BY <2>2, <2>4, WideStores
  <2>5. CASE i.op \in {"lwl", "swl", "swr"}
    BY <2>2, <2>5, WideUnaligned
  <2> QED  BY <1>8, <2>3, <2>4, <2>5 DEF LoadOps
<1>9. CASE i.op = "mtc1"
  <2>1. i.op \in Coproc1Ops
    BY <1>9 DEF Coproc1Ops
  <2>2. Handler_64(Widen(x), i) = execCoproc1_64(Widen(x), i) /\ Handler(x, i) = execCoproc1(x, i)
    BY <2>1, OneGroup DEF Handler, Handler_64
  <2> QED  BY <2>2, <1>9, WideMtc1
<1>10. CASE i.op \in JumpOps
  <2>1. Handler_64(Widen(x), i) = JType_64(Widen(x), i) /\ Handler(x, i) = JType(x, i)
    BY <1>10, OneGroup DEF Handler, Handler_64
  <2> QED  BY <2>1, WideJumps
<1>11. CASE i.op \in RegJumpOps
  <2>1. Handler_64(Widen(x), i) = JumpRegister_64(Widen(x), i) /\ Handler(x, i) = JumpRegister(x, i)
    BY <1>11, OneGroup DEF Handler, Handler_64
  <2> QED  BY <2>1, WideJumps
<1>12. CASE i.op \in BranchOps \ {"bgezal"}
  <2>1. Handler_64(Widen(x), i) = branch_64(Widen(x), i) /\ Handler(x, i) = branch(x, i)
    BY <1>12, OneGroup DEF Handler, Handler_64
  <2> QED  BY <2>1, <1>12, WideBranch
<1> QED
  BY <1>1, <1>2, <1>3, <1>4, <1>5, <1>6, <1>7, <1>8, <1>9, <1>10, <1>11, <1>12 DEF WideOps, JumpOps, RegJumpOps

LEMMA WideCount ==
    ASSUME NEW x \in States(WW)
    PROVE  Count(Widen(x)) = Widen(Count(x))
<1> DEFINE y == Widen(x)
           c == Count(x)
<1>1. c \in States(WW) /\ c = [x EXCEPT !.icnt = @ + 1]
  BY CountIs DEF Count
<1> QED  BY <1>1 DEF Count, Widen, States

\* One call of execMips by either interpreter.
LEMMA CallsAgree ==
    ASSUME SizeDivides, FpuTotal, NEW x \in States(WW), x.st = "run", Linkless(Widen(x)), Below(x),
           NEW i, Ready(i), i.op \in WideOps,
           i.op \in LoadOps => S(x.gpr[i.rs], WW) + S(i.imm, HW) >= 0,
           i.op \in LinkOps => x.pc + 8 < 2^(WW - 1),
           Handler(Count(x), i) \in States(WW)
    PROVE  execMips(Widen(x), Handler_64(Count(Widen(x)), i)) = Widen(execMips(x, Handler(Count(x), i)))
<1> DEFINE c == Count(x)
           y == Handler(c, i)
<1>1. /\ c \in States(WW) /\ c.st = "run" /\ c.frames = x.frames /\ c.pc = x.pc /\ c.gpr = x.gpr
      /\ Count(Widen(x)) = Widen(c)
  BY CountIs, WideCount
<1> HIDE DEF c
<1>2. Handler_64(Widen(c), i) = Widen(y)
  <2>1. Below(c) /\ (i.op \in LoadOps => S(c.gpr[i.rs], WW) + S(i.imm, HW) >= 0)
        /\ (i.op \in LinkOps => c.pc + 8 < 2^(WW - 1))
    BY <1>1 DEF Below
  <2> QED  BY <1>1, <2>1, HandlersAgree
<1>3. Widen(c) \in States(DW) /\ Widen(c).st = "run" /\ Linkless(Widen(c))
  <2>1. Widen(c) \in States(DW) /\ Widen(c).st = c.st /\ Widen(c).frames = c.frames /\ Widen(x).frames = x.frames
    BY <1>1, WidenIs
  <2> QED  BY <1>1, <2>1 DEF Linkless
<1>4. Linkless(Handler_64(Widen(c), i))
  BY <1>3, HandlerLinkless
<1>5. y \in States(WW)
  BY DEF c
<1> HIDE DEF y
<1>6. Linkless(y)
  <2>1. Widen(y).frames = y.frames
    BY <1>5, WidenIs
  <2> QED  BY <1>2, <1>4, <2>1 DEF Linkless
<1>7. execMips(Widen(x), Widen(y)) = Widen(execMips(x, y))
  BY <1>5, <1>6, WideExec
<1> QED  BY <1>1, <1>2, <1>7 DEF y, c

LEMMA StepsAgree ==
    ASSUME SizeDivides, FpuTotal, LInv, Next, t = Widen(s), StaysWide(Fetch(s))
    PROVE  t' = Widen(s')
<1>1. s \in States(WW) /\ Loaded /\ Linkless(Widen(s)) /\ CanRun(s) /\ s.st = "run"
  BY StepIs DEF LInv, IInv
<1>2. PICK u \in Undefined(Fetch(s)), h \in Asked(Fetch(s)) : \E y : StepOf(u, h, y)
  BY StepIs DEF LInv
<1> DEFINE e == [Fetch(s) EXCEPT !.u = u, !.h = h]
           y == Handler(Count(s), e)
<1>3. Fetch(t) = Fetch(s) /\ CanRun(t)
  <2>1. t.pc = s.pc /\ t.st = s.st /\ t.frames = s.frames /\ t.icnt = s.icnt /\ t.brk = s.brk
    BY <1>1, WidenIs
  <2> QED  BY <1>1, <2>1 DEF Fetch, CanRun
<1>4. Ready(e) /\ Outcome(Count(s), y, e) /\ s' = execMips(s, y) /\ t' = execMips(t, Handler_64(Count(t), e))
  BY <1>2, <1>3 DEF StepOf
<1>5. e.op = Fetch(s).op /\ e.rs = Fetch(s).rs /\ e.imm = Fetch(s).imm
  <2>1. u \in {0, 1} /\ h \in Int /\ h <= Len(HostBytes)
    BY HostIs
  <2> QED  BY <1>1, <2>1, FetchReady
<1> HIDE DEF e
<1>6. /\ e.op \in WideOps
      /\ e.op \in LoadOps => S(s.gpr[e.rs], WW) + S(e.imm, HW) >= 0
      /\ s.pc + 8 < (IF e.op \in LinkOps THEN 2^(WW - 1) ELSE 2^WW)
  BY <1>5 DEF StaysWide
<1>7. Below(s) /\ (e.op \in LinkOps => s.pc + 8 < 2^(WW - 1))
  <2>1. s.pc \in Nat
    BY <1>1, Reads, Unsigneds
  <2> QED  BY <1>6, <2>1, HalfWord DEF Below
<1>8. y \in States(WW)
  <2> HIDE DEF y
  <2> QED  BY <1>1, <1>4, ExecType
<1>9. execMips(Widen(s), Handler_64(Count(Widen(s)), e)) = Widen(execMips(s, y))
  BY <1>1, <1>4, <1>6, <1>7, <1>8, CallsAgree
<1>10. t' = Widen(execMips(s, y))
  BY <1>4, <1>9
<1>11. Widen(execMips(s, y)) = Widen(s')
  BY <1>4
<1> QED  BY <1>10, <1>11

LEMMA LInvHolds == FpuTotal => (Spec => []LInv)
<1>1. ASSUME FpuTotal PROVE Init /\ [][Next]_vars => []LInv
  BY <1>1, InitLInv, NextLInv, PTL
<1> QED  BY <1>1 DEF Spec

\* On the instructions that keep registers sign-extended, the 64-bit interpreter
\* computes from the state of the 32-bit one, widened, what that one computes: for
\* every word size whose number of bits divides 2^WW, every byte order and every
\* operand.  The invariant it takes is that no frame of the 64-bit interpreter
\* links after its slot: branch_64 never does, the bgezal of interpret.cc does.
THEOREM InterpretersAgree == FpuTotal /\ SizeDivides => (Spec => Agree64)
<1>1. ASSUME FpuTotal, SizeDivides, LInv, [Next]_vars
      PROVE  [t = Widen(s) /\ StaysWide(Fetch(s)) => t' = Widen(s')]_vars
  BY <1>1, StepsAgree
<1>2. ASSUME FpuTotal, SizeDivides
      PROVE  Spec => [][t = Widen(s) /\ StaysWide(Fetch(s)) => t' = Widen(s')]_vars
  BY <1>1, <1>2, LInvHolds, PTL DEF Spec
<1> QED  BY <1>2 DEF Agree64

=============================================================================
