----------------------------- MODULE WireProofs ------------------------------
(***************************************************************************)
(* What the primitives and the streams of Wire compute, for every base and *)
(* every width: a write is undone by the read, and a read that succeeds by *)
(* the write.                                                              *)
(*                                                                         *)
(* The provers cannot instantiate an induction principle that takes a      *)
(* predicate.  Induction and Recursion below take a set and a function     *)
(* instead; they rest on the least element of a set of naturals.           *)
(***************************************************************************)
EXTENDS Wire, SequenceTheorems, WellFoundedInduction, TLAPS

------------------------------------------------------------------------------
(* Induction and recursion.                                                 *)

\* A set of natural numbers that is not empty has a least element.
LEMMA Least ==
  ASSUME NEW T \in SUBSET Nat, T # {}
  PROVE  \E x \in T : \A y \in T : ~(y < x)
  <1> DEFINE R == {ss \in Nat \X Nat : ss[1] < ss[2]}
  <1>1. IsWellFoundedOn(R, Nat)
    BY NatLessThanWellFounded DEF OpToRel
  <1>2. \A x, y \in Nat : <<x, y>> \in R <=> x < y
    OBVIOUS
  <1> HIDE DEF R
  <1>3. PICK x \in T : \A y \in T : ~(<<y, x>> \in R)
    BY <1>1, WFMin
  <1>4. QED
    BY <1>2, <1>3

\* A set that has 0 and, below m, the successor of each of its members has
\* everything up to m.
LEMMA Induction ==
  ASSUME NEW T, NEW m \in Nat, 0 \in T, \A n \in 0..(m - 1) : n \in T => n + 1 \in T
  PROVE  \A n \in 0..m : n \in T
  <1> DEFINE missing == {n \in 0..m : n \notin T}
  <1>1. SUFFICES ASSUME missing # {} PROVE FALSE
    OBVIOUS
  <1>2. missing \in SUBSET Nat
    OBVIOUS
  <1>3. PICK x \in missing : \A y \in missing : ~(y < x)
    BY <1>1, <1>2, Least
  <1>4. x \in 0..m /\ x \notin T /\ x # 0
    OBVIOUS
  <1>5. x - 1 \in 0..(m - 1) /\ x - 1 \notin missing /\ (x - 1) + 1 = x
    BY <1>3, <1>4
  <1>6. x - 1 \in T
    BY <1>4, <1>5
  <1>7. QED
    BY <1>4, <1>5, <1>6

\* F takes an index up to n and a value in S to the next value.
IsStep(F, n, S) == F \in [(1..n) \X S -> S]

\* g starts at b and follows F.
Follows(g, F, n, S, b) ==
  /\ g \in [0..n -> S] /\ g[0] = b
  /\ \A i \in 1..n : g[i] = F[<<i, g[i - 1]>>]

\* A step function over S defines a function by recursion.
LEMMA Recursion ==
  ASSUME NEW n \in Nat, NEW S, NEW b \in S, NEW F, IsStep(F, n, S)
  PROVE  \E g : Follows(g, F, n, S, b)
  <1> USE DEF IsStep
  <1> DEFINE Upto(g, k) == Follows(g, F, k, S, b)
             T == {k \in 0..n : \E g : Upto(g, k)}
  <1>1. 0 \in T
    <2> DEFINE g == [i \in 0..0 |-> b]
    <2>1. g \in [0..0 -> S] /\ g[0] = b
      OBVIOUS
    <2>2. \A i \in 1..0 : g[i] = F[<<i, g[i - 1]>>]
      OBVIOUS
    <2>3. Upto(g, 0)
      BY <2>1, <2>2 DEF Follows
    <2> HIDE DEF Upto, g
    <2>4. QED
      BY <2>3
  <1>2. ASSUME NEW k \in 0..(n - 1), k \in T
        PROVE  k + 1 \in T
    <2>1. PICK g : Upto(g, k)
      BY <1>2
    <2> DEFINE h == [i \in 0..(k + 1) |-> IF i = k + 1 THEN F[<<k + 1, g[k]>>] ELSE g[i]]
    <2>2. k \in Nat /\ k + 1 \in 1..n /\ k + 1 \in 0..n
      OBVIOUS
    <2>3. g[k] \in S
      BY <2>1, <2>2 DEF Follows
    <2>4. F[<<k + 1, g[k]>>] \in S
      BY <2>2, <2>3
    <2>5. h \in [0..(k + 1) -> S]
      BY <2>1, <2>2, <2>4 DEF Follows
    <2>6. h[0] = b
      BY <2>1, <2>2 DEF Follows
    <2>7. ASSUME NEW i \in 1..(k + 1)
          PROVE  h[i] = F[<<i, h[i - 1]>>]
      <3>1. CASE i = k + 1
        BY <2>2, <3>1
      <3>2. CASE i # k + 1
        <4>1. i \in 1..k /\ i - 1 \in 0..k /\ i \in 0..k
          BY <2>2, <3>2
        <4>2. h[i] = g[i] /\ h[i - 1] = g[i - 1]
          BY <2>2, <3>2, <4>1
        <4>3. QED
          BY <2>1, <4>1, <4>2 DEF Follows
      <3>3. QED
        BY <3>1, <3>2
    <2>8. Upto(h, k + 1)
      BY <2>5, <2>6, <2>7 DEF Follows
    <2> HIDE DEF Upto, h
    <2>9. QED
      BY <2>2, <2>8
  <1> HIDE DEF T
  <1>3. n \in T
    BY <1>1, <1>2, Induction
  <1>4. QED
    BY <1>3 DEF T

------------------------------------------------------------------------------
(* Powers of the base.                                                      *)

\* The recursive equation of pow has a solution, and pow is one.
LEMMA PowDef ==
  /\ pow \in [0..U64 -> Nat \ {0}] /\ pow[0] = 1
  /\ \A n \in 1..U64 : pow[n] = Base * pow[n - 1]
  <1> DEFINE F == [p \in (1..U64) \X (Nat \ {0}) |-> Base * p[2]]
             Eq(f) == f = [n \in 0..U64 |-> IF n = 0 THEN 1 ELSE Base * f[n - 1]]
  <1>1. U64 \in Nat /\ Base \in Nat \ {0}
    BY WidthAssumption
  <1>2. IsStep(F, U64, Nat \ {0})
    BY <1>1 DEF IsStep
  <1> HIDE DEF F
  <1>3. PICK g : Follows(g, F, U64, Nat \ {0}, 1)
    BY <1>1, <1>2, Recursion
  <1>4. g \in [0..U64 -> Nat \ {0}] /\ g[0] = 1 /\ \A i \in 1..U64 : g[i] = Base * g[i - 1]
    <2>1. \A i \in 1..U64 : <<i, g[i - 1]>> \in (1..U64) \X (Nat \ {0})
      BY <1>1, <1>3 DEF Follows
    <2>2. QED
      BY <1>3, <2>1 DEF F, Follows
  <1>5. Eq(g)
    BY <1>1, <1>4
  <1>6. Eq(pow)
    <2>1. pow = CHOOSE f : Eq(f)
      BY DEF pow
    <2> HIDE DEF Eq
    <2>2. QED
      BY <1>5, <2>1
  <1>7. pow[0] = 1 /\ \A i \in 1..U64 : pow[i] = Base * pow[i - 1]
    BY <1>1, <1>6
  <1>8. \A i \in 0..U64 : pow[i] \in Nat \ {0}
    <2> DEFINE T == {i \in 0..U64 : pow[i] \in Nat \ {0}}
    <2>1. 0 \in T
      BY <1>1, <1>7
    <2>2. ASSUME NEW n \in 0..(U64 - 1), n \in T PROVE n + 1 \in T
      <3>1. n + 1 \in 1..U64 /\ (n + 1) - 1 = n
        BY <1>1
      <3>2. pow[n + 1] = Base * pow[n]
        BY <1>7, <3>1
      <3>3. QED
        BY <1>1, <2>2, <3>1, <3>2
    <2> HIDE DEF T
    <2>3. \A n \in 0..U64 : n \in T
      BY <1>1, <2>1, <2>2, Induction
    <2>4. QED
      BY <2>3 DEF T
  <1>9. pow \in [0..U64 -> Nat \ {0}]
    BY <1>6, <1>8
  <1>10. QED
    BY <1>7, <1>9

\* A larger power is larger.
LEMMA PowMonotonic ==
  ASSUME NEW i \in 0..U64, NEW j \in 0..U64, i < j
  PROVE  pow[i] < pow[j]
  <1>0. U64 \in Nat /\ Base \in Nat /\ Base >= 4
    BY WidthAssumption
  <1> DEFINE T == {k \in 0..U64 : k > i => pow[i] < pow[k]}
  <1>1. 0 \in T
    BY <1>0
  <1>2. ASSUME NEW k \in 0..(U64 - 1), k \in T PROVE k + 1 \in T
    <2>1. k + 1 \in 1..U64 /\ (k + 1) - 1 = k /\ k \in 0..U64 /\ k + 1 \in 0..U64
      BY <1>0
    <2>2. pow[k + 1] = Base * pow[k] /\ pow[k] \in Nat /\ pow[k] # 0 /\ pow[i] \in Nat /\ pow[k + 1] \in Nat
      BY <2>1, PowDef
    <2>3. pow[k] < pow[k + 1]
      <3> DEFINE x == pow[k]
      <3>1. \A y \in Nat \ {0} : y < Base * y
        BY <1>0
      <3>2. QED
        BY <2>2, <3>1
    <2>4. CASE k > i
      <3>1. pow[i] < pow[k]
        BY <1>2, <2>4
      <3>2. pow[i] < pow[k + 1]
        BY <2>2, <2>3, <3>1
      <3>3. QED
        BY <2>1, <3>2
    <2>5. CASE ~(k > i)
      <3>1. k + 1 > i => k = i
        BY <2>1, <2>5
      <3>2. QED
        BY <2>1, <2>3, <3>1
    <2>6. QED
      BY <2>4, <2>5
  <1> HIDE DEF T
  <1>3. j \in T
    BY <1>0, <1>1, <1>2, Induction
  <1>4. QED
    BY <1>3 DEF T

\* The order of the widths and of the powers that the code compares with.
LEMMA Widths ==
  /\ Base \in Nat /\ Base >= 4 /\ Base - 1 \in Nat
  /\ U16 \in Nat /\ U32 \in Nat /\ U64 \in Nat
  /\ {0, 1, U16, U32, U64} \subseteq 0..U64 /\ 1 < U16 /\ U16 < U32 /\ U32 < U64
  /\ pow[0] = 1 /\ pow[1] = Base /\ \A w \in 0..U64 : pow[w] \in Nat \ {0}
  /\ Base < pow[U16] /\ pow[U16] < pow[U32] /\ pow[U32] < pow[U64]
  <1>1. /\ Base \in Nat /\ Base >= 4 /\ Base - 1 \in Nat
        /\ U16 \in Nat /\ U32 \in Nat /\ U64 \in Nat
        /\ {0, 1, U16, U32, U64} \subseteq 0..U64 /\ 1 < U16 /\ U16 < U32 /\ U32 < U64
    BY WidthAssumption
  <1>2. pow[0] = 1 /\ \A w \in 0..U64 : pow[w] \in Nat \ {0}
    BY PowDef
  <1>3. pow[1] = Base * pow[0]
    BY <1>1, PowDef
  <1>4. pow[1] < pow[U16] /\ pow[U16] < pow[U32] /\ pow[U32] < pow[U64]
    BY <1>1, PowMonotonic
  <1>5. QED
    BY <1>1, <1>2, <1>3, <1>4

------------------------------------------------------------------------------
(* Integers.                                                                *)

\* Quotient and remainder of a number given by its parts.
LEMMA DivMod ==
  ASSUME NEW q \in Nat, NEW d \in Nat \ {0}, NEW r \in 0..(d - 1)
  PROVE  (d * q + r) \div d = q /\ (d * q + r) % d = r
  OBVIOUS

\* Every number is its quotient times the divisor, plus its remainder.
LEMMA Quotient ==
  ASSUME NEW a \in Nat, NEW d \in Nat \ {0}
  PROVE  /\ a \div d \in Nat /\ a % d \in 0..(d - 1)
         /\ a = d * (a \div d) + (a % d)
  <1>1. a \div d \in Nat
    OBVIOUS
  <1>2. a % d \in 0..(d - 1)
    OBVIOUS
  <1>3. a = d * (a \div d) + (a % d)
    OBVIOUS
  <1>4. QED
    BY <1>1, <1>2, <1>3

\* To divide by a product is to divide twice.
LEMMA DivDiv ==
  ASSUME NEW a \in Nat, NEW d \in Nat \ {0}, NEW c \in Nat \ {0}
  PROVE  a \div (c * d) = (a \div d) \div c
  <1> DEFINE x == a \div d
             y == x \div c
             r == (x % c) * d + (a % d)
  <1>1. x \in Nat /\ a % d \in 0..(d - 1) /\ a = d * x + (a % d)
    BY Quotient
  <1> HIDE DEF x
  <1>2. y \in Nat /\ x % c \in 0..(c - 1) /\ x = c * y + (x % c)
    BY <1>1, Quotient
  <1> HIDE DEF y
  <1>3. \A u, v, k \in Nat : u <= k - 1 /\ v <= d - 1 => u * d + v <= k * d - 1
    <2>1. SUFFICES ASSUME NEW u \in Nat, NEW v \in Nat, NEW k \in Nat, u <= k - 1, v <= d - 1
                   PROVE  u * d + v <= k * d - 1
      OBVIOUS
    <2>2. u * d <= (k - 1) * d
      BY <2>1
    <2>3. QED
      BY <2>1, <2>2
  <1>4. c * d \in Nat \ {0} /\ r \in 0..(c * d - 1)
    BY <1>1, <1>2, <1>3
  <1>5. a = (c * d) * y + r
    <2> DEFINE z == x % c
    <2>1. z \in Nat /\ x = c * y + z /\ a = d * x + (a % d) /\ r = z * d + (a % d)
      BY <1>1, <1>2
    <2> HIDE DEF z, r
    <2>2. d * (c * y + z) = (c * d) * y + z * d
      BY <1>2, <2>1
    <2>3. QED
      BY <1>1, <1>2, <2>1, <2>2
  <1> HIDE DEF r
  <1>6. a \div (c * d) = y
    <2> DEFINE e == c * d
    <2>1. e \in Nat \ {0} /\ r \in 0..(e - 1) /\ a = e * y + r
      BY <1>4, <1>5
    <2> HIDE DEF e
    <2>2. a \div e = y
      BY <1>2, <2>1, DivMod
    <2>3. QED
      BY <2>2 DEF e
  <1>7. QED
    BY <1>6 DEF y, x

\* A function on 1..n is a sequence.
LEMMA FunctionIsSeq ==
  ASSUME NEW n \in Nat, NEW S, NEW f \in [1..n -> S]
  PROVE  f \in Seq(S) /\ Len(f) = n
  BY SeqDef

\* to_be_bytes gives w digits.
LEMMA ToBytes ==
  ASSUME NEW w \in 0..U64, NEW v \in Nat
  PROVE  /\ to_be_bytes(w, v) \in Seq(Byte) /\ Len(to_be_bytes(w, v)) = w
         /\ \A i \in 1..w : to_be_bytes(w, v)[i] = (v \div pow[w - i]) % Base
  <1>1. w \in Nat /\ Base \in Nat \ {0}
    BY Widths
  <1>2. ASSUME NEW i \in 1..w
        PROVE  (v \div pow[w - i]) % Base \in Byte
    <2>1. pow[w - i] \in Nat \ {0}
      BY <1>1, Widths
    <2>2. v \div pow[w - i] \in Nat
      BY <2>1, Quotient
    <2>3. QED
      BY <1>1, <2>2, Quotient DEF Byte
  <1>3. to_be_bytes(w, v) \in [1..w -> Byte]
    BY <1>2 DEF to_be_bytes
  <1>4. QED
    BY <1>1, <1>3, FunctionIsSeq DEF to_be_bytes

\* value[i] is the value of the first i of n digits.
IsValue(value, b, n) ==
  /\ value \in [0..n -> Nat] /\ value[0] = 0
  /\ \A i \in 1..n : value[i] = Base * value[i - 1] + b[i]

\* The function that from_be_bytes defines.
ValueFunction(b, n) ==
  CHOOSE f : f = [i \in 0..n |-> IF i = 0 THEN 0 ELSE Base * f[i - 1] + b[i]]

\* The recursive function in from_be_bytes satisfies its equations.
LEMMA ValueIs ==
  ASSUME NEW n \in Nat, NEW b \in [1..n -> Byte]
  PROVE  IsValue(ValueFunction(b, n), b, n)
  <1> DEFINE F == [p \in (1..n) \X Nat |-> Base * p[2] + b[p[1]]]
             Eq(f) == f = [i \in 0..n |-> IF i = 0 THEN 0 ELSE Base * f[i - 1] + b[i]]
             V == ValueFunction(b, n)
  <1>1. Base \in Nat /\ \A i \in 1..n : b[i] \in Nat
    BY Widths DEF Byte
  <1>2. IsStep(F, n, Nat)
    <2>1. \A i \in 1..n, x \in Nat : Base * x + b[i] \in Nat
      BY <1>1
    <2>2. QED
      BY <2>1 DEF IsStep
  <1> HIDE DEF F
  <1>3. PICK g : Follows(g, F, n, Nat, 0)
    BY <1>2, Recursion
  <1>4. g \in [0..n -> Nat] /\ g[0] = 0 /\ \A i \in 1..n : g[i] = Base * g[i - 1] + b[i]
    <2>1. \A i \in 1..n : <<i, g[i - 1]>> \in (1..n) \X Nat
      BY <1>3 DEF Follows
    <2>2. QED
      BY <1>3, <2>1 DEF F, Follows
  <1>5. Eq(g)
    BY <1>4
  <1>6. Eq(V)
    <2>1. V = CHOOSE f : Eq(f)
      BY DEF ValueFunction
    <2> HIDE DEF Eq
    <2>2. QED
      BY <1>5, <2>1
  <1> HIDE DEF V
  <1>7. V[0] = 0 /\ \A i \in 1..n : V[i] = Base * V[i - 1] + b[i]
    BY <1>6
  <1>8. \A i \in 0..n : V[i] \in Nat
    <2> DEFINE T == {i \in 0..n : V[i] \in Nat}
    <2>1. 0 \in T
      BY <1>7
    <2>2. ASSUME NEW i \in 0..(n - 1), i \in T PROVE i + 1 \in T
      <3>1. i + 1 \in 1..n /\ (i + 1) - 1 = i /\ V[i] \in Nat
        BY <2>2
      <3>2. V[i + 1] = Base * V[i] + b[i + 1]
        BY <1>7, <3>1
      <3>3. \A x, c \in Nat : Base * x + c \in Nat
        BY <1>1
      <3>4. b[i + 1] \in Nat
        BY <1>1, <3>1
      <3>5. V[i + 1] \in Nat
        BY <3>1, <3>2, <3>3, <3>4
      <3>6. QED
        BY <3>1, <3>5
    <2> HIDE DEF T
    <2>3. \A i \in 0..n : i \in T
      BY <2>1, <2>2, Induction
    <2>4. QED
      BY <2>3 DEF T
  <1>9. V \in [0..n -> Nat]
    BY <1>6, <1>8
  <1>10. IsValue(V, b, n)
    BY <1>7, <1>9 DEF IsValue
  <1>11. QED
    BY <1>10 DEF V

\* The value of n digits is an integer of n bytes.
LEMMA ValueBound ==
  ASSUME NEW n \in 0..U64, NEW b \in [1..n -> Byte], NEW value, IsValue(value, b, n)
  PROVE  value[n] \in Uint(n)
  <1> DEFINE T == {i \in 0..n : value[i] < pow[i]}
  <1>1. n \in Nat /\ U64 \in Nat /\ Base \in Nat /\ n <= U64
    BY Widths
  <1>2. 0 \in T
    BY <1>1, Widths DEF IsValue
  <1>3. ASSUME NEW i \in 0..(n - 1), i \in T PROVE i + 1 \in T
    <2>1. i + 1 \in 1..n /\ i + 1 \in 1..U64 /\ (i + 1) - 1 = i /\ i \in 0..U64 /\ i + 1 \in 0..n
      BY <1>1
    <2>2. value[i] \in Nat /\ value[i] < pow[i] /\ value[i + 1] = Base * value[i] + b[i + 1]
      BY <1>3, <2>1 DEF IsValue
    <2>3. pow[i + 1] = Base * pow[i] /\ pow[i] \in Nat
      BY <2>1, PowDef
    <2>4. b[i + 1] \in Nat /\ b[i + 1] <= Base - 1
      BY <1>1, <2>1 DEF Byte
    <2>5. \A x, y, c \in Nat : x < y /\ c <= Base - 1 => Base * x + c < Base * y
      <3>1. SUFFICES ASSUME NEW x \in Nat, NEW y \in Nat, NEW c \in Nat, x < y, c <= Base - 1
                     PROVE  Base * x + c < Base * y
        OBVIOUS
      <3>2. Base * (x + 1) <= Base * y
        BY <1>1, <3>1
      <3>3. QED
        BY <1>1, <3>1, <3>2
    <2>6. value[i + 1] < pow[i + 1]
      BY <2>2, <2>3, <2>4, <2>5
    <2>7. QED
      BY <2>1, <2>6
  <1> HIDE DEF T
  <1>4. \A i \in 0..n : i \in T
    BY <1>1, <1>2, <1>3, Induction
  <1>5. value[n] \in Nat /\ value[n] < pow[n] /\ pow[n] \in Nat
    BY <1>1, <1>4, Widths DEF T, IsValue
  <1>6. QED
    BY <1>5 DEF Uint

\* Dividing the value by a power leaves the value of the digits before.
LEMMA ValueDiv ==
  ASSUME NEW n \in 0..U64, NEW b \in [1..n -> Byte], NEW value, IsValue(value, b, n),
         NEW k \in 0..n
  PROVE  value[n] \div pow[k] = value[n - k]
  <1> DEFINE T == {i \in 0..n : value[n] \div pow[i] = value[n - i]}
  <1>1. n \in Nat /\ U64 \in Nat /\ Base \in Nat \ {0} /\ n <= U64 /\ value[n] \in Nat
    BY Widths DEF IsValue
  <1>2. 0 \in T
    <2>1. pow[0] = 1 /\ n - 0 = n
      BY <1>1, Widths
    <2>2. \A x \in Nat : x \div 1 = x
      OBVIOUS
    <2>3. QED
      BY <1>1, <2>1, <2>2
  <1>3. ASSUME NEW i \in 0..(n - 1), i \in T PROVE i + 1 \in T
    <2>1. /\ i + 1 \in 1..U64 /\ (i + 1) - 1 = i /\ i \in 0..U64 /\ i + 1 \in 0..n
          /\ n - i \in 1..n /\ (n - i) - 1 = n - (i + 1) /\ n - (i + 1) \in 0..n
      BY <1>1
    <2>2. /\ value[n - i] = Base * value[n - (i + 1)] + b[n - i]
          /\ value[n - (i + 1)] \in Nat
      BY <2>1 DEF IsValue
    <2>3. b[n - i] \in 0..(Base - 1)
      BY <2>1 DEF Byte
    <2>4. pow[i + 1] = Base * pow[i] /\ pow[i] \in Nat \ {0}
      BY <2>1, PowDef
    <2>5. value[n] \div pow[i + 1] = (value[n] \div pow[i]) \div Base
      BY <1>1, <2>4, DivDiv
    <2>6. value[n] \div pow[i] = value[n - i]
      BY <1>3
    <2>7. value[n - i] \div Base = value[n - (i + 1)]
      <3>1. \A q \in Nat, r \in 0..(Base - 1) : (Base * q + r) \div Base = q
        BY <1>1, DivMod
      <3>2. QED
        BY <2>2, <2>3, <3>1
    <2>8. QED
      BY <2>1, <2>5, <2>6, <2>7
  <1> HIDE DEF T
  <1>4. \A i \in 0..n : i \in T
    BY <1>1, <1>2, <1>3, Induction
  <1>5. QED
    BY <1>4 DEF T

\* What from_be_bytes reads fits and is written back by to_be_bytes.
LEMMA FromBytes ==
  ASSUME NEW w \in 0..U64, NEW b \in Seq(Byte), Len(b) = w
  PROVE  from_be_bytes(b) \in Uint(w) /\ to_be_bytes(w, from_be_bytes(b)) = b
  <1> DEFINE value == ValueFunction(b, w)
             v == from_be_bytes(b)
  <1>1. w \in Nat /\ b \in [1..w -> Byte]
    BY Widths
  <1>2. v = value[w]
    BY Zenon DEF from_be_bytes, ValueFunction
  <1>3. IsValue(value, b, w)
    BY <1>1, ValueIs
  <1> HIDE DEF value, v
  <1>4. v \in Uint(w)
    BY <1>1, <1>2, <1>3, ValueBound
  <1>5. v \in Nat
    BY <1>4, Widths DEF Uint
  <1>6. ASSUME NEW i \in 1..w
        PROVE  (v \div pow[w - i]) % Base = b[i]
    <2>1. w - i \in 0..w /\ w - (w - i) = i
      BY <1>1
    <2>2. v \div pow[w - i] = value[i]
      BY <1>1, <1>2, <1>3, <2>1, ValueDiv
    <2>3. value[i] = Base * value[i - 1] + b[i] /\ value[i - 1] \in Nat
      BY <1>1, <1>3 DEF IsValue
    <2>4. b[i] \in 0..(Base - 1)
      BY <1>1 DEF Byte
    <2>5. \A q \in Nat, r \in 0..(Base - 1) : (Base * q + r) % Base = r
      BY Widths, DivMod
    <2>6. QED
      BY <2>2, <2>3, <2>4, <2>5
  <1>7. to_be_bytes(w, v) \in [1..w -> Byte]
    BY <1>5, <1>1, ToBytes
  <1>8. to_be_bytes(w, v) = b
    BY <1>1, <1>5, <1>6, <1>7, ToBytes
  <1>9. QED
    BY <1>4, <1>8 DEF v

\* What to_be_bytes writes is read back by from_be_bytes, if it fits.
LEMMA ToFromBytes ==
  ASSUME NEW w \in 0..U64, NEW v \in Uint(w)
  PROVE  from_be_bytes(to_be_bytes(w, v)) = v
  <1> DEFINE b == to_be_bytes(w, v)
             value == ValueFunction(b, w)
             T == {i \in 0..w : value[i] = v \div pow[w - i]}
  <1>1. w \in Nat /\ U64 \in Nat /\ w <= U64 /\ Base \in Nat \ {0}
    BY Widths
  <1>2. v \in Nat /\ pow[w] \in Nat \ {0} /\ v < pow[w]
    BY Widths DEF Uint
  <1>3. b \in Seq(Byte) /\ Len(b) = w /\ b \in [1..w -> Byte]
        /\ \A i \in 1..w : b[i] = (v \div pow[w - i]) % Base
    BY <1>2, ToBytes
  <1>4. from_be_bytes(b) = value[w]
    BY <1>3, Zenon DEF from_be_bytes, ValueFunction
  <1> HIDE DEF b
  <1>5. IsValue(value, b, w)
    BY <1>1, <1>3, ValueIs
  <1> HIDE DEF value
  <1>6. 0 \in T
    <2>1. \A x \in Nat, d \in Nat \ {0} : x < d => x \div d = 0
      OBVIOUS
    <2>2. QED
      BY <1>1, <1>2, <1>5, <2>1 DEF IsValue
  <1>7. ASSUME NEW i \in 0..(w - 1), i \in T PROVE i + 1 \in T
    <2> DEFINE j == w - (i + 1)
               x == v \div pow[j]
    <2>1. /\ i + 1 \in 1..w /\ (i + 1) - 1 = i /\ i + 1 \in 0..w
          /\ j \in 0..U64 /\ w - i = j + 1 /\ j + 1 \in 1..U64 /\ (j + 1) - 1 = j
      BY <1>1
    <2>2. pow[j + 1] = Base * pow[j] /\ pow[j] \in Nat \ {0}
      BY <2>1, PowDef
    <2>3. v \div pow[j + 1] = x \div Base
      BY <1>1, <1>2, <2>2, DivDiv
    <2>4. x \in Nat
      BY <1>2, <2>2, Quotient
    <2>5. value[i] = x \div Base
      BY <1>7, <2>1, <2>3
    <2>6. value[i + 1] = Base * value[i] + b[i + 1]
      BY <1>5, <2>1 DEF IsValue
    <2>7. b[i + 1] = x % Base
      BY <1>3, <2>1
    <2> HIDE DEF x
    <2>8. x = Base * (x \div Base) + (x % Base)
      BY <1>1, <2>4, Quotient
    <2>9. value[i + 1] = x
      BY <2>5, <2>6, <2>7, <2>8
    <2>10. QED
      BY <2>1, <2>9 DEF x
  <1> HIDE DEF T
  <1>8. \A i \in 0..w : i \in T
    BY <1>1, <1>6, <1>7, Induction
  <1>9. value[w] = v \div pow[0]
    BY <1>1, <1>8 DEF T
  <1>10. \A x \in Nat : x \div 1 = x
    OBVIOUS
  <1>11. QED
    BY <1>2, <1>4, <1>9, <1>10, Widths DEF b

------------------------------------------------------------------------------
(* Byte strings.  Str is Seq(Byte) under a name of its own, so that the     *)
(* provers see only the facts about it that are cited.                      *)

Str == Seq(Byte)

\* The empty byte string, and lengths.
LEMMA StrEmpty ==
  /\ <<>> \in Str /\ Len(<<>>) = 0
  /\ \A x \in Str : /\ Len(x) \in Nat /\ (Len(x) = 0 => x = <<>>)
                    /\ x \o <<>> = x /\ <<>> \o x = x
  BY ConcatEmptySeq, EmptySeq, LenProperties DEF Str

\* Byte strings are closed under concatenation, and lengths add up.
LEMMA StrConcat ==
  ASSUME NEW x \in Str, NEW y \in Str
  PROVE  x \o y \in Str /\ Len(x \o y) = Len(x) + Len(y) /\ Len(x) \in Nat /\ Len(y) \in Nat
  BY ConcatProperties DEF Str

\* Concatenation is associative.
LEMMA StrAssoc ==
  ASSUME NEW x \in Str, NEW y \in Str, NEW z \in Str
  PROVE  (x \o y) \o z = x \o (y \o z)
  BY ConcatAssociative, SMTT(30) DEF Str

\* A string is its first n bytes and the others.
LEMMA StrSplit ==
  ASSUME NEW d \in Str, NEW n \in 0..Len(d)
  PROVE  /\ SubSeq(d, 1, n) \in Str /\ Len(SubSeq(d, 1, n)) = n
         /\ SubSeq(d, n + 1, Len(d)) \in Str /\ Len(SubSeq(d, n + 1, Len(d))) = Len(d) - n
         /\ d = SubSeq(d, 1, n) \o SubSeq(d, n + 1, Len(d))
  <1>1. Len(d) \in Nat /\ \A i \in 1..Len(d) : d[i] \in Byte
    BY ElementOfSeq, LenProperties DEF Str
  <1>2. SubSeq(d, 1, n) \in Str /\ Len(SubSeq(d, 1, n)) = n
    BY <1>1, SubSeqProperties DEF Str
  <1>3. SubSeq(d, n + 1, Len(d)) \in Str /\ Len(SubSeq(d, n + 1, Len(d))) = Len(d) - n
    BY <1>1, SubSeqProperties DEF Str
  <1>4. SubSeq(d, 1, n) \o SubSeq(d, n + 1, Len(d)) = SubSeq(d, 1, Len(d))
    <2>1. 1 \in 1..(Len(d) + 1) /\ n \in (1 - 1)..Len(d) /\ Len(d) \in n..Len(d)
      BY <1>1
    <2>2. QED
      BY <2>1, ConcatAdjacentSubSeq DEF Str
  <1>5. SubSeq(d, 1, Len(d)) = d
    BY SubSeqFull DEF Str
  <1>6. QED
    BY <1>2, <1>3, <1>4, <1>5

\* Strings with equal beginnings of equal length have equal ends.
LEMMA StrCancel ==
  ASSUME NEW x \in Str, NEW y \in Str, NEW u \in Str, NEW v \in Str,
         x \o y = u \o v, Len(x) = Len(u)
  PROVE  x = u /\ y = v
  <1>1. /\ Len(x) \in Nat /\ Len(y) \in Nat /\ Len(v) \in Nat
        /\ Len(x \o y) = Len(x) + Len(y) /\ Len(u \o v) = Len(u) + Len(v)
        /\ \A i \in 1..(Len(x) + Len(y)) :
             (x \o y)[i] = IF i <= Len(x) THEN x[i] ELSE y[i - Len(x)]
        /\ \A i \in 1..(Len(u) + Len(v)) :
             (u \o v)[i] = IF i <= Len(u) THEN u[i] ELSE v[i - Len(u)]
    BY ConcatProperties, LenProperties DEF Str
  <1>2. Len(y) = Len(v)
    BY <1>1
  <1>3. \A i \in 1..Len(x) : x[i] = u[i]
    BY <1>1
  <1>4. x = u
    BY <1>3, SeqEqual DEF Str
  <1>5. x \o y = x \o v
    BY <1>4
  <1>6. y = v
    BY <1>5, ConcatSimplifications DEF Str
  <1>7. QED
    BY <1>4, <1>6

\* Cutting a concatenation where it was made.
LEMMA StrTake ==
  ASSUME NEW x \in Str, NEW y \in Str
  PROVE  /\ SubSeq(x \o y, 1, Len(x)) = x
         /\ SubSeq(x \o y, Len(x) + 1, Len(x \o y)) = y
  <1> DEFINE d == x \o y
  <1>1. d \in Str /\ Len(x) \in 0..Len(d)
    BY StrConcat
  <1> HIDE DEF d
  <1>2. /\ SubSeq(d, 1, Len(x)) \in Str /\ Len(SubSeq(d, 1, Len(x))) = Len(x)
        /\ SubSeq(d, Len(x) + 1, Len(d)) \in Str
        /\ d = SubSeq(d, 1, Len(x)) \o SubSeq(d, Len(x) + 1, Len(d))
    BY <1>1, StrSplit
  <1> DEFINE u == SubSeq(d, 1, Len(x))
             v == SubSeq(d, Len(x) + 1, Len(d))
  <1>3. u \in Str /\ v \in Str /\ Len(u) = Len(x) /\ u \o v = x \o y
    BY <1>2 DEF d
  <1> HIDE DEF u, v
  <1>4. u = x /\ v = y
    BY <1>3, StrCancel
  <1>5. QED
    BY <1>4 DEF u, v, d

\* Cutting what is left after a bytes b - a bytes later.
LEMMA StrCut ==
  ASSUME NEW d \in Str, NEW a \in Nat, NEW b \in Nat, a <= b, b <= Len(d)
  PROVE  /\ SubSeq(d, a + 1, b) \in Str /\ Len(SubSeq(d, a + 1, b)) = b - a
         /\ SubSeq(d, b + 1, Len(d)) \in Str
         /\ SubSeq(d, a + 1, Len(d)) = SubSeq(d, a + 1, b) \o SubSeq(d, b + 1, Len(d))
  <1>1. Len(d) \in Nat /\ \A i \in 1..Len(d) : d[i] \in Byte
    BY ElementOfSeq, LenProperties DEF Str
  <1>2. a + 1 \in 1..(Len(d) + 1) /\ b \in ((a + 1) - 1)..Len(d) /\ Len(d) \in b..Len(d)
    BY <1>1
  <1>3. \A i \in (a + 1)..b : i \in 1..Len(d)
    BY <1>1
  <1>4. SubSeq(d, a + 1, b) \in Str /\ Len(SubSeq(d, a + 1, b)) = b - a
    BY <1>1, <1>3, SubSeqProperties DEF Str
  <1>5. SubSeq(d, b + 1, Len(d)) \in Str
    <2>1. b \in 0..Len(d)
      BY <1>1
    <2>2. QED
      BY <2>1, StrSplit
  <1>6. SubSeq(d, a + 1, Len(d)) = SubSeq(d, a + 1, b) \o SubSeq(d, b + 1, Len(d))
    BY <1>2, ConcatAdjacentSubSeq DEF Str
  <1>7. QED
    BY <1>4, <1>5, <1>6

\* The middle one of three concatenated strings.
LEMMA StrMiddle ==
  ASSUME NEW x \in Str, NEW y \in Str, NEW z \in Str
  PROVE  SubSeq(x \o (y \o z), Len(x) + 1, Len(x) + Len(y)) = y
  <1> DEFINE d == x \o (y \o z)
             a == Len(x)
             b == Len(x) + Len(y)
             u == SubSeq(d, a + 1, b)
             v == SubSeq(d, b + 1, Len(d))
  <1>1. /\ y \o z \in Str /\ Len(y \o z) = Len(y) + Len(z)
        /\ Len(x) \in Nat /\ Len(y) \in Nat /\ Len(z) \in Nat
    BY StrConcat
  <1>2. d \in Str /\ Len(d) = a + Len(y \o z)
    BY <1>1, StrConcat
  <1>3. SubSeq(d, a + 1, Len(d)) = y \o z
    BY <1>1, StrTake
  <1>4. a \in Nat /\ b \in Nat /\ a <= b /\ b <= Len(d) /\ b - a = Len(y)
    BY <1>1, <1>2
  <1> HIDE DEF d, a, b
  <1>5. u \in Str /\ Len(u) = Len(y) /\ v \in Str /\ u \o v = y \o z
    BY <1>2, <1>3, <1>4, StrCut
  <1> HIDE DEF u, v
  <1>6. u = y
    BY <1>5, StrCancel
  <1>7. QED
    BY <1>6 DEF u, d, a, b

------------------------------------------------------------------------------
(* Reads.  One that succeeds has returned a value and what follows it.      *)

Good(r) == r.err = ""

\* What an Ok carries.
LEMMA OkIs ==
  ASSUME NEW v, NEW y
  PROVE  Good(Ok(v, y)) /\ Ok(v, y).err = "" /\ Ok(v, y).val = v /\ Ok(v, y).rest = y
  BY DEF Ok, Good

\* The same for a result that is known to be an Ok.
LEMMA OkFields ==
  ASSUME NEW r, NEW v, NEW y, r = Ok(v, y)
  PROVE  Good(r) /\ r.err = "" /\ r.val = v /\ r.rest = y
  BY Zenon DEF Ok, Good

\* Two equal Oks carry the same.
LEMMA OkEqual ==
  ASSUME NEW v, NEW y, NEW u, NEW z, Ok(v, y) = Ok(u, z)
  PROVE  v = u /\ y = z
  <1>1. Ok(v, y).val = u /\ Ok(v, y).rest = z
    BY OkFields
  <1>2. Ok(v, y).val = v /\ Ok(v, y).rest = y
    BY OkIs
  <1>3. QED
    BY <1>1, <1>2

\* An Err is not good.
LEMMA ErrIs ==
  ASSUME NEW e, e # ""
  PROVE  ~Good(Err(e)) /\ Err(e).err = e
  BY DEF Err, Good

\* Reading an array gives back what was written in front.
LEMMA ReadArrayOf ==
  ASSUME NEW x \in Str, NEW y \in Str
  PROVE  read_array(Len(x), x \o y) = Ok(x, y)
  <1>1. ~(Len(x \o y) < Len(x))
    BY StrConcat
  <1>2. QED
    BY <1>1, StrTake DEF read_array

\* An array that is read was in front.
LEMMA ReadArrayIs ==
  ASSUME NEW n \in Nat, NEW d \in Str, Good(read_array(n, d))
  PROVE  \E x, y \in Str : Len(x) = n /\ d = x \o y /\ read_array(n, d) = Ok(x, y)
  <1>1. Len(d) \in Nat
    BY StrEmpty
  <1>2. ~(Len(d) < n)
    BY ErrIs DEF read_array
  <1>3. n \in 0..Len(d)
    BY <1>1, <1>2
  <1>4. read_array(n, d) = Ok(SubSeq(d, 1, n), SubSeq(d, n + 1, Len(d)))
    BY <1>2 DEF read_array
  <1>5. QED
    BY <1>3, <1>4, StrSplit

\* read_int by what read_array gives.
LEMMA ReadIntBy ==
  ASSUME NEW w, NEW d, NEW x, NEW y, read_array(w, d) = Ok(x, y)
  PROVE  read_int(w, d) = Ok(from_be_bytes(x), y)
  <1> DEFINE r == read_array(w, d)
  <1>1. r.err = "" /\ r.val = x /\ r.rest = y
    BY OkFields
  <1>2. read_int(w, d) = IF r.err # "" THEN r ELSE Ok(from_be_bytes(r.val), r.rest)
    BY DEF read_int, AndThen
  <1> HIDE DEF r
  <1>3. QED
    BY <1>1, <1>2

\* Reading an integer gives back what was written.
LEMMA ReadIntOf ==
  ASSUME NEW w \in 0..U64, NEW v \in Uint(w), NEW y \in Str
  PROVE  read_int(w, to_be_bytes(w, v) \o y) = Ok(v, y)
  <1> DEFINE x == to_be_bytes(w, v)
  <1>1. v \in Nat
    BY Widths DEF Uint
  <1>2. x \in Str /\ Len(x) = w /\ from_be_bytes(x) = v
    BY <1>1, ToBytes, ToFromBytes DEF Str
  <1> HIDE DEF x
  <1>3. read_array(w, x \o y) = Ok(x, y)
    BY <1>2, ReadArrayOf
  <1>4. read_int(w, x \o y) = Ok(from_be_bytes(x), y)
    BY <1>3, ReadIntBy
  <1>5. QED
    BY <1>2, <1>4 DEF x

\* An integer that is read was written in front.
LEMMA ReadIntIs ==
  ASSUME NEW w \in 0..U64, NEW d \in Str, Good(read_int(w, d))
  PROVE  \E v \in Uint(w), y \in Str :
           d = to_be_bytes(w, v) \o y /\ read_int(w, d) = Ok(v, y)
  <1>1. w \in Nat
    BY Widths
  <1>2. Good(read_array(w, d))
    BY DEF read_int, AndThen, Good
  <1>3. PICK x \in Str, y \in Str : Len(x) = w /\ d = x \o y /\ read_array(w, d) = Ok(x, y)
    BY <1>1, <1>2, ReadArrayIs
  <1>4. from_be_bytes(x) \in Uint(w) /\ to_be_bytes(w, from_be_bytes(x)) = x
    BY <1>3, FromBytes DEF Str
  <1>5. read_int(w, d) = Ok(from_be_bytes(x), y)
    BY <1>3, ReadIntBy
  <1>6. QED
    BY <1>3, <1>4, <1>5

\* The same pair for public keys ...
LEMMA ReadKeyOf ==
  ASSUME NEW x \in Str, Len(x) = PUBLIC_KEY_SIZE, PublicKey_from_slice(x), NEW y \in Str
  PROVE  read_PublicKey(x \o y) = Ok(x, y)
  <1> DEFINE r == read_array(PUBLIC_KEY_SIZE, x \o y)
  <1>1. r = Ok(x, y)
    BY ReadArrayOf
  <1>2. r.err = "" /\ r.val = x
    BY <1>1, OkFields
  <1>3. read_PublicKey(x \o y)
          = IF r.err # "" THEN r
            ELSE IF PublicKey_from_slice(r.val) THEN r ELSE Err("InvalidPublicKey")
    BY DEF read_PublicKey, AndThen
  <1> HIDE DEF r
  <1>4. QED
    BY <1>1, <1>2, <1>3

\* ... which are read only if they are valid.
LEMMA ReadKeyIs ==
  ASSUME NEW d \in Str, Good(read_PublicKey(d))
  PROVE  \E x, y \in Str : /\ Len(x) = PUBLIC_KEY_SIZE /\ PublicKey_from_slice(x)
                           /\ d = x \o y /\ read_PublicKey(d) = Ok(x, y)
  <1> DEFINE r == read_array(PUBLIC_KEY_SIZE, d)
             k == IF PublicKey_from_slice(r.val) THEN r ELSE Err("InvalidPublicKey")
  <1>1. read_PublicKey(d) = IF r.err # "" THEN r ELSE k
    BY DEF read_PublicKey, AndThen
  <1>2. Good(r)
    <2> HIDE DEF r, k
    <2>1. QED
      BY <1>1 DEF Good
  <1>3. PICK x \in Str, y \in Str : Len(x) = PUBLIC_KEY_SIZE /\ d = x \o y /\ r = Ok(x, y)
    BY <1>2, ReadArrayIs, SizeAssumption
  <1> HIDE DEF r
  <1>4. r.err = "" /\ r.val = x
    BY <1>3, OkFields
  <1>5. PublicKey_from_slice(x) /\ read_PublicKey(d) = r
    BY <1>1, <1>4, ErrIs
  <1>6. QED
    BY <1>3, <1>5

\* The same pair for signatures ...
LEMMA ReadSignatureOf ==
  ASSUME NEW x \in Str, Len(x) = COMPACT_SIGNATURE_SIZE, Signature_from_compact(x), NEW y \in Str
  PROVE  read_Signature(x \o y) = Ok(x, y)
  <1> DEFINE r == read_array(COMPACT_SIGNATURE_SIZE, x \o y)
  <1>1. r = Ok(x, y)
    BY ReadArrayOf
  <1>2. r.err = "" /\ r.val = x
    BY <1>1, OkFields
  <1>3. read_Signature(x \o y)
          = IF r.err # "" THEN r
            ELSE IF Signature_from_compact(r.val) THEN r ELSE Err("InvalidSignature")
    BY DEF read_Signature, AndThen
  <1> HIDE DEF r
  <1>4. QED
    BY <1>1, <1>2, <1>3

\* ... which are read only if they are valid.
LEMMA ReadSignatureIs ==
  ASSUME NEW d \in Str, Good(read_Signature(d))
  PROVE  \E x, y \in Str : /\ Len(x) = COMPACT_SIGNATURE_SIZE /\ Signature_from_compact(x)
                           /\ d = x \o y /\ read_Signature(d) = Ok(x, y)
  <1> DEFINE r == read_array(COMPACT_SIGNATURE_SIZE, d)
             k == IF Signature_from_compact(r.val) THEN r ELSE Err("InvalidSignature")
  <1>1. read_Signature(d) = IF r.err # "" THEN r ELSE k
    BY DEF read_Signature, AndThen
  <1>2. Good(r)
    <2> HIDE DEF r, k
    <2>1. QED
      BY <1>1 DEF Good
  <1>3. PICK x \in Str, y \in Str : Len(x) = COMPACT_SIGNATURE_SIZE /\ d = x \o y /\ r = Ok(x, y)
    BY <1>2, ReadArrayIs, SizeAssumption
  <1> HIDE DEF r
  <1>4. r.err = "" /\ r.val = x
    BY <1>3, OkFields
  <1>5. Signature_from_compact(x) /\ read_Signature(d) = r
    BY <1>1, <1>4, ErrIs
  <1>6. QED
    BY <1>3, <1>5

\* A vector is written as its length, cut to two bytes, and its bytes.
LEMMA WriteVec ==
  ASSUME NEW b \in Str
  PROVE  write_Vec(b) \in Str /\ Len(write_Vec(b)) = U16 + Len(b)
  <1>1. Len(b) \in Nat /\ U16 \in 0..U64
    BY StrEmpty, Widths
  <1>2. to_be_bytes(U16, Len(b)) \in Str /\ Len(to_be_bytes(U16, Len(b))) = U16
    BY <1>1, ToBytes DEF Str
  <1>3. QED
    BY <1>2, StrConcat DEF write_Vec

\* read_Vec by what its two reads give.
LEMMA ReadVecBy ==
  ASSUME NEW d, NEW n, NEW y, read_int(U16, d) = Ok(n, y)
  PROVE  read_Vec(d) = read_array(n, y)
  <1> DEFINE r == read_int(U16, d)
  <1>1. r.err = "" /\ r.val = n /\ r.rest = y
    BY OkFields
  <1>2. read_Vec(d) = IF r.err # "" THEN r ELSE read_array(r.val, r.rest)
    BY DEF read_Vec, AndThen
  <1> HIDE DEF r
  <1>3. QED
    BY <1>1, <1>2

\* A vector whose length fits its prefix is read back.
LEMMA ReadVecOf ==
  ASSUME NEW b \in Str, Len(b) \in Uint(U16), NEW y \in Str
  PROVE  read_Vec(write_Vec(b) \o y) = Ok(b, y)
  <1> DEFINE n == to_be_bytes(U16, Len(b))
  <1>1. U16 \in 0..U64 /\ Len(b) \in Nat
    BY Widths, StrEmpty
  <1>2. n \in Str
    BY <1>1, ToBytes DEF Str
  <1>3. write_Vec(b) \o y = n \o (b \o y) /\ b \o y \in Str
    BY <1>2, StrAssoc, StrConcat DEF write_Vec
  <1>4. read_int(U16, n \o (b \o y)) = Ok(Len(b), b \o y)
    BY <1>1, <1>3, ReadIntOf
  <1> HIDE DEF n
  <1>5. read_Vec(n \o (b \o y)) = read_array(Len(b), b \o y)
    BY <1>4, ReadVecBy
  <1>6. QED
    BY <1>3, <1>5, ReadArrayOf

\* A vector that is read was written in front, and its length fits the prefix.
LEMMA ReadVecIs ==
  ASSUME NEW d \in Str, Good(read_Vec(d))
  PROVE  \E b, y \in Str : /\ Len(b) \in Uint(U16) /\ d = write_Vec(b) \o y
                           /\ read_Vec(d) = Ok(b, y)
  <1> DEFINE r == read_int(U16, d)
  <1>1. U16 \in 0..U64
    BY Widths
  <1>2. Good(r)
    <2>1. read_Vec(d) = IF r.err # "" THEN r ELSE read_array(r.val, r.rest)
      BY DEF read_Vec, AndThen
    <2> HIDE DEF r
    <2>2. QED
      BY <2>1 DEF Good
  <1>3. PICK n \in Uint(U16), z \in Str : d = to_be_bytes(U16, n) \o z /\ r = Ok(n, z)
    BY <1>1, <1>2, ReadIntIs
  <1>4. n \in Nat
    BY <1>1, Widths DEF Uint
  <1>5. read_Vec(d) = read_array(n, z)
    BY <1>3, ReadVecBy
  <1>6. PICK b \in Str, y \in Str : Len(b) = n /\ z = b \o y /\ read_array(n, z) = Ok(b, y)
    BY <1>4, <1>5, ReadArrayIs
  <1>7. to_be_bytes(U16, n) \in Str
    BY <1>1, <1>4, ToBytes DEF Str
  <1>8. d = write_Vec(b) \o y
    <2>1. write_Vec(b) = to_be_bytes(U16, n) \o b
      BY <1>6 DEF write_Vec
    <2>2. (to_be_bytes(U16, n) \o b) \o y = to_be_bytes(U16, n) \o (b \o y)
      BY <1>7, StrAssoc, Zenon
    <2>3. d = to_be_bytes(U16, n) \o (b \o y)
      BY <1>3, <1>6, Zenon
    <2>4. QED
      BY <2>1, <2>2, <2>3, Zenon
  <1>9. QED
    BY <1>5, <1>6, <1>8

------------------------------------------------------------------------------
(* BigSize.                                                                 *)

\* An integer of one byte.
LEMMA OneByte ==
  ASSUME NEW v \in Byte
  PROVE  to_be_bytes(1, v) = <<v>> /\ v \in Uint(1) /\ v \in Nat /\ <<v>> \in Str
  <1>1. v \in Nat /\ v \in 0..(Base - 1) /\ Base \in Nat /\ Base >= 4 /\ pow[0] = 1 /\ pow[1] = Base
    BY Widths DEF Byte
  <1>2. (v \div 1) % Base = v
    <2>1. v \div 1 = v
      BY <1>1
    <2>2. v % Base = v
      BY <1>1
    <2>3. QED
      BY <2>1, <2>2
  <1>3. to_be_bytes(1, v) = [i \in 1..1 |-> v]
    <2>1. \A i \in 1..1 : 1 - i = 0
      OBVIOUS
    <2>2. QED
      BY <1>1, <1>2, <2>1 DEF to_be_bytes
  <1>4. QED
    BY <1>1, <1>3 DEF Uint, Str

\* read_minimal by what it reads.
LEMMA MinimalBy ==
  ASSUME NEW w, NEW least, NEW d, NEW v, NEW y, read_int(w, d) = Ok(v, y)
  PROVE  read_minimal(w, least, d) = IF v < least THEN Err("BigSizeNotMinimal") ELSE Ok(v, y)
  <1> DEFINE r == read_int(w, d)
  <1>1. r.err = "" /\ r.val = v /\ r = Ok(v, y)
    BY OkFields
  <1>2. OrErr(r, "BigSizeTruncated") = r
    <2> HIDE DEF r
    <2>1. QED
      BY <1>1 DEF OrErr
  <1>3. read_minimal(w, least, d)
          = IF OrErr(r, "BigSizeTruncated").err # "" THEN OrErr(r, "BigSizeTruncated")
            ELSE IF OrErr(r, "BigSizeTruncated").val < least THEN Err("BigSizeNotMinimal")
                 ELSE OrErr(r, "BigSizeTruncated")
    BY DEF read_minimal, AndThen
  <1> HIDE DEF r
  <1>4. QED
    BY <1>1, <1>2, <1>3

\* What read_minimal reads is not below the least value of its form.
LEMMA MinimalIs ==
  ASSUME NEW w \in 0..U64, NEW least, NEW d \in Str, Good(read_minimal(w, least, d))
  PROVE  \E v \in Uint(w), y \in Str :
           ~(v < least) /\ d = to_be_bytes(w, v) \o y /\ read_minimal(w, least, d) = Ok(v, y)
  <1> DEFINE r == read_int(w, d)
             o == OrErr(r, "BigSizeTruncated")
             k == IF o.val < least THEN Err("BigSizeNotMinimal") ELSE o
  <1>1. read_minimal(w, least, d) = IF o.err # "" THEN o ELSE k
    BY DEF read_minimal, AndThen
  <1>2. Good(o)
    <2> HIDE DEF r, o, k
    <2>1. QED
      BY <1>1 DEF Good
  <1>3. Good(r)
    <2>1. o = IF r.err # "" THEN Err("BigSizeTruncated") ELSE r
      BY DEF OrErr
    <2> HIDE DEF r, o, k
    <2>2. QED
      BY <1>2, <2>1, ErrIs DEF Good
  <1>4. PICK v \in Uint(w), y \in Str : d = to_be_bytes(w, v) \o y /\ r = Ok(v, y)
    BY <1>3, ReadIntIs
  <1>5. read_minimal(w, least, d) = IF v < least THEN Err("BigSizeNotMinimal") ELSE Ok(v, y)
    BY <1>4, MinimalBy
  <1>6. ~(v < least)
    BY <1>5, ErrIs
  <1>7. QED
    BY <1>4, <1>5, <1>6

\* BigSize_read by what it finds in the first byte.
LEMMA BigSizeBy ==
  ASSUME NEW d, NEW p \in Byte, NEW z, read_int(1, d) = Ok(p, z)
  PROVE  BigSize_read(d)
           = IF p < Base - 3 THEN Ok(p, z)
             ELSE IF p = Base - 3 THEN read_minimal(U16, Base - 3, z)
             ELSE IF p = Base - 2 THEN read_minimal(U32, pow[U16], z)
             ELSE read_minimal(U64, pow[U32], z)
  <1> DEFINE r == read_int(1, d)
             o == OrErr(r, "BigSizeTruncated")
             k == CASE o.val < Base - 3  -> o
                    [] o.val = Base - 3  -> read_minimal(U16, Base - 3, o.rest)
                    [] o.val = Base - 2  -> read_minimal(U32, pow[U16], o.rest)
                    [] o.val = Base - 1  -> read_minimal(U64, pow[U32], o.rest)
  <1>1. r.err = "" /\ r.val = p /\ r.rest = z /\ r = Ok(p, z) /\ o = r
    <2>1. r.err = "" /\ r.val = p /\ r.rest = z /\ r = Ok(p, z)
      BY OkFields
    <2>2. o = IF r.err # "" THEN Err("BigSizeTruncated") ELSE r
      BY DEF OrErr
    <2> HIDE DEF r, o
    <2>3. QED
      BY <2>1, <2>2
  <1>2. p \in 0..(Base - 1) /\ Base \in Nat /\ Base >= 4
    BY Widths DEF Byte
  <1>3. BigSize_read(d)
          = CASE r.val < Base - 3  -> r
              [] r.val = Base - 3  -> read_minimal(U16, Base - 3, r.rest)
              [] r.val = Base - 2  -> read_minimal(U32, pow[U16], r.rest)
              [] r.val = Base - 1  -> read_minimal(U64, pow[U32], r.rest)
    <2>1. BigSize_read(d) = IF o.err # "" THEN o ELSE k
      BY DEF BigSize_read, AndThen
    <2>2. k = CASE r.val < Base - 3  -> r
                [] r.val = Base - 3  -> read_minimal(U16, Base - 3, r.rest)
                [] r.val = Base - 2  -> read_minimal(U32, pow[U16], r.rest)
                [] r.val = Base - 1  -> read_minimal(U64, pow[U32], r.rest)
      BY <1>1
    <2> HIDE DEF r, o, k
    <2>3. QED
      BY <1>1, <2>1, <2>2
  <1> HIDE DEF r, o, k
  <1>4. CASE p < Base - 3
    <2>1. p # Base - 3 /\ p # Base - 2 /\ p # Base - 1
      BY <1>2, <1>4
    <2>2. BigSize_read(d) = r
      BY <1>1, <1>3, <1>4, <2>1
    <2>3. QED
      BY <1>1, <1>4, <2>2
  <1>5. CASE p = Base - 3
    <2>1. ~(p < Base - 3) /\ p # Base - 2 /\ p # Base - 1
      BY <1>2, <1>5
    <2>2. QED
      BY <1>1, <1>3, <1>5, <2>1
  <1>6. CASE p = Base - 2
    <2>1. ~(p < Base - 3) /\ p # Base - 3 /\ p # Base - 1
      BY <1>2, <1>6
    <2>2. QED
      BY <1>1, <1>3, <1>6, <2>1
  <1>7. CASE p = Base - 1
    <2>1. ~(p < Base - 3) /\ p # Base - 3 /\ p # Base - 2
      BY <1>2, <1>7
    <2>2. QED
      BY <1>1, <1>3, <1>7, <2>1
  <1>8. QED
    BY <1>2, <1>4, <1>5, <1>6, <1>7

\* The four forms of BigSize_write.
LEMMA BigSizeForm ==
  ASSUME NEW v \in Uint(U64)
  PROVE  /\ v \in Nat
         /\ \/ v < Base - 3 /\ v \in Byte /\ BigSize_write(v) = <<v>>
            \/ /\ ~(v < Base - 3) /\ v < pow[U16] /\ v \in Uint(U16)
               /\ BigSize_write(v) = <<Base - 3>> \o to_be_bytes(U16, v)
            \/ /\ ~(v < pow[U16]) /\ v < pow[U32] /\ v \in Uint(U32)
               /\ BigSize_write(v) = <<Base - 2>> \o to_be_bytes(U32, v)
            \/ /\ ~(v < pow[U32])
               /\ BigSize_write(v) = <<Base - 1>> \o to_be_bytes(U64, v)
  <1>1. /\ v \in Nat /\ v < pow[U64] /\ Base \in Nat /\ Base >= 4
        /\ pow[U16] \in Nat /\ pow[U32] \in Nat /\ pow[U64] \in Nat
        /\ Base < pow[U16] /\ pow[U16] < pow[U32] /\ pow[U32] < pow[U64]
    BY Widths DEF Uint
  <1>2. CASE v < Base - 3
    <2>1. v \in Byte /\ ~(Base - 3 <= v) /\ ~(pow[U16] <= v) /\ ~(pow[U32] <= v)
      BY <1>1, <1>2 DEF Byte
    <2>2. BigSize_write(v) = to_be_bytes(1, v)
      BY <1>2, <2>1 DEF BigSize_write
    <2>3. QED
      BY <1>1, <1>2, <2>1, <2>2, OneByte
  <1>3. CASE ~(v < Base - 3) /\ v < pow[U16]
    <2>1. Base - 3 <= v /\ ~(pow[U16] <= v) /\ ~(pow[U32] <= v) /\ v \in Uint(U16)
      BY <1>1, <1>3 DEF Uint
    <2>2. BigSize_write(v) = <<Base - 3>> \o to_be_bytes(U16, v)
      BY <1>3, <2>1 DEF BigSize_write
    <2>3. QED
      BY <1>1, <1>3, <2>1, <2>2
  <1>4. CASE ~(v < pow[U16]) /\ v < pow[U32]
    <2>1. ~(v < Base - 3) /\ pow[U16] <= v /\ ~(pow[U32] <= v) /\ v \in Uint(U32)
      BY <1>1, <1>4 DEF Uint
    <2>2. BigSize_write(v) = <<Base - 2>> \o to_be_bytes(U32, v)
      BY <1>4, <2>1 DEF BigSize_write
    <2>3. QED
      BY <1>1, <1>4, <2>1, <2>2
  <1>5. CASE ~(v < pow[U32])
    <2>1. ~(v < Base - 3) /\ ~(v < pow[U16]) /\ pow[U32] <= v
      BY <1>1, <1>5
    <2>2. BigSize_write(v) = <<Base - 1>> \o to_be_bytes(U64, v)
      BY <1>5, <2>1 DEF BigSize_write
    <2>3. QED
      BY <1>1, <1>5, <2>2
  <1>6. QED
    BY <1>1, <1>2, <1>3, <1>4, <1>5

\* A byte and an integer of w bytes.
LEMMA Prefixed ==
  ASSUME NEW p \in Byte, NEW w \in 0..U64, NEW v \in Nat
  PROVE  <<p>> \o to_be_bytes(w, v) \in Str /\ Len(<<p>> \o to_be_bytes(w, v)) = w + 1
  <1> DEFINE x == to_be_bytes(w, v)
             q == <<p>>
  <1>1. x \in Str /\ Len(x) = w
    BY ToBytes DEF Str
  <1>2. q \in Str /\ Len(q) = 1
    BY OneByte
  <1>3. 1 + w = w + 1
    BY Widths
  <1> HIDE DEF x, q
  <1>4. q \o x \in Str /\ Len(q \o x) = w + 1
    BY <1>1, <1>2, <1>3, StrConcat
  <1>5. QED
    BY <1>4 DEF x, q

\* The first byte of a long form is read first.
LEMMA ReadPrefix ==
  ASSUME NEW p \in Byte, NEW w \in 0..U64, NEW v \in Nat, NEW y \in Str
  PROVE  /\ (<<p>> \o to_be_bytes(w, v)) \o y = <<p>> \o (to_be_bytes(w, v) \o y)
         /\ to_be_bytes(w, v) \o y \in Str
         /\ read_int(1, <<p>> \o (to_be_bytes(w, v) \o y)) = Ok(p, to_be_bytes(w, v) \o y)
  <1> DEFINE x == to_be_bytes(w, v)
             q == <<p>>
  <1>1. x \in Str
    BY ToBytes DEF Str
  <1>2. q \in Str /\ p \in Uint(1) /\ q = to_be_bytes(1, p) /\ 1 \in 0..U64
    BY OneByte, Widths
  <1> HIDE DEF x, q
  <1>3. x \o y \in Str /\ (q \o x) \o y = q \o (x \o y)
    <2>1. x \o y \in Str
      BY <1>1, StrConcat, Zenon
    <2>2. (q \o x) \o y = q \o (x \o y)
      BY <1>1, <1>2, StrAssoc, Zenon
    <2>3. QED
      BY <2>1, <2>2
  <1>4. read_int(1, q \o (x \o y)) = Ok(p, x \o y)
    BY <1>2, <1>3, ReadIntOf
  <1>5. QED
    BY <1>3, <1>4, Zenon DEF x, q

\* The three bytes that announce a long form.
LEMMA PrefixBytes ==
  /\ Base - 3 \in Byte /\ Base - 2 \in Byte /\ Base - 1 \in Byte
  /\ U16 \in 0..U64 /\ U32 \in 0..U64 /\ U64 \in 0..U64
  <1>1. Base \in Nat /\ Base >= 4
    BY Widths
  <1>2. Base - 3 \in Byte /\ Base - 2 \in Byte /\ Base - 1 \in Byte
    BY <1>1 DEF Byte
  <1>3. QED
    BY <1>2, Widths

\* A BigSize is written in at least one byte.
LEMMA BigSizeStr ==
  ASSUME NEW v \in Uint(U64)
  PROVE  BigSize_write(v) \in Str /\ Len(BigSize_write(v)) \in Nat /\ Len(BigSize_write(v)) >= 1
  <1>1. /\ U16 \in Nat /\ U32 \in Nat /\ U64 \in Nat
    BY Widths
  <1>2. \/ v \in Byte /\ BigSize_write(v) = <<v>>
        \/ v \in Nat /\ BigSize_write(v) = <<Base - 3>> \o to_be_bytes(U16, v)
        \/ v \in Nat /\ BigSize_write(v) = <<Base - 2>> \o to_be_bytes(U32, v)
        \/ v \in Nat /\ BigSize_write(v) = <<Base - 1>> \o to_be_bytes(U64, v)
    BY BigSizeForm
  <1>3. CASE v \in Byte /\ BigSize_write(v) = <<v>>
    BY <1>3, OneByte
  <1>4. CASE v \in Nat /\ BigSize_write(v) = <<Base - 3>> \o to_be_bytes(U16, v)
    <2>1. Len(BigSize_write(v)) = U16 + 1 /\ BigSize_write(v) \in Str
      BY <1>4, PrefixBytes, Prefixed, Zenon
    <2>2. QED
      BY <1>1, <2>1
  <1>5. CASE v \in Nat /\ BigSize_write(v) = <<Base - 2>> \o to_be_bytes(U32, v)
    <2>1. Len(BigSize_write(v)) = U32 + 1 /\ BigSize_write(v) \in Str
      BY <1>5, PrefixBytes, Prefixed, Zenon
    <2>2. QED
      BY <1>1, <2>1
  <1>6. CASE v \in Nat /\ BigSize_write(v) = <<Base - 1>> \o to_be_bytes(U64, v)
    <2>1. Len(BigSize_write(v)) = U64 + 1 /\ BigSize_write(v) \in Str
      BY <1>6, PrefixBytes, Prefixed, Zenon
    <2>2. QED
      BY <1>1, <2>1
  <1>7. QED
    BY <1>2, <1>3, <1>4, <1>5, <1>6

\* A smaller number is not written in more bytes.
LEMMA BigSizeMonotonic ==
  ASSUME NEW u \in Uint(U64), NEW v \in Uint(U64), u <= v
  PROVE  Len(BigSize_write(u)) <= Len(BigSize_write(v))
  <1> DEFINE Size(n) == IF n < Base - 3 THEN 1 ELSE IF n < pow[U16] THEN U16 + 1
                        ELSE IF n < pow[U32] THEN U32 + 1 ELSE U64 + 1
  <1>1. ASSUME NEW n \in Uint(U64)
        PROVE  Len(BigSize_write(n)) = Size(n)
    <2>0. /\ Base \in Nat /\ Base >= 4 /\ pow[U16] \in Nat /\ pow[U32] \in Nat /\ n \in Nat
          /\ Base < pow[U16] /\ pow[U16] < pow[U32]
      BY Widths, BigSizeForm
    <2>1. CASE n < Base - 3 /\ n \in Byte /\ BigSize_write(n) = <<n>>
      BY <2>1
    <2>2. CASE /\ ~(n < Base - 3) /\ n < pow[U16]
               /\ BigSize_write(n) = <<Base - 3>> \o to_be_bytes(U16, n)
      <3>1. Len(BigSize_write(n)) = U16 + 1
        BY <2>0, <2>2, PrefixBytes, Prefixed, Zenon
      <3>2. QED
        BY <2>2, <3>1
    <2>3. CASE /\ ~(n < pow[U16]) /\ n < pow[U32]
               /\ BigSize_write(n) = <<Base - 2>> \o to_be_bytes(U32, n)
      <3>1. ~(n < Base - 3)
        BY <2>0, <2>3
      <3>2. Len(BigSize_write(n)) = U32 + 1
        BY <2>0, <2>3, PrefixBytes, Prefixed, Zenon
      <3>3. QED
        BY <2>3, <3>1, <3>2
    <2>4. CASE /\ ~(n < pow[U32])
               /\ BigSize_write(n) = <<Base - 1>> \o to_be_bytes(U64, n)
      <3>1. ~(n < Base - 3) /\ ~(n < pow[U16])
        BY <2>0, <2>4
      <3>2. Len(BigSize_write(n)) = U64 + 1
        BY <2>0, <2>4, PrefixBytes, Prefixed, Zenon
      <3>3. QED
        BY <2>4, <3>1, <3>2
    <2>5. QED
      BY <2>1, <2>2, <2>3, <2>4, BigSizeForm
  <1>2. Size(u) <= Size(v)
    <2>1. /\ u \in Nat /\ v \in Nat /\ Base \in Nat /\ pow[U16] \in Nat /\ pow[U32] \in Nat
          /\ Base < pow[U16] /\ pow[U16] < pow[U32] /\ Base >= 4
          /\ U16 \in Nat /\ U32 \in Nat /\ U64 \in Nat /\ 1 < U16 /\ U16 < U32 /\ U32 < U64
      BY Widths, BigSizeForm
    <2>2. QED
      BY <2>1
  <1>3. QED
    BY <1>1, <1>2

\* BigSize_read gives back what BigSize_write wrote, whatever follows (wire.rs, impl WireFormat for
\* BigSize).
THEOREM BigSizeOf ==
  ASSUME NEW v \in Uint(U64), NEW y \in Str
  PROVE  BigSize_read(BigSize_write(v) \o y) = Ok(v, y)
  <1>0. Base \in Nat /\ Base >= 4 /\ v \in Nat /\ Base < pow[U16] /\ pow[U16] \in Nat
    BY Widths, BigSizeForm
  <1>1. CASE v < Base - 3 /\ v \in Byte /\ BigSize_write(v) = <<v>>
    <2>1. 1 \in 0..U64
      BY Widths
    <2>2. read_int(1, <<v>> \o y) = Ok(v, y)
      <3>1. read_int(1, to_be_bytes(1, v) \o y) = Ok(v, y) /\ to_be_bytes(1, v) = <<v>>
        BY <1>1, <2>1, OneByte, ReadIntOf
      <3>2. QED
        BY <3>1
    <2>3. QED
      BY <1>1, <2>2, BigSizeBy
  <1>2. CASE /\ ~(v < Base - 3) /\ v < pow[U16] /\ v \in Uint(U16)
             /\ BigSize_write(v) = <<Base - 3>> \o to_be_bytes(U16, v)
    <2> DEFINE z == to_be_bytes(U16, v) \o y
    <2>1. /\ read_int(1, <<Base - 3>> \o z) = Ok(Base - 3, z)
          /\ BigSize_write(v) \o y = <<Base - 3>> \o z
      <3>1. v \in Nat /\ Base - 3 \in Byte /\ U16 \in 0..U64
        BY <1>0, PrefixBytes
      <3>2. /\ read_int(1, <<Base - 3>> \o z) = Ok(Base - 3, z)
            /\ (<<Base - 3>> \o to_be_bytes(U16, v)) \o y = <<Base - 3>> \o z
        BY <3>1, ReadPrefix
      <3>3. QED
        BY <1>2, <3>2
    <2>2. read_minimal(U16, Base - 3, z) = Ok(v, y)
      <3>1. read_int(U16, z) = Ok(v, y)
        BY <1>2, PrefixBytes, ReadIntOf
      <3>2. read_minimal(U16, Base - 3, z) = IF v < Base - 3 THEN Err("BigSizeNotMinimal") ELSE Ok(v, y)
        BY <3>1, MinimalBy
      <3>3. QED
        BY <1>2, <3>2
    <2> HIDE DEF z
    <2>3. ~(Base - 3 < Base - 3)
      BY <1>0
    <2>4. QED
      BY <2>1, <2>2, <2>3, PrefixBytes, BigSizeBy
  <1>3. CASE /\ ~(v < pow[U16]) /\ v < pow[U32] /\ v \in Uint(U32)
             /\ BigSize_write(v) = <<Base - 2>> \o to_be_bytes(U32, v)
    <2> DEFINE z == to_be_bytes(U32, v) \o y
    <2>1. /\ read_int(1, <<Base - 2>> \o z) = Ok(Base - 2, z)
          /\ BigSize_write(v) \o y = <<Base - 2>> \o z
      <3>1. v \in Nat /\ Base - 2 \in Byte /\ U32 \in 0..U64
        BY <1>0, PrefixBytes
      <3>2. /\ read_int(1, <<Base - 2>> \o z) = Ok(Base - 2, z)
            /\ (<<Base - 2>> \o to_be_bytes(U32, v)) \o y = <<Base - 2>> \o z
        BY <3>1, ReadPrefix
      <3>3. QED
        BY <1>3, <3>2
    <2>2. read_minimal(U32, pow[U16], z) = Ok(v, y)
      <3>1. read_int(U32, z) = Ok(v, y)
        BY <1>3, PrefixBytes, ReadIntOf
      <3>2. read_minimal(U32, pow[U16], z) = IF v < pow[U16] THEN Err("BigSizeNotMinimal") ELSE Ok(v, y)
        BY <3>1, MinimalBy
      <3>3. QED
        BY <1>3, <3>2
    <2> HIDE DEF z
    <2>3. ~(Base - 2 < Base - 3) /\ Base - 2 # Base - 3
      BY <1>0
    <2>4. QED
      BY <2>1, <2>2, <2>3, PrefixBytes, BigSizeBy
  <1>4. CASE /\ ~(v < pow[U32])
             /\ BigSize_write(v) = <<Base - 1>> \o to_be_bytes(U64, v)
    <2> DEFINE z == to_be_bytes(U64, v) \o y
    <2>1. /\ read_int(1, <<Base - 1>> \o z) = Ok(Base - 1, z)
          /\ BigSize_write(v) \o y = <<Base - 1>> \o z
      <3>1. v \in Nat /\ Base - 1 \in Byte /\ U64 \in 0..U64
        BY <1>0, PrefixBytes
      <3>2. /\ read_int(1, <<Base - 1>> \o z) = Ok(Base - 1, z)
            /\ (<<Base - 1>> \o to_be_bytes(U64, v)) \o y = <<Base - 1>> \o z
        BY <3>1, ReadPrefix
      <3>3. QED
        BY <1>4, <3>2
    <2>2. read_minimal(U64, pow[U32], z) = Ok(v, y)
      <3>1. read_int(U64, z) = Ok(v, y)
        BY <1>4, PrefixBytes, ReadIntOf
      <3>2. read_minimal(U64, pow[U32], z) = IF v < pow[U32] THEN Err("BigSizeNotMinimal") ELSE Ok(v, y)
        BY <3>1, MinimalBy
      <3>3. QED
        BY <1>4, <3>2
    <2> HIDE DEF z
    <2>3. ~(Base - 1 < Base - 3) /\ Base - 1 # Base - 3 /\ Base - 1 # Base - 2
      BY <1>0
    <2>4. QED
      BY <2>1, <2>2, <2>3, PrefixBytes, BigSizeBy
  <1>5. QED
    BY <1>1, <1>2, <1>3, <1>4, BigSizeForm

\* BigSize_read accepts only what BigSize_write writes: an encoding that is not the shortest is an
\* error.
THEOREM BigSizeIs ==
  ASSUME NEW d \in Str, Good(BigSize_read(d))
  PROVE  \E v \in Uint(U64), y \in Str : d = BigSize_write(v) \o y /\ BigSize_read(d) = Ok(v, y)
  <1> DEFINE r == read_int(1, d)
  <1>0. /\ Base \in Nat /\ Base >= 4 /\ Base < pow[U16] /\ pow[U16] < pow[U32]
        /\ pow[U32] < pow[U64]
        /\ pow[U16] \in Nat /\ pow[U32] \in Nat /\ pow[U64] \in Nat /\ pow[1] = Base
        /\ 1 \in 0..U64 /\ U16 \in 0..U64 /\ U32 \in 0..U64 /\ U64 \in 0..U64
    BY Widths
  <1>1. Good(r)
    <2> DEFINE o == OrErr(r, "BigSizeTruncated")
               k == CASE o.val < Base - 3  -> o
                      [] o.val = Base - 3  -> read_minimal(U16, Base - 3, o.rest)
                      [] o.val = Base - 2  -> read_minimal(U32, pow[U16], o.rest)
                      [] o.val = Base - 1  -> read_minimal(U64, pow[U32], o.rest)
    <2>1. BigSize_read(d) = IF o.err # "" THEN o ELSE k
      BY DEF BigSize_read, AndThen
    <2>2. o = IF r.err # "" THEN Err("BigSizeTruncated") ELSE r
      BY DEF OrErr
    <2> HIDE DEF r, o, k
    <2>3. Good(o)
      BY <2>1 DEF Good
    <2>4. QED
      BY <2>2, <2>3, ErrIs DEF Good
  <1>2. PICK p \in Uint(1), z \in Str : d = to_be_bytes(1, p) \o z /\ r = Ok(p, z)
    BY <1>0, <1>1, ReadIntIs
  <1>3. p \in Byte /\ d = <<p>> \o z /\ <<p>> \in Str
    <2>1. p \in Byte
      BY <1>0 DEF Uint, Byte
    <2>2. QED
      BY <1>2, <2>1, OneByte
  <1>4. BigSize_read(d)
          = IF p < Base - 3 THEN Ok(p, z)
            ELSE IF p = Base - 3 THEN read_minimal(U16, Base - 3, z)
            ELSE IF p = Base - 2 THEN read_minimal(U32, pow[U16], z)
            ELSE read_minimal(U64, pow[U32], z)
    BY <1>2, <1>3, BigSizeBy
  <1>5. p \in Nat /\ (p < Base - 3 \/ p = Base - 3 \/ p = Base - 2 \/ p = Base - 1)
    BY <1>0, <1>3 DEF Byte
  <1> HIDE DEF r
  <1>6. CASE p < Base - 3
    <2>1. p \in Uint(U64) /\ ~(Base - 3 <= p) /\ ~(pow[U16] <= p) /\ ~(pow[U32] <= p)
      BY <1>0, <1>5, <1>6 DEF Uint
    <2>2. BigSize_write(p) = <<p>>
      <3>1. BigSize_write(p) = to_be_bytes(1, p)
        BY <1>6, <2>1 DEF BigSize_write
      <3>2. QED
        BY <1>3, <3>1, OneByte
    <2>3. QED
      BY <1>3, <1>4, <1>6, <2>1, <2>2
  <1>7. CASE p = Base - 3
    <2>1. BigSize_read(d) = read_minimal(U16, Base - 3, z) /\ Good(read_minimal(U16, Base - 3, z))
      <3>1. BigSize_read(d) = read_minimal(U16, Base - 3, z)
        BY <1>0, <1>4, <1>7
      <3>2. QED
        BY <3>1, Zenon
    <2>2. PICK v \in Uint(U16), y \in Str :
            /\ ~(v < Base - 3) /\ z = to_be_bytes(U16, v) \o y
            /\ read_minimal(U16, Base - 3, z) = Ok(v, y)
      <3> DEFINE least == Base - 3
      <3>1. U16 \in 0..U64 /\ z \in Str /\ Good(read_minimal(U16, least, z))
        BY <1>0, <2>1
      <3> HIDE DEF least
      <3>2. \E v \in Uint(U16), y \in Str :
              /\ ~(v < least) /\ z = to_be_bytes(U16, v) \o y
              /\ read_minimal(U16, least, z) = Ok(v, y)
        BY <3>1, MinimalIs, Zenon
      <3>3. QED
        BY <3>2 DEF least
    <2>3. v \in Nat /\ v \in Uint(U64) /\ ~(v < Base - 3) /\ v < pow[U16]
      BY <1>0, <2>2 DEF Uint
    <2>4. BigSize_write(v) = <<Base - 3>> \o to_be_bytes(U16, v)
      BY <1>0, <2>3, BigSizeForm, SMTT(30)
    <2>5. (<<Base - 3>> \o to_be_bytes(U16, v)) \o y = <<Base - 3>> \o (to_be_bytes(U16, v) \o y)
      BY <2>3, PrefixBytes, ReadPrefix, Zenon
    <2>6. d = BigSize_write(v) \o y
      BY <1>3, <1>7, <2>2, <2>4, <2>5
    <2>7. QED
      BY <2>1, <2>2, <2>3, <2>6
  <1>8. CASE p = Base - 2
    <2>1. BigSize_read(d) = read_minimal(U32, pow[U16], z) /\ Good(read_minimal(U32, pow[U16], z))
      <3>1. BigSize_read(d) = read_minimal(U32, pow[U16], z)
        BY <1>0, <1>4, <1>8
      <3>2. QED
        BY <3>1, Zenon
    <2>2. PICK v \in Uint(U32), y \in Str :
            /\ ~(v < pow[U16]) /\ z = to_be_bytes(U32, v) \o y
            /\ read_minimal(U32, pow[U16], z) = Ok(v, y)
      BY <1>0, <2>1, MinimalIs, Zenon
    <2>3. v \in Nat /\ v \in Uint(U64) /\ ~(v < pow[U16]) /\ v < pow[U32] /\ ~(v < Base - 3)
      BY <1>0, <2>2 DEF Uint
    <2>4. BigSize_write(v) = <<Base - 2>> \o to_be_bytes(U32, v)
      BY <1>0, <2>3, BigSizeForm
    <2>5. (<<Base - 2>> \o to_be_bytes(U32, v)) \o y = <<Base - 2>> \o (to_be_bytes(U32, v) \o y)
      BY <2>3, PrefixBytes, ReadPrefix, Zenon
    <2>6. d = BigSize_write(v) \o y
      BY <1>3, <1>8, <2>2, <2>4, <2>5
    <2>7. QED
      BY <2>1, <2>2, <2>3, <2>6
  <1>9. CASE p = Base - 1
    <2>1. BigSize_read(d) = read_minimal(U64, pow[U32], z) /\ Good(read_minimal(U64, pow[U32], z))
      <3>1. BigSize_read(d) = read_minimal(U64, pow[U32], z)
        BY <1>0, <1>4, <1>9
      <3>2. QED
        BY <3>1, Zenon
    <2>2. PICK v \in Uint(U64), y \in Str :
            /\ ~(v < pow[U32]) /\ z = to_be_bytes(U64, v) \o y
            /\ read_minimal(U64, pow[U32], z) = Ok(v, y)
      BY <1>0, <2>1, MinimalIs, Zenon
    <2>3. v \in Nat /\ ~(v < pow[U16]) /\ ~(v < pow[U32]) /\ ~(v < Base - 3)
      BY <1>0, <2>2 DEF Uint
    <2>4. BigSize_write(v) = <<Base - 1>> \o to_be_bytes(U64, v)
      BY <1>0, <2>3, BigSizeForm
    <2>5. (<<Base - 1>> \o to_be_bytes(U64, v)) \o y = <<Base - 1>> \o (to_be_bytes(U64, v) \o y)
      BY <2>3, PrefixBytes, ReadPrefix, Zenon
    <2>6. d = BigSize_write(v) \o y
      BY <1>3, <1>9, <2>2, <2>4, <2>5
    <2>7. QED
      BY <2>1, <2>2, <2>6
  <1>10. QED
    BY <1>5, <1>6, <1>7, <1>8, <1>9

------------------------------------------------------------------------------
(* Strings put together from n parts.                                       *)

\* g gives what the first i parts make.
IsFlat(g, s, n) ==
  /\ g \in [0..n -> Str] /\ g[0] = <<>>
  /\ \A i \in 1..n : g[i] = g[i - 1] \o s[i]

\* FlattenSeq by the partial concatenations.
LEMMA FlatBy ==
  ASSUME NEW n \in Nat, NEW s \in [1..n -> Str], NEW g, IsFlat(g, s, n)
  PROVE  FlattenSeq(s) = g[n]
  <1>1. s \in Seq(Str) /\ Len(s) = n
    BY FunctionIsSeq
  <1>2. CASE n = 0
    <2>1. FlattenSeq(s) = s
      BY <1>1, <1>2 DEF FlattenSeq
    <2>2. s = <<>>
      BY <1>1, <1>2, EmptySeq
    <2>3. QED
      BY <1>2, <2>1, <2>2 DEF IsFlat
  <1>3. CASE n > 0
    <2> DEFINE Eq(f) == f = [i \in 1..n |-> IF i = 1 THEN s[i] ELSE f[i - 1] \o s[i]]
               V == CHOOSE f : Eq(f)
               G == [i \in 1..n |-> g[i]]
               T == {i \in 0..n : i = 0 \/ V[i] = g[i]}
    <2>1. FlattenSeq(s) = V[n]
      <3>1. FlattenSeq(s)
              = IF Len(s) = 0 THEN s
                ELSE (CHOOSE f : f = [i \in 1..Len(s) |-> IF i = 1 THEN s[i] ELSE f[i - 1] \o s[i]])[Len(s)]
        BY Zenon DEF FlattenSeq
      <3>2. ~(Len(s) = 0)
        BY <1>1, <1>3
      <3>3. FlattenSeq(s)
              = (CHOOSE f : f = [i \in 1..Len(s) |-> IF i = 1 THEN s[i] ELSE f[i - 1] \o s[i]])[Len(s)]
        BY <3>1, <3>2, Zenon
      <3>4. QED
        BY <1>1, <3>3, Zenon
    <2>2. Eq(G)
      <3>1. ASSUME NEW i \in 1..n
            PROVE  G[i] = IF i = 1 THEN s[i] ELSE G[i - 1] \o s[i]
        <4>1. CASE i = 1
          <5>1. g[1] = g[0] \o s[1] /\ g[0] = <<>> /\ s[1] \in Str
            <6>1. 1 \in 1..n /\ 1 - 1 = 0
              BY <1>3
            <6>2. QED
              BY <6>1 DEF IsFlat
          <5>2. QED
            BY <4>1, <5>1, StrEmpty
        <4>2. CASE i # 1
          <5>1. i - 1 \in 1..n
            BY <4>2
          <5>2. QED
            BY <4>2, <5>1 DEF IsFlat
        <4>3. QED
          BY <4>1, <4>2
      <3>2. QED
        BY <3>1
    <2> HIDE DEF G
    <2>3. Eq(V)
      <3> HIDE DEF Eq
      <3>1. QED
        BY <2>2
    <2>4. \A i \in 1..n : V[i] = IF i = 1 THEN s[i] ELSE V[i - 1] \o s[i]
      <3> HIDE DEF V
      <3>1. QED
        BY <2>3
    <2> HIDE DEF V, Eq
    <2>5. 0 \in T
      OBVIOUS
    <2>6. ASSUME NEW i \in 0..(n - 1), i \in T
          PROVE  i + 1 \in T
      <3>1. i + 1 \in 1..n /\ i + 1 \in 0..n /\ (i + 1) - 1 = i
        OBVIOUS
      <3>2. g[i + 1] = g[i] \o s[i + 1]
        BY <3>1 DEF IsFlat
      <3>3. CASE i = 0
        <4>1. g[0] = <<>> /\ s[1] \in Str
          BY <1>3 DEF IsFlat
        <4>2. QED
          BY <2>4, <3>1, <3>2, <3>3, <4>1, StrEmpty
      <3>4. CASE i # 0
        <4>1. V[i] = g[i] /\ i + 1 # 1
          BY <2>6, <3>4
        <4>2. QED
          BY <2>4, <3>1, <3>2, <4>1
      <3>5. QED
        BY <3>3, <3>4
    <2> HIDE DEF T
    <2>7. \A i \in 0..n : i \in T
      BY <2>5, <2>6, Induction
    <2>8. n \in T
      BY <2>7
    <2>9. QED
      BY <1>3, <2>1, <2>8 DEF T
  <1>4. QED
    BY <1>2, <1>3

\* FlattenSeq of byte strings is a byte string.
LEMMA FlatIs ==
  ASSUME NEW n \in Nat, NEW s \in [1..n -> Str]
  PROVE  FlattenSeq(s) \in Str /\ \E g : IsFlat(g, s, n) /\ FlattenSeq(s) = g[n]
  <1> DEFINE F == [p \in (1..n) \X Str |-> p[2] \o s[p[1]]]
  <1>1. IsStep(F, n, Str)
    <2>1. ASSUME NEW i \in 1..n, NEW x \in Str
          PROVE  x \o s[i] \in Str
      BY StrConcat
    <2>2. QED
      BY <2>1 DEF IsStep
  <1>2. \A i \in 1..n, x \in Str : F[<<i, x>>] = x \o s[i]
    OBVIOUS
  <1> HIDE DEF F
  <1>3. PICK g : Follows(g, F, n, Str, <<>>)
    BY <1>1, StrEmpty, Recursion
  <1>4. g \in [0..n -> Str] /\ g[0] = <<>> /\ \A i \in 1..n : g[i] = F[<<i, g[i - 1]>>]
    BY <1>3 DEF Follows
  <1>5. \A i \in 1..n : g[i] = g[i - 1] \o s[i]
    <2>1. \A i \in 1..n : i - 1 \in 0..n
      OBVIOUS
    <2>2. QED
      BY <1>2, <1>4, <2>1
  <1>6. IsFlat(g, s, n)
    BY <1>4, <1>5 DEF IsFlat
  <1>7. FlattenSeq(s) = g[n]
    BY <1>6, FlatBy
  <1>8. QED
    BY <1>4, <1>6, <1>7

\* h gives what is left after the first i parts.
IsChain(h, s, n) ==
  h \in [0..n -> Str] /\ \A i \in 1..n : h[i - 1] = s[i] \o h[i]

\* What is left after the parts of a chain.
LEMMA FlatChain ==
  ASSUME NEW n \in Nat, NEW s \in [1..n -> Str], NEW h, IsChain(h, s, n)
  PROVE  h[0] = FlattenSeq(s) \o h[n]
  <1>1. PICK g : IsFlat(g, s, n) /\ FlattenSeq(s) = g[n]
    BY FlatIs
  <1>2. /\ g \in [0..n -> Str] /\ g[0] = <<>> /\ \A i \in 1..n : g[i] = g[i - 1] \o s[i]
        /\ h \in [0..n -> Str] /\ \A i \in 1..n : h[i - 1] = s[i] \o h[i]
    BY <1>1 DEF IsFlat, IsChain
  <1> DEFINE T == {i \in 0..n : h[0] = g[i] \o h[i]}
  <1>3. 0 \in T
    <2>1. 0 \in 0..n
      OBVIOUS
    <2>2. h[0] \in Str
      BY <1>2, <2>1
    <2>3. <<>> \o h[0] = h[0]
      BY <2>2, StrEmpty
    <2>4. h[0] = g[0] \o h[0]
      BY <1>2, <2>3
    <2>5. QED
      BY <2>1, <2>4
  <1>4. ASSUME NEW i \in 0..(n - 1), i \in T
        PROVE  i + 1 \in T
    <2>1. i + 1 \in 1..n /\ i + 1 \in 0..n /\ i \in 0..n /\ (i + 1) - 1 = i
      OBVIOUS
    <2>2. g[i + 1] = g[i] \o s[i + 1] /\ h[i] = s[i + 1] \o h[i + 1]
      BY <1>2, <2>1
    <2>3. g[i] \in Str /\ s[i + 1] \in Str /\ h[i + 1] \in Str
      BY <1>2, <2>1
    <2>4. (g[i] \o s[i + 1]) \o h[i + 1] = g[i] \o (s[i + 1] \o h[i + 1])
      BY <2>3, StrAssoc, Zenon
    <2>5. h[0] = g[i + 1] \o h[i + 1]
      BY <1>4, <2>2, <2>4
    <2>6. QED
      BY <2>1, <2>5
  <1> HIDE DEF T
  <1>5. \A i \in 0..n : i \in T
    BY <1>3, <1>4, Induction
  <1>6. n \in T
    BY <1>5
  <1>7. QED
    BY <1>1, <1>6 DEF T

\* Every tail has a chain of remainders in front of it.
LEMMA ChainExists ==
  ASSUME NEW n \in Nat, NEW s \in [1..n -> Str], NEW tail \in Str
  PROVE  \E h : IsChain(h, s, n) /\ h[n] = tail /\ h[0] = FlattenSeq(s) \o tail
  <1> DEFINE F == [p \in (1..n) \X Str |-> s[(n - p[1]) + 1] \o p[2]]
  <1>0. \A i \in 1..n : (n - i) + 1 \in 1..n /\ i - 1 \in 0..n
    OBVIOUS
  <1>1. IsStep(F, n, Str)
    <2>1. ASSUME NEW i \in 1..n, NEW x \in Str
          PROVE  s[(n - i) + 1] \o x \in Str
      BY <1>0, StrConcat
    <2>2. QED
      BY <2>1 DEF IsStep
  <1>2. \A i \in 1..n, x \in Str : F[<<i, x>>] = s[(n - i) + 1] \o x
    OBVIOUS
  <1> HIDE DEF F
  <1>3. PICK k : Follows(k, F, n, Str, tail)
    BY <1>1, Recursion
  <1>4. k \in [0..n -> Str] /\ k[0] = tail /\ \A i \in 1..n : k[i] = F[<<i, k[i - 1]>>]
    BY <1>3 DEF Follows
  <1>5. \A i \in 1..n : k[i] = s[(n - i) + 1] \o k[i - 1]
    BY <1>0, <1>2, <1>4
  <1> DEFINE h == [i \in 0..n |-> k[n - i]]
  <1>6. IsChain(h, s, n) /\ h[n] = tail
    <2>1. \A i \in 0..n : n - i \in 0..n
      OBVIOUS
    <2>2. h \in [0..n -> Str]
      BY <1>4, <2>1
    <2>3. h[n] = tail
      <3>1. n - n = 0 /\ n \in 0..n
        OBVIOUS
      <3>2. QED
        BY <1>4, <3>1
    <2>4. ASSUME NEW i \in 1..n
          PROVE  h[i - 1] = s[i] \o h[i]
      <3>1. /\ i - 1 \in 0..n /\ i \in 0..n /\ (n - i) + 1 \in 1..n
            /\ n - (i - 1) = (n - i) + 1 /\ (n - ((n - i) + 1)) + 1 = i
            /\ ((n - i) + 1) - 1 = n - i
        OBVIOUS
      <3>2. k[(n - i) + 1] = s[i] \o k[n - i]
        BY <1>5, <3>1
      <3>3. QED
        BY <3>1, <3>2
    <2> HIDE DEF h
    <2>5. QED
      BY <2>2, <2>3, <2>4 DEF IsChain
  <1> HIDE DEF h
  <1>7. h[0] = FlattenSeq(s) \o h[n]
    BY <1>6, FlatChain
  <1>8. QED
    BY <1>6, <1>7

\* FlattenSeq of a sequence that is cut in two.
LEMMA FlatSplit ==
  ASSUME NEW n \in Nat, NEW s \in [1..n -> Str], NEW k \in 0..n
  PROVE  FlattenSeq(s) = FlattenSeq([i \in 1..k |-> s[i]])
                           \o FlattenSeq([i \in 1..(n - k) |-> s[i + k]])
  <1> DEFINE a == [i \in 1..k |-> s[i]]
             m == n - k
             b == [i \in 1..m |-> s[i + k]]
  <1>1. k \in Nat /\ m \in Nat /\ a \in [1..k -> Str] /\ b \in [1..m -> Str]
    <2>1. k \in Nat /\ m \in Nat /\ (\A i \in 1..k : i \in 1..n) /\ (\A i \in 1..m : i + k \in 1..n)
      OBVIOUS
    <2>2. QED
      BY <2>1
  <1>2. PICK h : IsChain(h, s, n) /\ h[n] = <<>> /\ h[0] = FlattenSeq(s) \o <<>>
    BY ChainExists, StrEmpty
  <1>3. h \in [0..n -> Str] /\ \A i \in 1..n : h[i - 1] = s[i] \o h[i]
    BY <1>2 DEF IsChain
  <1>4. h[0] = FlattenSeq(s)
    BY <1>2, FlatIs, StrEmpty
  <1>5. h[0] = FlattenSeq(a) \o h[k]
    <2> DEFINE p == [i \in 0..k |-> h[i]]
    <2>1. IsChain(p, a, k)
      <3>1. (\A i \in 0..k : i \in 0..n) /\ (\A i \in 1..k : i \in 1..n /\ i \in 0..k /\ i - 1 \in 0..k)
        OBVIOUS
      <3>2. QED
        BY <1>3, <3>1 DEF IsChain
    <2>2. p[0] = h[0] /\ p[k] = h[k]
      BY <1>1
    <2> HIDE DEF p, a, b
    <2>3. QED
      BY <1>1, <2>1, <2>2, FlatChain
  <1>6. h[k] = FlattenSeq(b)
    <2> DEFINE p == [i \in 0..m |-> h[i + k]]
    <2>1. IsChain(p, b, m)
      <3>1. /\ \A i \in 0..m : i + k \in 0..n
            /\ \A i \in 1..m : /\ i + k \in 1..n /\ i \in 0..m /\ i - 1 \in 0..m
                               /\ (i + k) - 1 = (i - 1) + k
        OBVIOUS
      <3>2. \A i \in 1..m : h[(i - 1) + k] = s[i + k] \o h[i + k]
        BY <1>3, <3>1
      <3>3. p \in [0..m -> Str]
        BY <1>3, <3>1
      <3>4. QED
        BY <3>1, <3>2, <3>3 DEF IsChain
    <2>2. p[0] = h[k] /\ p[m] = <<>>
      <3>1. 0 \in 0..m /\ m \in 0..m /\ 0 + k = k /\ m + k = n
        BY <1>1
      <3>2. QED
        BY <1>2, <3>1
    <2>3. b \in [1..m -> Str] /\ m \in Nat
      BY <1>1
    <2> HIDE DEF p, a, b, m
    <2>4. h[k] = FlattenSeq(b) \o <<>>
      BY <2>1, <2>2, <2>3, FlatChain
    <2>5. FlattenSeq(b) \in Str
      BY <2>3, FlatIs
    <2>6. QED
      BY <2>4, <2>5, StrEmpty
  <1> HIDE DEF a, b
  <1>7. FlattenSeq(s) = FlattenSeq(a) \o FlattenSeq(b)
    BY <1>4, <1>5, <1>6
  <1>8. QED
    BY <1>7 DEF a, b

\* FlattenSeq of one string.
LEMMA FlatOne ==
  ASSUME NEW x \in Str
  PROVE  FlattenSeq(<<x>>) = x
  <1> DEFINE s == [i \in 1..1 |-> x]
             g == [i \in 0..1 |-> IF i = 0 THEN <<>> ELSE x]
  <1>1. s = <<x>>
    OBVIOUS
  <1>2. s \in [1..1 -> Str] /\ g \in [0..1 -> Str] /\ g[0] = <<>> /\ g[1] = x /\ s[1] = x
    BY StrEmpty
  <1>3. \A i \in 1..1 : i = 1 /\ i - 1 = 0
    OBVIOUS
  <1> HIDE DEF s, g
  <1>4. \A i \in 1..1 : g[i] = g[i - 1] \o s[i]
    BY <1>2, <1>3, StrEmpty
  <1>5. IsFlat(g, s, 1)
    BY <1>2, <1>4 DEF IsFlat
  <1>6. FlattenSeq(s) = x
    BY <1>2, <1>5, FlatBy
  <1>7. QED
    BY <1>1, <1>6

\* FlattenSeq of no string.
LEMMA FlatEmpty == FlattenSeq(<<>>) = <<>>
  BY DEF FlattenSeq

\* The last part.
LEMMA FlatLast ==
  ASSUME NEW n \in Nat, n > 0, NEW s \in [1..n -> Str]
  PROVE  FlattenSeq(s) = FlattenSeq([i \in 1..(n - 1) |-> s[i]]) \o s[n]
  <1>1. n - 1 \in 0..n /\ n - (n - 1) = 1 /\ n \in 1..n /\ 1 + (n - 1) = n
    OBVIOUS
  <1>2. FlattenSeq(s) = FlattenSeq([i \in 1..(n - 1) |-> s[i]])
                          \o FlattenSeq([i \in 1..(n - (n - 1)) |-> s[i + (n - 1)]])
    BY <1>1, FlatSplit
  <1>3. [i \in 1..(n - (n - 1)) |-> s[i + (n - 1)]] = <<s[n]>>
    BY <1>1
  <1>4. s[n] \in Str
    BY <1>1
  <1>5. FlattenSeq(<<s[n]>>) = s[n]
    BY <1>4, FlatOne
  <1>6. QED
    BY <1>2, <1>3, <1>5

\* Parts of m bytes each.
LEMMA FlatLen ==
  ASSUME NEW n \in Nat, NEW m \in Nat, NEW s \in [1..n -> Str], \A i \in 1..n : Len(s[i]) = m
  PROVE  Len(FlattenSeq(s)) = n * m
  <1>1. PICK g : IsFlat(g, s, n) /\ FlattenSeq(s) = g[n]
    BY FlatIs
  <1>2. g \in [0..n -> Str] /\ g[0] = <<>> /\ \A i \in 1..n : g[i] = g[i - 1] \o s[i]
    BY <1>1 DEF IsFlat
  <1> DEFINE T == {i \in 0..n : Len(g[i]) = i * m}
  <1>3. 0 \in T
    <2>1. 0 * m = 0 /\ 0 \in 0..n
      OBVIOUS
    <2>2. QED
      BY <1>2, <2>1, StrEmpty
  <1>4. ASSUME NEW i \in 0..(n - 1), i \in T
        PROVE  i + 1 \in T
    <2>1. i + 1 \in 1..n /\ i + 1 \in 0..n /\ i \in 0..n /\ (i + 1) - 1 = i /\ i \in Nat
      OBVIOUS
    <2>2. Len(g[i + 1]) = Len(g[i]) + m
      <3>1. g[i] \in Str /\ s[i + 1] \in Str /\ Len(s[i + 1]) = m /\ g[i + 1] = g[i] \o s[i + 1]
        BY <1>2, <2>1
      <3>2. QED
        BY <3>1, StrConcat
    <2>3. \A j \in Nat : (j + 1) * m = (j * m) + m
      OBVIOUS
    <2>4. Len(g[i]) = i * m
      BY <1>4
    <2>5. QED
      BY <2>1, <2>2, <2>3, <2>4
  <1> HIDE DEF T
  <1>5. \A i \in 0..n : i \in T
    BY <1>3, <1>4, Induction
  <1>6. n \in T
    BY <1>5
  <1>7. QED
    BY <1>1, <1>6 DEF T

\* A part of equally long parts is found at its place.
LEMMA FlatChunk ==
  ASSUME NEW n \in Nat, NEW m \in Nat, NEW s \in [1..n -> Str], \A i \in 1..n : Len(s[i]) = m,
         NEW k \in 1..n
  PROVE  SubSeq(FlattenSeq(s), (k - 1) * m + 1, k * m) = s[k]
  <1> DEFINE j == k - 1
             a == [i \in 1..j |-> s[i]]
             l == n - j
             b == [i \in 1..l |-> s[i + j]]
             c == [i \in 1..(l - 1) |-> b[i + 1]]
  <1>1. j \in 0..n /\ j \in Nat /\ l \in Nat /\ l - 1 \in Nat /\ 1 \in 0..l /\ 1 + j = k /\ 1 \in 1..l
    OBVIOUS
  <1>2. a \in [1..j -> Str] /\ \A i \in 1..j : Len(a[i]) = m
    <2>1. \A i \in 1..j : i \in 1..n
      OBVIOUS
    <2>2. QED
      BY <2>1
  <1>3. b \in [1..l -> Str] /\ b[1] = s[k]
    <2>1. \A i \in 1..l : i + j \in 1..n
      OBVIOUS
    <2>2. QED
      BY <1>1, <2>1
  <1>4. c \in [1..(l - 1) -> Str]
    <2>1. \A i \in 1..(l - 1) : i + 1 \in 1..l
      OBVIOUS
    <2> HIDE DEF b, l
    <2>2. QED
      BY <1>3, <2>1
  <1>5. FlattenSeq(s) = FlattenSeq(a) \o FlattenSeq(b)
    BY <1>1, FlatSplit
  <1>6. Len(FlattenSeq(a)) = j * m
    <2> HIDE DEF a, j
    <2>1. QED
      BY <1>1, <1>2, FlatLen
  <1>7. FlattenSeq(b) = s[k] \o FlattenSeq(c)
    <2> HIDE DEF b, l
    <2>1. FlattenSeq(b) = FlattenSeq([i \in 1..1 |-> b[i]]) \o FlattenSeq(c)
      BY <1>1, <1>3, FlatSplit
    <2>2. [i \in 1..1 |-> b[i]] = <<s[k]>>
      BY <1>3
    <2>3. FlattenSeq(<<s[k]>>) = s[k]
      BY FlatOne
    <2>4. QED
      BY <2>1, <2>2, <2>3
  <1>8. FlattenSeq(a) \in Str /\ FlattenSeq(c) \in Str
    <2> HIDE DEF a, j, c, l
    <2>1. QED
      BY <1>1, <1>2, <1>4, FlatIs
  <1> DEFINE x == FlattenSeq(a)
             z == FlattenSeq(c)
  <1> HIDE DEF x, z, a, b, c
  <1>9. SubSeq(x \o (s[k] \o z), Len(x) + 1, Len(x) + Len(s[k])) = s[k]
    BY <1>8, StrMiddle DEF x, z
  <1>10. k * m = (j * m) + m
    <2>1. \A i \in Nat : (i + 1) * m = (i * m) + m
      OBVIOUS
    <2>2. k = j + 1
      OBVIOUS
    <2>3. QED
      BY <1>1, <2>1, <2>2
  <1>11. FlattenSeq(s) = x \o (s[k] \o z) /\ Len(x) = j * m /\ Len(s[k]) = m
    BY <1>5, <1>6, <1>7 DEF x, z
  <1>12. QED
    BY <1>9, <1>10, <1>11

\* d in n pieces of m bytes.
Chunk(d, n, m) == [i \in 1..n |-> SubSeq(d, (i - 1) * m + 1, i * m)]

\* A string is the concatenation of its chunks.
LEMMA Chunks ==
  ASSUME NEW n \in Nat, NEW m \in Nat, NEW d \in Str, Len(d) = n * m
  PROVE  /\ Chunk(d, n, m) \in [1..n -> Str] /\ \A i \in 1..n : Len(Chunk(d, n, m)[i]) = m
         /\ FlattenSeq(Chunk(d, n, m)) = d
  <1> DEFINE c == [i \in 1..n |-> SubSeq(d, (i - 1) * m + 1, i * m)]
             h == [i \in 0..n |-> SubSeq(d, i * m + 1, Len(d))]
  <1>1. ASSUME NEW i \in 0..n
        PROVE  i * m \in Nat /\ i * m <= Len(d)
    <2>1. \A j, k \in Nat : j * m \in Nat /\ (j + k) * m = (j * m) + (k * m)
      OBVIOUS
    <2>2. n - i \in Nat /\ i \in Nat /\ i + (n - i) = n
      OBVIOUS
    <2>3. n * m = (i * m) + ((n - i) * m)
      BY <2>1, <2>2
    <2>4. i * m \in Nat /\ (n - i) * m \in Nat
      BY <2>1, <2>2
    <2>5. QED
      BY <2>3, <2>4
  <1>2. ASSUME NEW i \in 0..n
        PROVE  SubSeq(d, i * m + 1, Len(d)) \in Str
    <2> DEFINE a == i * m
    <2>1. a \in Nat /\ a <= Len(d) /\ Len(d) \in Nat
      BY <1>1, StrEmpty
    <2> HIDE DEF a
    <2>2. SubSeq(d, a + 1, Len(d)) \in Str
      <3>1. a \in 0..Len(d)
        BY <2>1
      <3>2. QED
        BY <3>1, StrSplit
    <2>3. QED
      BY <2>2 DEF a
  <1>3. ASSUME NEW i \in 1..n
        PROVE  /\ SubSeq(d, (i - 1) * m + 1, i * m) \in Str
               /\ Len(SubSeq(d, (i - 1) * m + 1, i * m)) = m
               /\ SubSeq(d, (i - 1) * m + 1, Len(d))
                    = SubSeq(d, (i - 1) * m + 1, i * m) \o SubSeq(d, i * m + 1, Len(d))
    <2> DEFINE a == (i - 1) * m
               b == i * m
    <2>1. i - 1 \in 0..n /\ i \in 0..n
      OBVIOUS
    <2>2. a \in Nat /\ b \in Nat /\ b <= Len(d)
      BY <1>1, <2>1
    <2>3. b = a + m
      <3>1. \A k \in Nat : (k + 1) * m = (k * m) + m
        OBVIOUS
      <3>2. i - 1 \in Nat /\ (i - 1) + 1 = i
        OBVIOUS
      <3>3. QED
        BY <3>1, <3>2
    <2> HIDE DEF a, b
    <2>4. a <= b /\ b - a = m
      BY <2>2, <2>3
    <2>5. /\ SubSeq(d, a + 1, b) \in Str /\ Len(SubSeq(d, a + 1, b)) = b - a
          /\ SubSeq(d, a + 1, Len(d)) = SubSeq(d, a + 1, b) \o SubSeq(d, b + 1, Len(d))
      BY <2>2, <2>4, StrCut
    <2>6. QED
      BY <2>4, <2>5 DEF a, b
  <1>4. c \in [1..n -> Str] /\ \A i \in 1..n : Len(c[i]) = m
    BY <1>3
  <1>5. IsChain(h, c, n)
    <2>1. \A i \in 1..n : i - 1 \in 0..n /\ i \in 0..n
      OBVIOUS
    <2>2. h \in [0..n -> Str]
      BY <1>2
    <2>3. \A i \in 1..n : h[i - 1] = c[i] \o h[i]
      BY <1>3, <2>1
    <2> HIDE DEF h, c
    <2>4. QED
      BY <2>2, <2>3 DEF IsChain
  <1>6. h[0] = d
    <2>1. 0 * m = 0 /\ 0 \in 0..n /\ 0 + 1 = 1
      OBVIOUS
    <2>2. SubSeq(d, 1, Len(d)) = d
      BY SubSeqFull DEF Str
    <2>3. QED
      BY <2>1, <2>2
  <1>7. h[n] = <<>>
    <2>1. h[n] \in Str /\ h[n] = SubSeq(d, Len(d) + 1, Len(d))
      BY <1>2
    <2>2. Len(SubSeq(d, Len(d) + 1, Len(d))) = Len(d) - Len(d)
      BY StrSplit, StrEmpty
    <2>3. Len(d) - Len(d) = 0
      BY StrEmpty
    <2> HIDE DEF h
    <2>4. QED
      BY <2>1, <2>2, <2>3, StrEmpty
  <1> HIDE DEF h, c
  <1>8. d = FlattenSeq(c) \o <<>> /\ FlattenSeq(c) \in Str
    BY <1>4, <1>5, <1>6, <1>7, FlatChain, FlatIs, ZenonT(60)
  <1>9. FlattenSeq(c) = d
    BY <1>8, StrEmpty
  <1>10. QED
    BY <1>4, <1>9 DEF c, Chunk

------------------------------------------------------------------------------
(* Records.                                                                 *)

Rec == [tlv_type : Uint(U64), value : Bytes]

\* The parts of a record.
LEMMA RecIs ==
  ASSUME NEW r \in Rec
  PROVE  /\ r.tlv_type \in Uint(U64) /\ r.tlv_type \in Nat
         /\ r.value \in Str /\ Len(r.value) \in Uint(U64)
         /\ TlvRecord(r.tlv_type, r.value) = r
  <1>1. r.tlv_type \in Uint(U64) /\ r.value \in Bytes /\ r = [tlv_type |-> r.tlv_type, value |-> r.value]
    BY DEF Rec
  <1>2. r.tlv_type \in Nat
    BY <1>1, BigSizeForm
  <1>3. QED
    BY <1>1, <1>2 DEF Bytes, Str, TlvRecord

\* A type and a value make a record.
LEMMA IsRec ==
  ASSUME NEW t \in Uint(U64), NEW v \in Str, Len(v) \in Uint(U64)
  PROVE  TlvRecord(t, v) \in Rec /\ TlvRecord(t, v).tlv_type = t /\ TlvRecord(t, v).value = v
  BY DEF Rec, TlvRecord, Bytes, Str

\* A record is its type, its length and its value.
LEMMA RecordStr ==
  ASSUME NEW r \in Rec
  PROVE  /\ TlvRecord_encode(r) \in Str
         /\ Len(TlvRecord_encode(r)) = Len(BigSize_write(r.tlv_type))
                                         + Len(BigSize_write(Len(r.value))) + Len(r.value)
         /\ Len(TlvRecord_encode(r)) \in Nat /\ Len(TlvRecord_encode(r)) >= 2
         /\ \A y \in Str : TlvRecord_encode(r) \o y
              = BigSize_write(r.tlv_type) \o (BigSize_write(Len(r.value)) \o (r.value \o y))
  <1> DEFINE t == BigSize_write(r.tlv_type)
             l == BigSize_write(Len(r.value))
             v == r.value
  <1>1. t \in Str /\ l \in Str /\ v \in Str /\ Len(t) \in Nat /\ Len(t) >= 1
        /\ Len(l) \in Nat /\ Len(l) >= 1
    BY RecIs, BigSizeStr
  <1>2. TlvRecord_encode(r) = (t \o l) \o v
    BY DEF TlvRecord_encode
  <1> HIDE DEF t, l, v
  <1>3. t \o l \in Str /\ Len(t \o l) = Len(t) + Len(l)
    BY <1>1, StrConcat
  <1>4. (t \o l) \o v \in Str /\ Len((t \o l) \o v) = Len(t) + Len(l) + Len(v) /\ Len(v) \in Nat
    BY <1>1, <1>3, StrConcat
  <1>5. ASSUME NEW y \in Str
        PROVE  ((t \o l) \o v) \o y = t \o (l \o (v \o y))
    <2>1. v \o y \in Str
      BY <1>1, StrConcat
    <2>2. ((t \o l) \o v) \o y = (t \o l) \o (v \o y)
      BY <1>1, <1>3, StrAssoc
    <2>3. (t \o l) \o (v \o y) = t \o (l \o (v \o y))
      BY <1>1, <2>1, StrAssoc, ZenonT(60)
    <2>4. QED
      BY <2>2, <2>3
  <1>6. Len((t \o l) \o v) >= 2
    BY <1>1, <1>4
  <1>7. /\ TlvRecord_encode(r) \in Str
        /\ Len(TlvRecord_encode(r)) = Len(t) + Len(l) + Len(v)
        /\ Len(TlvRecord_encode(r)) \in Nat /\ Len(TlvRecord_encode(r)) >= 2
    BY <1>1, <1>2, <1>4, <1>6
  <1>8. \A y \in Str : TlvRecord_encode(r) \o y = t \o (l \o (v \o y))
    BY <1>2, <1>5
  <1>9. QED
    BY <1>7, <1>8 DEF t, l, v

\* The type does not follow the types before it.
TooEarly(stream, t) == stream # <<>> /\ t <= Last(stream).tlv_type
\* An even type that is not known.
Refused(t, known) == t % 2 = 0 /\ t \notin known

\* next_record by what it reads: a type, a length and the rest.
LEMMA NextRecordBy ==
  ASSUME NEW stream, NEW known, NEW d, NEW t, NEW e, BigSize_read(d) = Ok(t, e), ~TooEarly(stream, t)
  PROVE  /\ ~Good(BigSize_read(e)) => ~Good(next_record(stream, d, known))
         /\ \A l, z : BigSize_read(e) = Ok(l, z) =>
              next_record(stream, d, known)
                = CASE l > Len(z) -> Err("TlvLengthOverflow")
                    [] l <= Len(z) /\ t % 2 = 0 /\ t \notin known -> Err("TlvUnknownEvenType")
                    [] OTHER -> Ok(Append(stream, TlvRecord(t, read_array(l, z).val)),
                                   read_array(l, z).rest)
  <1> DEFINE r == BigSize_read(d)
             k(x) == CASE x.val > Len(x.rest) -> Err("TlvLengthOverflow")
                       [] x.val <= Len(x.rest) /\ r.val % 2 = 0 /\ r.val \notin known ->
                            Err("TlvUnknownEvenType")
                       [] OTHER -> Ok(Append(stream, TlvRecord(r.val, read_array(x.val, x.rest).val)),
                                      read_array(x.val, x.rest).rest)
             q == BigSize_read(r.rest)
  <1>1. r.err = "" /\ r.val = t /\ r.rest = e
    BY OkFields
  <1>2. next_record(stream, d, known)
          = IF r.err # "" THEN r
            ELSE IF TooEarly(stream, r.val) THEN Err("TlvNotIncreasing")
            ELSE IF q.err # "" THEN q ELSE k(q)
    BY DEF next_record, AndThen, TooEarly
  <1>3. next_record(stream, d, known) = IF q.err # "" THEN q ELSE k(q)
    <2> HIDE DEF r, k, q
    <2>1. QED
      BY <1>1, <1>2
  <1>4. q = BigSize_read(e)
    BY <1>1
  <1>5. ~Good(BigSize_read(e)) => ~Good(next_record(stream, d, known))
    <2> HIDE DEF q, k
    <2>1. QED
      BY <1>3, <1>4 DEF Good
  <1>6. ASSUME NEW l, NEW z, BigSize_read(e) = Ok(l, z)
        PROVE  next_record(stream, d, known)
                = CASE l > Len(z) -> Err("TlvLengthOverflow")
                    [] l <= Len(z) /\ t % 2 = 0 /\ t \notin known -> Err("TlvUnknownEvenType")
                    [] OTHER -> Ok(Append(stream, TlvRecord(t, read_array(l, z).val)),
                                   read_array(l, z).rest)
    <2>1. q.err = "" /\ q.val = l /\ q.rest = z
      BY <1>4, <1>6, OkFields, ZenonT(60)
    <2>2. next_record(stream, d, known) = k(q)
      <3> HIDE DEF q, k
      <3>1. QED
        BY <1>3, <2>1
    <2> HIDE DEF q, r
    <2>3. QED
      BY <1>1, <2>1, <2>2
  <1>7. QED
    BY <1>5, <1>6

\* A record that comes late enough and is not refused is read back.
LEMMA NextRecordOf ==
  ASSUME NEW stream, NEW known, NEW r \in Rec, NEW y \in Str, ~TooEarly(stream, r.tlv_type),
         ~Refused(r.tlv_type, known)
  PROVE  next_record(stream, TlvRecord_encode(r) \o y, known) = Ok(Append(stream, r), y)
  <1> DEFINE t == r.tlv_type
             v == r.value
             z == v \o y
             e == BigSize_write(Len(v)) \o z
             d == TlvRecord_encode(r) \o y
             a == read_array(Len(v), z)
  <1>1. t \in Uint(U64) /\ v \in Str /\ Len(v) \in Uint(U64) /\ TlvRecord(t, v) = r /\ Len(v) \in Nat
    BY RecIs, StrEmpty
  <1>2. z \in Str /\ Len(z) = Len(v) + Len(y) /\ Len(y) \in Nat
    BY <1>1, StrConcat
  <1>3. e \in Str
    <2> HIDE DEF z
    <2>1. QED
      BY <1>1, <1>2, StrConcat, BigSizeStr
  <1>4. d = BigSize_write(t) \o e
    BY RecordStr
  <1>5. a = Ok(v, y)
    BY <1>1, ReadArrayOf
  <1>6. a.val = v /\ a.rest = y
    BY <1>5, OkFields, ZenonT(60)
  <1> HIDE DEF e, z, d
  <1>7. BigSize_read(d) = Ok(t, e)
    BY <1>1, <1>3, <1>4, BigSizeOf
  <1>8. BigSize_read(e) = Ok(Len(v), z)
    BY <1>1, <1>2, BigSizeOf DEF e
  <1> HIDE DEF a
  <1>9. next_record(stream, d, known)
          = CASE Len(v) > Len(z) -> Err("TlvLengthOverflow")
              [] Len(v) <= Len(z) /\ t % 2 = 0 /\ t \notin known -> Err("TlvUnknownEvenType")
              [] OTHER -> Ok(Append(stream, TlvRecord(t, a.val)), a.rest)
    BY <1>7, <1>8, NextRecordBy DEF a
  <1>10. ~(Len(v) > Len(z)) /\ ~(Len(v) <= Len(z) /\ t % 2 = 0 /\ t \notin known)
    BY <1>1, <1>2 DEF Refused
  <1>11. next_record(stream, d, known) = Ok(Append(stream, TlvRecord(t, a.val)), a.rest)
    BY <1>9, <1>10
  <1>12. QED
    BY <1>1, <1>6, <1>11 DEF d

\* A record that is read was in front, comes late enough and is not refused.
LEMMA NextRecordIs ==
  ASSUME NEW stream, NEW known, NEW d \in Str, Good(next_record(stream, d, known))
  PROVE  \E r \in Rec, y \in Str :
           /\ ~TooEarly(stream, r.tlv_type) /\ ~Refused(r.tlv_type, known)
           /\ d = TlvRecord_encode(r) \o y
           /\ next_record(stream, d, known) = Ok(Append(stream, r), y)
  <1> DEFINE b == BigSize_read(d)
             q == BigSize_read(b.rest)
             k == CASE q.val > Len(q.rest) -> Err("TlvLengthOverflow")
                       [] q.val <= Len(q.rest) /\ b.val % 2 = 0 /\ b.val \notin known ->
                            Err("TlvUnknownEvenType")
                       [] OTHER -> Ok(Append(stream, TlvRecord(b.val, read_array(q.val, q.rest).val)),
                                      read_array(q.val, q.rest).rest)
  <1>1. next_record(stream, d, known)
          = IF b.err # "" THEN b
            ELSE IF TooEarly(stream, b.val) THEN Err("TlvNotIncreasing")
            ELSE IF q.err # "" THEN q ELSE k
    BY DEF next_record, AndThen, TooEarly
  <1>2. Good(b) /\ ~TooEarly(stream, b.val)
    <2> HIDE DEF b, q, k
    <2>1. QED
      BY <1>1, ErrIs DEF Good
  <1>3. PICK t \in Uint(U64), e \in Str : d = BigSize_write(t) \o e /\ b = Ok(t, e)
    BY <1>2, BigSizeIs
  <1>4. b.val = t /\ b.rest = e
    BY <1>3, OkFields
  <1>5. ~TooEarly(stream, t)
    BY <1>2, <1>4
  <1>6. Good(BigSize_read(e))
    BY <1>3, <1>5, NextRecordBy
  <1>7. PICK l \in Uint(U64), z \in Str : e = BigSize_write(l) \o z /\ BigSize_read(e) = Ok(l, z)
    BY <1>6, BigSizeIs
  <1> DEFINE a == read_array(l, z)
  <1>8. next_record(stream, d, known)
          = CASE l > Len(z) -> Err("TlvLengthOverflow")
              [] l <= Len(z) /\ t % 2 = 0 /\ t \notin known -> Err("TlvUnknownEvenType")
              [] OTHER -> Ok(Append(stream, TlvRecord(t, a.val)), a.rest)
    BY <1>3, <1>5, <1>7, NextRecordBy
  <1>9. l \in Nat /\ Len(z) \in Nat
    BY BigSizeForm, StrEmpty
  <1> HIDE DEF a, b, q, k
  <1>10. ~(l > Len(z)) /\ l <= Len(z)
    <2>1. ~(l > Len(z))
      <3>1. SUFFICES ASSUME l > Len(z) PROVE FALSE
        OBVIOUS
      <3>2. ~(l <= Len(z))
        BY <1>9, <3>1
      <3>3. next_record(stream, d, known) = Err("TlvLengthOverflow")
        BY <1>8, <3>1, <3>2
      <3>4. QED
        BY <3>3, ErrIs
    <2>2. QED
      BY <1>9, <2>1
  <1>11. ~(t % 2 = 0 /\ t \notin known)
    <2>1. SUFFICES ASSUME t % 2 = 0, t \notin known PROVE FALSE
      OBVIOUS
    <2>2. next_record(stream, d, known) = Err("TlvUnknownEvenType")
      BY <1>8, <1>10, <2>1
    <2>3. QED
      BY <2>2, ErrIs
  <1>12. next_record(stream, d, known) = Ok(Append(stream, TlvRecord(t, a.val)), a.rest)
    BY <1>8, <1>10, <1>11
  <1>13. PICK v \in Str, y \in Str : Len(v) = l /\ z = v \o y /\ a = Ok(v, y)
    <2>1. Good(read_array(l, z))
      <3>1. read_array(l, z) = Ok(SubSeq(z, 1, l), SubSeq(z, l + 1, Len(z)))
        <4>1. ~(Len(z) < l)
          BY <1>9, <1>10
        <4>2. QED
          BY <4>1 DEF read_array
      <3>2. QED
        BY <3>1, OkFields
    <2>2. QED
      BY <1>9, <2>1, ReadArrayIs DEF a
  <1>14. a.val = v /\ a.rest = y
    <2>1. a = Ok(v, y)
      BY <1>13
    <2>2. Ok(v, y).val = v /\ Ok(v, y).rest = y
      BY OkIs
    <2>3. QED
      BY <2>1, <2>2
  <1> DEFINE r == TlvRecord(t, v)
  <1>15. r \in Rec /\ r.tlv_type = t /\ r.value = v
    BY <1>13, IsRec
  <1> HIDE DEF r
  <1>16. d = TlvRecord_encode(r) \o y
    <2>1. TlvRecord_encode(r) \o y = BigSize_write(t) \o (BigSize_write(Len(v)) \o (v \o y))
      BY <1>15, RecordStr
    <2>2. QED
      BY <1>3, <1>7, <1>13, <2>1
  <1>17. next_record(stream, d, known) = Ok(Append(stream, r), y)
    BY <1>12, <1>14 DEF r
  <1>18. ~Refused(t, known)
    BY <1>11 DEF Refused
  <1>19. QED
    BY <1>5, <1>15, <1>16, <1>17, <1>18

------------------------------------------------------------------------------
(* Streams of n records.                                                    *)

Ordered(s, n) == \A i \in 2..n : s[i - 1].tlv_type < s[i].tlv_type
Allowed(s, n, known) == \A i \in 1..n : ~Refused(s[i].tlv_type, known)

\* Appending to a sequence given as a function.
LEMMA AppendIs ==
  ASSUME NEW S, NEW n \in Nat, NEW s \in [1..n -> S], NEW r \in S
  PROVE  /\ Append(s, r) \in [1..(n + 1) -> S] /\ Append(s, r)[n + 1] = r
         /\ \A i \in 1..n : Append(s, r)[i] = s[i]
         /\ [i \in 1..((n + 1) - 1) |-> Append(s, r)[i]] = s
  <1>1. s \in Seq(S) /\ Len(s) = n
    BY FunctionIsSeq
  <1>2. /\ Append(s, r) \in Seq(S) /\ Len(Append(s, r)) = n + 1
        /\ \A i \in 1..n : Append(s, r)[i] = s[i]
        /\ Append(s, r)[n + 1] = r
    BY <1>1, AppendProperties
  <1>3. Append(s, r) \in [1..(n + 1) -> S]
    BY <1>2, LenProperties
  <1>4. (n + 1) - 1 = n
    OBVIOUS
  <1>5. [i \in 1..n |-> Append(s, r)[i]] = s
    BY <1>2
  <1>6. QED
    BY <1>2, <1>3, <1>4, <1>5

\* Appending a record to records.
LEMMA AppendRec ==
  ASSUME NEW n \in Nat, NEW s \in [1..n -> Rec], NEW r \in Rec
  PROVE  Append(s, r) \in [1..(n + 1) -> Rec] /\ n + 1 \in Nat
  <1>1. Append(s, r) \in [1..(n + 1) -> Rec]
    BY AppendIs, Zenon
  <1>2. QED
    BY <1>1

\* The first k + 1 elements are the first k and the next.
LEMMA AppendNext ==
  ASSUME NEW S, NEW n \in Nat, NEW s \in [1..n -> S], NEW k \in 0..(n - 1)
  PROVE  Append([j \in 1..k |-> s[j]], s[k + 1]) = [j \in 1..(k + 1) |-> s[j]]
  <1> DEFINE p == [j \in 1..k |-> s[j]]
             r == s[k + 1]
  <1>1. k \in Nat /\ p \in [1..k -> S] /\ r \in S /\ \A j \in 1..k : p[j] = s[j]
    OBVIOUS
  <1> HIDE DEF p
  <1>2. p \in Seq(S) /\ Len(p) = k
    BY <1>1, FunctionIsSeq
  <1>3. /\ Append(p, r) \in Seq(S) /\ Len(Append(p, r)) = k + 1
        /\ \A j \in 1..k : Append(p, r)[j] = p[j]
        /\ Append(p, r)[k + 1] = r
    BY <1>1, <1>2, AppendProperties
  <1>4. Append(p, r) \in [1..(k + 1) -> S]
    BY <1>3, LenProperties
  <1>5. \A j \in 1..(k + 1) : Append(p, r)[j] = s[j]
    <2>1. \A j \in 1..(k + 1) : j \in 1..k \/ j = k + 1
      BY <1>1
    <2>2. QED
      BY <1>1, <1>3, <2>1
  <1>6. Append(p, r) = [j \in 1..(k + 1) |-> s[j]]
    BY <1>4, <1>5
  <1>7. QED
    BY <1>6 DEF p

\* What TooEarly says of a stream.
LEMMA EarlyIs ==
  ASSUME NEW S, NEW n \in Nat, NEW s \in [1..n -> S], NEW t
  PROVE  TooEarly(s, t) <=> n > 0 /\ t <= s[n].tlv_type
  <1>1. s \in Seq(S) /\ Len(s) = n
    BY FunctionIsSeq
  <1>2. s # <<>> <=> n > 0
    BY <1>1, EmptySeq
  <1>3. Last(s) = s[n]
    BY <1>1 DEF Last
  <1>4. QED
    BY <1>2, <1>3 DEF TooEarly

\* The encoding of a stream is the concatenation of its records' encodings.
LEMMA StreamEncode ==
  ASSUME NEW n \in Nat, NEW s \in [1..n -> Rec]
  PROVE  /\ [i \in 1..n |-> TlvRecord_encode(s[i])] \in [1..n -> Str]
         /\ TlvStream_encode(s) = FlattenSeq([i \in 1..n |-> TlvRecord_encode(s[i])])
         /\ TlvStream_encode(s) \in Str
  <1> DEFINE e == [i \in 1..n |-> TlvRecord_encode(s[i])]
  <1>1. \A i \in 1..n : TlvRecord_encode(s[i]) \in Str
    BY RecordStr
  <1>2. e \in [1..n -> Str]
    BY <1>1
  <1>3. TlvStream_encode(s) = FlattenSeq(e)
    BY DEF TlvStream_encode
  <1> HIDE DEF e
  <1>4. FlattenSeq(e) \in Str
    BY <1>2, FlatIs
  <1>5. QED
    BY <1>2, <1>3, <1>4 DEF e

\* The encoding of a stream to which a record was appended.
LEMMA StreamAppend ==
  ASSUME NEW n \in Nat, NEW s \in [1..n -> Rec], NEW r \in Rec
  PROVE  TlvStream_encode(Append(s, r)) = TlvStream_encode(s) \o TlvRecord_encode(r)
  <1> DEFINE a == Append(s, r)
             m == n + 1
             e == [i \in 1..m |-> TlvRecord_encode(a[i])]
  <1>1. /\ a \in [1..m -> Rec] /\ a[m] = r /\ \A i \in 1..n : a[i] = s[i]
    BY AppendIs
  <1>2. m \in Nat /\ m > 0 /\ m - 1 = n /\ m \in 1..m /\ \A i \in 1..n : i \in 1..m
    OBVIOUS
  <1> HIDE DEF a, m
  <1>3. e \in [1..m -> Str] /\ TlvStream_encode(a) = FlattenSeq(e)
    BY <1>1, <1>2, StreamEncode
  <1>4. e[m] = TlvRecord_encode(r) /\ [i \in 1..(m - 1) |-> e[i]] = [i \in 1..n |-> TlvRecord_encode(s[i])]
    BY <1>1, <1>2
  <1> HIDE DEF e
  <1>5. FlattenSeq(e) = FlattenSeq([i \in 1..(m - 1) |-> e[i]]) \o e[m]
    BY <1>2, <1>3, FlatLast
  <1>6. QED
    BY <1>3, <1>4, <1>5, StreamEncode DEF a

\* Appending a record that comes late enough keeps the order.
LEMMA OrderedAppend ==
  ASSUME NEW n \in Nat, NEW s \in [1..n -> Rec], NEW r \in Rec, NEW known
  PROVE  /\ Ordered(s, n) /\ ~TooEarly(s, r.tlv_type) => Ordered(Append(s, r), n + 1)
         /\ Allowed(s, n, known) /\ ~Refused(r.tlv_type, known) => Allowed(Append(s, r), n + 1, known)
  <1> DEFINE a == Append(s, r)
  <1>1. /\ a \in [1..(n + 1) -> Rec] /\ a[n + 1] = r /\ \A i \in 1..n : a[i] = s[i]
    BY AppendIs
  <1> HIDE DEF a
  <1>2. ASSUME Ordered(s, n), ~TooEarly(s, r.tlv_type), NEW i \in 2..(n + 1)
        PROVE  a[i - 1].tlv_type < a[i].tlv_type
    <2>1. CASE i \in 2..n
      <3>1. i \in 1..n /\ i - 1 \in 1..n
        BY <2>1
      <3>2. QED
        BY <1>1, <1>2, <2>1, <3>1 DEF Ordered
    <2>2. CASE i = n + 1
      <3>1. n > 0 /\ i - 1 = n /\ n \in 1..n
        BY <2>2
      <3>2. ~(r.tlv_type <= s[n].tlv_type)
        BY <1>2, <3>1, EarlyIs
      <3>3. s[n].tlv_type \in Nat /\ r.tlv_type \in Nat
        BY <3>1, RecIs
      <3>4. s[n].tlv_type < r.tlv_type
        BY <3>2, <3>3
      <3>5. QED
        BY <1>1, <2>2, <3>1, <3>4
    <2>3. QED
      BY <2>1, <2>2
  <1>3. ASSUME Allowed(s, n, known), ~Refused(r.tlv_type, known), NEW i \in 1..(n + 1)
        PROVE  ~Refused(a[i].tlv_type, known)
    <2>1. i \in 1..n \/ i = n + 1
      OBVIOUS
    <2>2. QED
      BY <1>1, <1>3, <2>1 DEF Allowed
  <1>4. QED
    BY <1>2, <1>3 DEF Ordered, Allowed, a

------------------------------------------------------------------------------
(* The loop of decode_with_known.                                           *)

Turn(r, known) ==
  IF r.err # "" THEN r ELSE IF r.rest = <<>> THEN r ELSE next_record(r.val, r.rest, known)

\* f gives the result of the first i turns, for i up to n.
IsLoop(f, n, d, known) ==
  /\ f[0] = Ok(<<>>, d)
  /\ \A i \in 1..n : f[i] = Turn(f[i - 1], known)

\* The recursive function in TlvStream_decode_with_known satisfies its equations.
LEMMA LoopIs ==
  ASSUME NEW d \in Str, NEW known
  PROVE  \E f : IsLoop(f, Len(d), d, known) /\ TlvStream_decode_with_known(d, known) = f[Len(d)]
  <1> DEFINE n == Len(d)
             Eq(f, k) == f = [i \in 0..k |-> IF i = 0 THEN Ok(<<>>, d) ELSE Turn(f[i - 1], known)]
             T == {k \in 0..n : \E f : Eq(f, k)}
             V == CHOOSE f : Eq(f, n)
  <1>0. n \in Nat
    BY StrEmpty
  <1>1. TlvStream_decode_with_known(d, known) = V[n]
    <2>1. TlvStream_decode_with_known(d, known)
            = (CHOOSE f : f = [i \in 0..Len(d) |->
                 IF i = 0 THEN Ok(<<>>, d)
                 ELSE IF f[i - 1].err # "" THEN f[i - 1]
                 ELSE IF f[i - 1].rest = <<>> THEN f[i - 1]
                 ELSE next_record(f[i - 1].val, f[i - 1].rest, known)])[Len(d)]
      BY Zenon DEF TlvStream_decode_with_known, AndThen
    <2>2. QED
      BY <2>1, Zenon DEF Turn
  <1> HIDE DEF n
  <1>2. 0 \in T
    <2>1. Eq([i \in 0..0 |-> Ok(<<>>, d)], 0)
      <3>1. \A i \in 0..0 : i = 0
        OBVIOUS
      <3>2. QED
        BY <3>1
    <2>2. 0 \in 0..n
      BY <1>0
    <2> HIDE DEF Eq
    <2>3. QED
      BY <2>1, <2>2
  <1>3. ASSUME NEW k \in 0..(n - 1), k \in T
        PROVE  k + 1 \in T
    <2>1. PICK f : Eq(f, k)
      BY <1>3
    <2>2. \A i \in 0..k : f[i] = IF i = 0 THEN Ok(<<>>, d) ELSE Turn(f[i - 1], known)
      BY <2>1
    <2> DEFINE g == [i \in 0..(k + 1) |-> IF i = k + 1 THEN Turn(f[k], known) ELSE f[i]]
    <2>3. ASSUME NEW i \in 0..(k + 1)
          PROVE  g[i] = IF i = 0 THEN Ok(<<>>, d) ELSE Turn(g[i - 1], known)
      <3>1. CASE i = k + 1
        <4>1. i # 0 /\ i - 1 = k /\ k \in 0..(k + 1) /\ k # k + 1
          BY <1>0, <3>1
        <4>2. QED
          BY <3>1, <4>1
      <3>2. CASE i # k + 1
        <4>1. i \in 0..k /\ (i # 0 => i - 1 \in 0..(k + 1) /\ i - 1 # k + 1)
          BY <1>0, <3>2
        <4>2. QED
          BY <2>2, <3>2, <4>1
      <3>3. QED
        BY <3>1, <3>2
    <2>4. Eq(g, k + 1)
      BY <2>3
    <2>5. k + 1 \in 0..n
      BY <1>0
    <2> HIDE DEF Eq
    <2>6. QED
      BY <2>4, <2>5
  <1> HIDE DEF T
  <1>4. \A k \in 0..n : k \in T
    BY <1>0, <1>2, <1>3, Induction
  <1>5. Eq(V, n)
    <2>1. \E f : Eq(f, n)
      BY <1>0, <1>4 DEF T
    <2> HIDE DEF Eq
    <2>2. QED
      BY <2>1
  <1> HIDE DEF V
  <1>6. IsLoop(V, n, d, known)
    <2>1. \A i \in 0..n : V[i] = IF i = 0 THEN Ok(<<>>, d) ELSE Turn(V[i - 1], known)
      BY <1>5
    <2>2. 0 \in 0..n /\ \A i \in 1..n : i \in 0..n /\ i # 0
      BY <1>0
    <2>3. QED
      BY <2>1, <2>2 DEF IsLoop
  <1>7. QED
    BY <1>1, <1>6 DEF n

\* A turn when something is left, and when nothing is.
LEMMA TurnIs ==
  ASSUME NEW s, NEW y, NEW known
  PROVE  /\ y = <<>> => Turn(Ok(s, y), known) = Ok(s, y)
         /\ y # <<>> => Turn(Ok(s, y), known) = next_record(s, y, known)
  <1> DEFINE r == Ok(s, y)
  <1>1. r.err = "" /\ r.val = s /\ r.rest = y
    BY OkIs
  <1>2. Turn(r, known) = IF r.err # "" THEN r ELSE IF r.rest = <<>> THEN r
                         ELSE next_record(r.val, r.rest, known)
    BY DEF Turn
  <1> HIDE DEF r
  <1>3. (y = <<>> => Turn(r, known) = r) /\ (y # <<>> => Turn(r, known) = next_record(s, y, known))
    BY <1>1, <1>2
  <1>4. QED
    BY <1>3 DEF r

\* The records of an ordered stream come back, if they are allowed: TlvStream::decode_with_known
\* of what TlvStream::encode writes.
THEOREM DecodeOf ==
  ASSUME NEW n \in Nat, NEW s \in [1..n -> Rec], NEW known, Ordered(s, n), Allowed(s, n, known)
  PROVE  TlvStream_decode_with_known(TlvStream_encode(s), known) = Ok(s, <<>>)
  <1> DEFINE d == TlvStream_encode(s)
             e == [i \in 1..n |-> TlvRecord_encode(s[i])]
             N == Len(d)
             P(i) == [j \in 1..i |-> s[j]]
  <1>1. e \in [1..n -> Str] /\ d = FlattenSeq(e) /\ d \in Str /\ N \in Nat
    BY StreamEncode, StrEmpty
  <1> HIDE DEF e, d
  <1>2. PICK h : IsChain(h, e, n) /\ h[n] = <<>> /\ h[0] = d
    <2>1. \E h : IsChain(h, e, n) /\ h[n] = <<>> /\ h[0] = FlattenSeq(e) \o <<>>
      BY <1>1, ChainExists, StrEmpty
    <2>2. FlattenSeq(e) \o <<>> = d
      BY <1>1, StrEmpty
    <2>3. QED
      BY <2>1, <2>2
  <1>3. h \in [0..n -> Str] /\ \A i \in 1..n : h[i - 1] = TlvRecord_encode(s[i]) \o h[i]
    BY <1>2 DEF IsChain, e
  <1>4. PICK f : IsLoop(f, N, d, known) /\ TlvStream_decode_with_known(d, known) = f[N]
    BY <1>1, LoopIs
  <1>5. f[0] = Ok(<<>>, d) /\ \A i \in 1..N : f[i] = Turn(f[i - 1], known)
    BY <1>4 DEF IsLoop
  <1>6. \A i \in 1..n : Len(h[i - 1]) >= Len(h[i]) + 2 /\ h[i - 1] # <<>> /\ Len(h[i]) \in Nat
    <2>1. ASSUME NEW i \in 1..n
          PROVE  Len(h[i - 1]) >= Len(h[i]) + 2 /\ h[i - 1] # <<>> /\ Len(h[i]) \in Nat
      <3>1. i - 1 \in 0..n /\ i \in 0..n
        OBVIOUS
      <3>2. /\ h[i] \in Str /\ s[i] \in Rec /\ h[i - 1] = TlvRecord_encode(s[i]) \o h[i]
            /\ Len(h[i]) \in Nat
        BY <1>3, <3>1, StrEmpty
      <3>3. /\ Len(h[i - 1]) = Len(TlvRecord_encode(s[i])) + Len(h[i])
            /\ Len(TlvRecord_encode(s[i])) >= 2 /\ Len(TlvRecord_encode(s[i])) \in Nat
        BY <3>2, RecordStr, StrConcat
      <3>4. Len(h[i - 1]) >= Len(h[i]) + 2 /\ Len(h[i - 1]) # 0
        BY <3>2, <3>3
      <3>5. QED
        BY <3>2, <3>4, StrEmpty
    <2>2. QED
      BY <2>1
  <1>7. n <= N
    <2> DEFINE T == {i \in 0..n : Len(h[i]) + i <= N}
    <2>1. 0 \in T
      BY <1>1, <1>2
    <2>2. ASSUME NEW i \in 0..(n - 1), i \in T
          PROVE  i + 1 \in T
      <3>1. i + 1 \in 1..n /\ i + 1 \in 0..n /\ (i + 1) - 1 = i /\ i \in Nat
        OBVIOUS
      <3>2. Len(h[i]) >= Len(h[i + 1]) + 2 /\ Len(h[i + 1]) \in Nat
        BY <1>6, <3>1
      <3>3. Len(h[i]) \in Nat /\ Len(h[i]) + i <= N
        <4>1. i \in 0..n /\ h[i] \in Str
          BY <1>3
        <4>2. QED
          BY <2>2, <4>1, StrEmpty
      <3>4. Len(h[i + 1]) + (i + 1) <= N
        <4>1. \A a, b, c, k \in Nat : a >= b + 2 /\ a + k <= c => b + (k + 1) <= c
          OBVIOUS
        <4>2. QED
          BY <1>1, <3>1, <3>2, <3>3, <4>1
      <3>5. QED
        BY <3>1, <3>4
    <2> HIDE DEF T
    <2>3. \A i \in 0..n : i \in T
      BY <2>1, <2>2, Induction
    <2>4. n \in T
      BY <2>3
    <2>5. Len(h[n]) + n <= N /\ Len(h[n]) = 0
      BY <1>2, <2>4, StrEmpty DEF T
    <2>6. QED
      BY <2>5
  <1>8. f[n] = Ok(s, <<>>)
    <2> DEFINE T == {i \in 0..n : f[i] = Ok(P(i), h[i])}
    <2>1. 0 \in T
      <3>1. P(0) = <<>>
        OBVIOUS
      <3>2. QED
        BY <1>2, <1>5, <3>1
    <2>2. ASSUME NEW i \in 0..(n - 1), i \in T
          PROVE  i + 1 \in T
      <3>1. /\ i + 1 \in 1..n /\ i + 1 \in 0..n /\ i + 1 \in 1..N /\ (i + 1) - 1 = i
            /\ i \in 0..n /\ i \in Nat
        BY <1>1, <1>7
      <3>2. f[i + 1] = Turn(f[i], known) /\ f[i] = Ok(P(i), h[i])
        BY <1>5, <2>2, <3>1
      <3>3. h[i] # <<>> /\ h[i] = TlvRecord_encode(s[i + 1]) \o h[i + 1]
        BY <1>3, <1>6, <3>1
      <3>4. f[i + 1] = next_record(P(i), h[i], known)
        <4> HIDE DEF P
        <4>1. Turn(Ok(P(i), h[i]), known) = next_record(P(i), h[i], known)
          BY <3>3, TurnIs
        <4>2. QED
          BY <3>2, <4>1
      <3>5. P(i) \in [1..i -> Rec] /\ s[i + 1] \in Rec /\ h[i + 1] \in Str
        <4>1. \A j \in 1..i : j \in 1..n
          BY <3>1
        <4>2. QED
          BY <1>3, <3>1, <4>1
      <3>6. ~TooEarly(P(i), s[i + 1].tlv_type)
        <4>1. CASE i = 0
          <5>1. ~(i > 0)
            BY <4>1
          <5>2. QED
            BY <3>1, <3>5, <5>1, EarlyIs
        <4>2. CASE i # 0
          <5>1. i \in 1..i /\ i + 1 \in 2..n /\ i \in 1..n
            BY <3>1, <4>2
          <5>2. s[i].tlv_type < s[i + 1].tlv_type /\ P(i)[i] = s[i]
            BY <3>1, <5>1 DEF Ordered
          <5>3. s[i].tlv_type \in Nat /\ s[i + 1].tlv_type \in Nat
            BY <3>1, <5>1, RecIs
          <5>4. ~(s[i + 1].tlv_type <= P(i)[i].tlv_type)
            BY <5>2, <5>3
          <5> HIDE DEF P
          <5>5. QED
            BY <3>1, <3>5, <5>4, EarlyIs
        <4>3. QED
          BY <4>1, <4>2
      <3>7. ~Refused(s[i + 1].tlv_type, known)
        BY <3>1 DEF Allowed
      <3>8. next_record(P(i), h[i], known) = Ok(Append(P(i), s[i + 1]), h[i + 1])
        <4> HIDE DEF P
        <4>1. QED
          BY <3>3, <3>5, <3>6, <3>7, NextRecordOf
      <3>9. Append(P(i), s[i + 1]) = P(i + 1)
        BY AppendNext
      <3> HIDE DEF P
      <3>10. QED
        BY <3>1, <3>4, <3>8, <3>9
    <2> HIDE DEF T, P
    <2>3. \A i \in 0..n : i \in T
      BY <2>1, <2>2, Induction
    <2>4. n \in T
      BY <2>3
    <2>5. P(n) = s
      BY DEF P
    <2>6. QED
      BY <1>2, <2>4, <2>5 DEF T
  <1>9. f[N] = Ok(s, <<>>)
    <2> DEFINE m == N - n
               T == {i \in 0..m : f[n + i] = Ok(s, <<>>)}
    <2>0. m \in Nat
      BY <1>1, <1>7
    <2>1. 0 \in T
      <3>1. n + 0 = n /\ 0 \in 0..m
        BY <2>0
      <3>2. QED
        BY <1>8, <3>1
    <2>2. ASSUME NEW i \in 0..(m - 1), i \in T
          PROVE  i + 1 \in T
      <3>1. i + 1 \in 0..m /\ n + (i + 1) \in 1..N /\ (n + (i + 1)) - 1 = n + i
        BY <1>1, <1>7
      <3>2. f[n + (i + 1)] = Turn(f[n + i], known) /\ f[n + i] = Ok(s, <<>>)
        BY <1>5, <2>2, <3>1
      <3>3. f[n + (i + 1)] = Ok(s, <<>>)
        BY <3>2, TurnIs
      <3>4. QED
        BY <3>1, <3>3
    <2> HIDE DEF T, m
    <2>3. \A i \in 0..m : i \in T
      BY <2>0, <2>1, <2>2, Induction
    <2>4. m \in T
      BY <2>0, <2>3
    <2>5. n + m = N
      BY <1>1, <1>7 DEF m
    <2>6. QED
      BY <2>4, <2>5 DEF T
  <1>10. QED
    BY <1>4, <1>9 DEF d

\* What i turns that went well have made of d: n records, and y is left.
DecodedAs(s, n, y, d, i, known) ==
  /\ Ordered(s, n) /\ Allowed(s, n, known)
  /\ d = TlvStream_encode(s) \o y
  /\ y = <<>> \/ Len(y) + i <= Len(d)

Decoded(r, d, i, known) ==
  \E n \in Nat : \E s \in [1..n -> Rec], y \in Str : r = Ok(s, y) /\ DecodedAs(s, n, y, d, i, known)

\* One turn of the decoding loop keeps what was decoded so far.
LEMMA DecodedNext ==
  ASSUME NEW d \in Str, NEW known, NEW i \in Nat, NEW n \in Nat, NEW s \in [1..n -> Rec],
         NEW y \in Str, DecodedAs(s, n, y, d, i, known), Good(Turn(Ok(s, y), known))
  PROVE  Decoded(Turn(Ok(s, y), known), d, i + 1, known)
  <1>1. CASE y = <<>>
    <2>1. Turn(Ok(s, y), known) = Ok(s, y)
      BY <1>1, TurnIs
    <2>2. DecodedAs(s, n, y, d, i + 1, known)
      BY <1>1 DEF DecodedAs
    <2>3. QED
      BY <2>1, <2>2 DEF Decoded
  <1>2. CASE y # <<>>
    <2>1. Turn(Ok(s, y), known) = next_record(s, y, known)
      BY <1>2, TurnIs
    <2>2. Good(next_record(s, y, known))
      BY <2>1
    <2>3. PICK r \in Rec, z \in Str :
            /\ ~TooEarly(s, r.tlv_type) /\ ~Refused(r.tlv_type, known)
            /\ y = TlvRecord_encode(r) \o z
            /\ next_record(s, y, known) = Ok(Append(s, r), z)
      BY <2>2, NextRecordIs
    <2> DEFINE a == Append(s, r)
    <2>4. a \in [1..(n + 1) -> Rec] /\ n + 1 \in Nat
      BY AppendRec, Zenon
    <2>5. Ordered(a, n + 1) /\ Allowed(a, n + 1, known)
      BY <2>3, OrderedAppend DEF DecodedAs
    <2>6. d = TlvStream_encode(a) \o z
      <3>1. TlvStream_encode(a) = TlvStream_encode(s) \o TlvRecord_encode(r)
        BY StreamAppend
      <3>2. TlvStream_encode(s) \in Str /\ TlvRecord_encode(r) \in Str
        BY StreamEncode, RecordStr
      <3>3. (TlvStream_encode(s) \o TlvRecord_encode(r)) \o z
              = TlvStream_encode(s) \o (TlvRecord_encode(r) \o z)
        BY <3>2, StrAssoc
      <3>4. QED
        BY <2>3, <3>1, <3>3 DEF DecodedAs
    <2>7. Len(z) + (i + 1) <= Len(d)
      <3>1. Len(y) = Len(TlvRecord_encode(r)) + Len(z) /\ Len(z) \in Nat /\ Len(y) \in Nat
        BY <2>3, RecordStr, StrConcat, StrEmpty
      <3>2. Len(TlvRecord_encode(r)) >= 2 /\ Len(TlvRecord_encode(r)) \in Nat
        BY RecordStr
      <3>3. Len(y) + i <= Len(d) /\ Len(d) \in Nat
        BY <1>2, StrEmpty DEF DecodedAs
      <3>4. \A j, k, l, m, o \in Nat : j = k + l /\ k >= 2 /\ j + m <= o => l + (m + 1) <= o
        OBVIOUS
      <3>5. QED
        BY <3>1, <3>2, <3>3, <3>4
    <2> HIDE DEF a
    <2>8. Decoded(Ok(a, z), d, i + 1, known)
      BY <2>4, <2>5, <2>6, <2>7 DEF Decoded, DecodedAs
    <2>9. QED
      BY <2>1, <2>3, <2>8 DEF a
  <1>3. QED
    BY <1>1, <1>2

\* A stream that decodes is the encoding of ordered and allowed records: whatever bytes
\* TlvStream::decode_with_known accepts, TlvStream::encode gives back.
THEOREM DecodeIs ==
  ASSUME NEW d \in Str, NEW known, Good(TlvStream_decode_with_known(d, known))
  PROVE  \E n \in Nat : \E s \in [1..n -> Rec] :
           /\ TlvStream_decode_with_known(d, known) = Ok(s, <<>>)
           /\ Ordered(s, n) /\ Allowed(s, n, known) /\ TlvStream_encode(s) = d
  <1> DEFINE N == Len(d)
  <1>1. PICK f : IsLoop(f, N, d, known) /\ TlvStream_decode_with_known(d, known) = f[N]
    BY LoopIs
  <1>2. f[0] = Ok(<<>>, d) /\ \A i \in 1..N : f[i] = Turn(f[i - 1], known)
    BY <1>1 DEF IsLoop
  <1>3. N \in Nat
    BY StrEmpty
  <1> DEFINE T == {i \in 0..N : Good(f[i]) => Decoded(f[i], d, i, known)}
  <1>4. 0 \in T
    <2> DEFINE s == [j \in 1..0 |-> TlvRecord(0, <<>>)]
    <2>1. s \in [1..0 -> Rec] /\ s = <<>> /\ 0 \in Nat
      OBVIOUS
    <2> HIDE DEF s
    <2>2. Ordered(s, 0) /\ Allowed(s, 0, known)
      <3>1. (2..0) = {} /\ (1..0) = {}
        OBVIOUS
      <3>2. QED
        BY <3>1 DEF Ordered, Allowed
    <2>3. TlvStream_encode(s) = <<>>
      <3>1. [i \in 1..0 |-> TlvRecord_encode(s[i])] = <<>>
        OBVIOUS
      <3>2. TlvStream_encode(s) = FlattenSeq([i \in 1..0 |-> TlvRecord_encode(s[i])])
        BY <2>1, StreamEncode
      <3>3. QED
        BY <3>1, <3>2, FlatEmpty
    <2>4. d = TlvStream_encode(s) \o d
      BY <2>3, StrEmpty
    <2>5. Len(d) + 0 <= Len(d)
      BY <1>3
    <2>6. f[0] = Ok(s, d)
      BY <1>2, <2>1
    <2>7. Decoded(f[0], d, 0, known)
      <3>1. s \in [1..0 -> Rec] /\ 0 \in Nat
        BY <2>1
      <3>2. QED
        BY <3>1, <2>2, <2>4, <2>5, <2>6 DEF Decoded, DecodedAs
    <2>8. QED
      BY <1>3, <2>7
  <1>5. ASSUME NEW i \in 0..(N - 1), i \in T
        PROVE  i + 1 \in T
    <2>1. i + 1 \in 0..N /\ i + 1 \in 1..N /\ (i + 1) - 1 = i /\ i \in Nat
      BY <1>3
    <2>2. f[i + 1] = Turn(f[i], known)
      BY <1>2, <2>1
    <2>3. ASSUME Good(f[i + 1])
          PROVE  Decoded(f[i + 1], d, i + 1, known)
      <3>1. Good(f[i])
        BY <2>2, <2>3 DEF Turn, Good
      <3>2. Decoded(f[i], d, i, known)
        BY <1>5, <3>1
      <3>3. PICK n \in Nat : \E s \in [1..n -> Rec], y \in Str :
              f[i] = Ok(s, y) /\ DecodedAs(s, n, y, d, i, known)
        BY <3>2 DEF Decoded
      <3>4. PICK s \in [1..n -> Rec], y \in Str : f[i] = Ok(s, y) /\ DecodedAs(s, n, y, d, i, known)
        BY <3>3
      <3>5. f[i + 1] = Turn(Ok(s, y), known)
        BY <2>2, <3>4
      <3>6. Good(Turn(Ok(s, y), known))
        BY <2>3, <3>5
      <3>7. Decoded(Turn(Ok(s, y), known), d, i + 1, known)
        BY <2>1, <3>4, <3>6, DecodedNext
      <3>8. QED
        BY <3>5, <3>7
    <2>4. QED
      BY <2>1, <2>3
  <1> HIDE DEF T
  <1>6. \A i \in 0..N : i \in T
    BY <1>3, <1>4, <1>5, Induction
  <1>7. N \in T
    BY <1>3, <1>6
  <1>8. Decoded(f[N], d, N, known)
    BY <1>1, <1>7 DEF T
  <1>9. PICK n \in Nat : \E s \in [1..n -> Rec], y \in Str :
          f[N] = Ok(s, y) /\ DecodedAs(s, n, y, d, N, known)
    BY <1>8 DEF Decoded
  <1>10. PICK s \in [1..n -> Rec], y \in Str :
          /\ f[N] = Ok(s, y) /\ Ordered(s, n) /\ Allowed(s, n, known)
          /\ d = TlvStream_encode(s) \o y
          /\ y = <<>> \/ Len(y) + N <= Len(d)
    BY <1>9 DEF DecodedAs
  <1>11. y = <<>>
    <2>1. Len(y) \in Nat
      BY StrEmpty
    <2>2. Len(y) + N <= N => Len(y) = 0
      BY <1>3, <2>1
    <2>3. QED
      BY <1>10, <2>2, StrEmpty
  <1>12. TlvStream_encode(s) = d
    BY <1>10, <1>11, StreamEncode, StrEmpty
  <1>13. QED
    BY <1>1, <1>10, <1>11, <1>12

\* Ordered streams with the same encoding are the same.
LEMMA EncodeInjective ==
  ASSUME NEW n \in Nat, NEW s \in [1..n -> Rec], Ordered(s, n),
         NEW m \in Nat, NEW u \in [1..m -> Rec], Ordered(u, m),
         TlvStream_encode(s) = TlvStream_encode(u)
  PROVE  s = u /\ n = m
  <1> DEFINE all == Uint(U64)
             d == TlvStream_encode(s)
  <1>1. ASSUME NEW k \in Nat, NEW x \in [1..k -> Rec]
        PROVE  Allowed(x, k, all)
    <2>1. \A i \in 1..k : x[i].tlv_type \in all
      BY RecIs
    <2>2. QED
      BY <2>1 DEF Allowed, Refused
  <1>2. TlvStream_decode_with_known(d, all) = Ok(s, <<>>)
    BY <1>1, DecodeOf
  <1>3. TlvStream_decode_with_known(TlvStream_encode(u), all) = Ok(u, <<>>)
    BY <1>1, DecodeOf
  <1>4. Ok(s, <<>>) = Ok(u, <<>>)
    BY <1>2, <1>3
  <1>5. s = u
    BY <1>4, OkEqual
  <1>6. Len(s) = n /\ Len(u) = m
    BY FunctionIsSeq
  <1>7. QED
    BY <1>5, <1>6

\* A stream with a record that is not allowed does not decode.
LEMMA DecodeRefused ==
  ASSUME NEW n \in Nat, NEW s \in [1..n -> Rec], NEW known, Ordered(s, n), ~Allowed(s, n, known)
  PROVE  ~Good(TlvStream_decode_with_known(TlvStream_encode(s), known))
  <1>1. SUFFICES ASSUME Good(TlvStream_decode_with_known(TlvStream_encode(s), known))
                 PROVE  FALSE
    OBVIOUS
  <1>2. TlvStream_encode(s) \in Str
    BY StreamEncode
  <1>3. PICK m \in Nat : \E u \in [1..m -> Rec] :
           /\ Ordered(u, m) /\ Allowed(u, m, known) /\ TlvStream_encode(u) = TlvStream_encode(s)
    BY <1>1, <1>2, DecodeIs
  <1>4. PICK u \in [1..m -> Rec] :
           /\ Ordered(u, m) /\ Allowed(u, m, known) /\ TlvStream_encode(u) = TlvStream_encode(s)
    BY <1>3
  <1>5. s = u /\ n = m
    BY <1>4, EncodeInjective
  <1>6. QED
    BY <1>4, <1>5

------------------------------------------------------------------------------
(* Adding records.                                                          *)

\* a is s with r before position k.
Inserted(a, s, n, k, r) ==
  /\ a \in [1..(n + 1) -> Rec] /\ a[k] = r
  /\ \A i \in 1..n : i < k => a[i] = s[i]
  /\ \A i \in 1..n : k <= i => a[i + 1] = s[i]

\* Insertion of one record, by places.
LEMMA InsertIs ==
  ASSUME NEW n \in Nat, NEW s \in [1..n -> Rec], NEW k \in 1..(n + 1), NEW r \in Rec
  PROVE  Inserted(InsertAt(s, k, r), s, n, k, r)
  <1> DEFINE x == SubSeq(s, 1, k - 1)
             y == <<r>>
             z == SubSeq(s, k, n)
             a == InsertAt(s, k, r)
  <1>1. s \in Seq(Rec) /\ Len(s) = n
    BY FunctionIsSeq
  <1>2. a = (x \o y) \o z
    BY <1>1 DEF InsertAt
  <1>3. /\ x \in Seq(Rec) /\ Len(x) = k - 1 /\ \A i \in 1..(k - 1) : x[i] = s[i]
    <2>1. 1 \in Int /\ k - 1 \in Int /\ \A i \in 1..(k - 1) : s[i] \in Rec
      OBVIOUS
    <2>2. /\ x \in Seq(Rec) /\ Len(x) = IF 1 <= k - 1 THEN ((k - 1) - 1) + 1 ELSE 0
          /\ \A i \in 1..(((k - 1) - 1) + 1) : x[i] = s[(1 + i) - 1]
      BY <2>1, SubSeqProperties
    <2>3. ((k - 1) - 1) + 1 = k - 1 /\ (IF 1 <= k - 1 THEN k - 1 ELSE 0) = k - 1
          /\ \A i \in 1..(k - 1) : (1 + i) - 1 = i
      OBVIOUS
    <2> HIDE DEF x
    <2>4. QED
      BY <2>2, <2>3
  <1>4. /\ z \in Seq(Rec) /\ Len(z) = (n - k) + 1 /\ \A i \in 1..((n - k) + 1) : z[i] = s[(k + i) - 1]
    <2>1. k \in Int /\ n \in Int /\ \A i \in k..n : s[i] \in Rec
      OBVIOUS
    <2>2. /\ z \in Seq(Rec) /\ Len(z) = IF k <= n THEN (n - k) + 1 ELSE 0
          /\ \A i \in 1..((n - k) + 1) : z[i] = s[(k + i) - 1]
      BY <2>1, SubSeqProperties
    <2>3. (IF k <= n THEN (n - k) + 1 ELSE 0) = (n - k) + 1
      OBVIOUS
    <2> HIDE DEF z
    <2>4. QED
      BY <2>2, <2>3
  <1>5. y \in Seq(Rec) /\ Len(y) = 1 /\ y[1] = r
    OBVIOUS
  <1> DEFINE w == x \o y
  <1> HIDE DEF x, y, z, a
  <1>6. /\ w \in Seq(Rec) /\ Len(w) = k
        /\ \A i \in 1..k : w[i] = IF i <= k - 1 THEN x[i] ELSE y[i - (k - 1)]
    <2>1. /\ w \in Seq(Rec) /\ Len(w) = (k - 1) + 1
          /\ \A i \in 1..((k - 1) + 1) : w[i] = IF i <= k - 1 THEN x[i] ELSE y[i - (k - 1)]
      BY <1>3, <1>5, ConcatProperties
    <2>2. (k - 1) + 1 = k
      OBVIOUS
    <2> HIDE DEF w
    <2>3. QED
      BY <2>1, <2>2
  <1> HIDE DEF w
  <1>7. /\ a \in Seq(Rec) /\ Len(a) = n + 1
        /\ \A i \in 1..(n + 1) : a[i] = IF i <= k THEN w[i] ELSE z[i - k]
    <2>1. /\ w \o z \in Seq(Rec) /\ Len(w \o z) = k + ((n - k) + 1)
          /\ \A i \in 1..(k + ((n - k) + 1)) : (w \o z)[i] = IF i <= k THEN w[i] ELSE z[i - k]
      BY <1>4, <1>6, ConcatProperties
    <2>2. k + ((n - k) + 1) = n + 1
      OBVIOUS
    <2>3. a = w \o z
      BY <1>2 DEF w
    <2>4. QED
      BY <2>1, <2>2, <2>3
  <1>8. a \in [1..(n + 1) -> Rec]
    BY <1>7, LenProperties
  <1>9. a[k] = r
    <2>1. k \in 1..k /\ k <= k /\ ~(k <= k - 1) /\ k - (k - 1) = 1
      OBVIOUS
    <2>2. a[k] = y[1]
      BY <1>6, <1>7, <2>1
    <2>3. QED
      BY <1>5, <2>2
  <1>10. ASSUME NEW i \in 1..n, i < k
         PROVE  a[i] = s[i]
    <2>1. i \in 1..k /\ i \in 1..(n + 1) /\ i <= k /\ i <= k - 1 /\ i \in 1..(k - 1)
      BY <1>10
    <2>2. QED
      BY <1>3, <1>6, <1>7, <2>1
  <1>11. ASSUME NEW i \in 1..n, k <= i
         PROVE  a[i + 1] = s[i]
    <2>1. /\ i + 1 \in 1..(n + 1) /\ ~(i + 1 <= k) /\ (i + 1) - k \in 1..((n - k) + 1)
          /\ (k + ((i + 1) - k)) - 1 = i
      BY <1>11
    <2>2. QED
      BY <1>4, <1>7, <2>1
  <1>12. QED
    BY <1>8, <1>9, <1>10, <1>11 DEF Inserted, a

\* The position of a new record.
LEMMA AddIs ==
  ASSUME NEW n \in Nat, NEW s \in [1..n -> Rec], NEW r \in Rec
  PROVE  \E k \in 1..(n + 1) :
           /\ Inserted(TlvStream_add(s, r.tlv_type, r.value), s, n, k, r)
           /\ \A i \in 1..n : i < k => s[i].tlv_type < r.tlv_type
           /\ k \in 1..n => r.tlv_type <= s[k].tlv_type
  <1> DEFINE t == r.tlv_type
             later == {i \in DOMAIN s : s[i].tlv_type >= t}
             pos == IF later = {} THEN Len(s) + 1 ELSE Min(later)
  <1>1. s \in Seq(Rec) /\ Len(s) = n /\ DOMAIN s = 1..n
    BY FunctionIsSeq
  <1>2. TlvRecord(t, r.value) = r /\ t \in Nat
    BY RecIs
  <1>3. TlvStream_add(s, t, r.value) = InsertAt(s, pos, r)
    BY <1>2 DEF TlvStream_add
  <1>4. \A i \in 1..n : s[i].tlv_type \in Nat
    BY RecIs
  <1>5. later = {i \in 1..n : t <= s[i].tlv_type}
    BY <1>1, <1>2, <1>4
  <1> HIDE DEF later, t
  <1>6. CASE later = {}
    <2>1. pos = n + 1
      BY <1>1, <1>6
    <2>2. \A i \in 1..n : s[i].tlv_type < t
      BY <1>2, <1>4, <1>5, <1>6
    <2>3. n + 1 \in 1..(n + 1) /\ n + 1 \notin 1..n
      OBVIOUS
    <2>4. Inserted(InsertAt(s, n + 1, r), s, n, n + 1, r)
      BY <2>3, InsertIs
    <2>5. QED
      BY <1>3, <2>1, <2>2, <2>3, <2>4 DEF t
  <1>7. CASE later # {}
    <2>1. \E x \in later : \A y \in later : ~(y < x)
      <3>1. later \in SUBSET Nat
        BY <1>5
      <3>2. QED
        BY <1>7, <3>1, Least
    <2>2. \E x \in later : \A y \in later : x <= y
      BY <1>5, <2>1
    <2>3. Min(later) \in later /\ \A y \in later : Min(later) <= y
      BY <2>2 DEF Min
    <2> DEFINE k == Min(later)
    <2>4. pos = k
      BY <1>7
    <2> HIDE DEF k
    <2>5. k \in 1..n /\ t <= s[k].tlv_type /\ \A i \in 1..n : t <= s[i].tlv_type => k <= i
      BY <1>5, <2>3 DEF k
    <2>6. \A i \in 1..n : i < k => s[i].tlv_type < t
      <3>1. ASSUME NEW i \in 1..n, i < k
            PROVE  s[i].tlv_type < t
        <4>1. ~(t <= s[i].tlv_type)
          BY <2>5, <3>1
        <4>2. QED
          BY <1>2, <1>4, <4>1
      <3>2. QED
        BY <3>1
    <2>7. k \in 1..(n + 1)
      BY <2>5
    <2>8. Inserted(InsertAt(s, k, r), s, n, k, r)
      BY <2>7, InsertIs
    <2>9. QED
      BY <1>3, <2>4, <2>5, <2>6, <2>7, <2>8 DEF t
  <1>8. QED
    BY <1>6, <1>7

Contents(s, n) == {s[i] : i \in 1..n}

\* TlvStream::add of a new type keeps a stream ordered and adds just this record.
LEMMA AddOrdered ==
  ASSUME NEW n \in Nat, NEW s \in [1..n -> Rec], NEW r \in Rec, Ordered(s, n),
         \A i \in 1..n : s[i].tlv_type # r.tlv_type
  PROVE  LET a == TlvStream_add(s, r.tlv_type, r.value)
         IN  /\ a \in [1..(n + 1) -> Rec] /\ Ordered(a, n + 1)
             /\ Contents(a, n + 1) = Contents(s, n) \cup {r}
  <1> DEFINE a == TlvStream_add(s, r.tlv_type, r.value)
  <1>1. PICK k \in 1..(n + 1) :
           /\ Inserted(a, s, n, k, r)
           /\ \A i \in 1..n : i < k => s[i].tlv_type < r.tlv_type
           /\ k \in 1..n => r.tlv_type <= s[k].tlv_type
    BY AddIs
  <1> HIDE DEF a
  <1>2. /\ a \in [1..(n + 1) -> Rec] /\ a[k] = r
        /\ \A i \in 1..n : i < k => a[i] = s[i]
        /\ \A i \in 1..n : k <= i => a[i + 1] = s[i]
    BY <1>1 DEF Inserted
  <1>3. r.tlv_type \in Nat /\ \A i \in 1..n : s[i].tlv_type \in Nat
    BY RecIs
  <1>4. ASSUME NEW i \in 2..(n + 1)
        PROVE  a[i - 1].tlv_type < a[i].tlv_type
    <2>1. CASE i < k
      <3>1. i \in 2..n /\ i \in 1..n /\ i - 1 \in 1..n /\ i - 1 < k
        BY <2>1
      <3>2. s[i - 1].tlv_type < s[i].tlv_type
        BY <3>1 DEF Ordered
      <3>3. QED
        BY <1>2, <2>1, <3>1, <3>2
    <2>2. CASE i = k
      <3>1. i - 1 \in 1..n /\ i - 1 < k
        BY <2>2
      <3>2. QED
        BY <1>1, <1>2, <2>2, <3>1
    <2>3. CASE i = k + 1
      <3>1. i - 1 = k /\ k \in 1..n /\ k <= k
        BY <2>3
      <3>2. r.tlv_type < s[k].tlv_type
        BY <1>1, <1>3, <3>1
      <3>3. a[k + 1] = s[k]
        BY <1>2, <3>1
      <3>4. QED
        BY <1>2, <2>3, <3>1, <3>2, <3>3
    <2>4. CASE k + 1 < i
      <3>1. /\ i - 1 \in 2..n /\ i - 1 \in 1..n /\ (i - 1) - 1 \in 1..n /\ k <= i - 1
            /\ k <= (i - 1) - 1 /\ (i - 1) + 1 = i /\ ((i - 1) - 1) + 1 = i - 1
        BY <2>4
      <3>2. s[(i - 1) - 1].tlv_type < s[i - 1].tlv_type
        BY <3>1 DEF Ordered
      <3>3. a[i] = s[i - 1] /\ a[i - 1] = s[(i - 1) - 1]
        BY <1>2, <3>1
      <3>4. QED
        BY <3>2, <3>3
    <2>5. QED
      BY <2>1, <2>2, <2>3, <2>4
  <1>5. Contents(a, n + 1) = Contents(s, n) \cup {r}
    <2>1. ASSUME NEW i \in 1..(n + 1)
          PROVE  a[i] \in Contents(s, n) \cup {r}
      <3>1. CASE i < k
        <4>1. i \in 1..n
          BY <3>1
        <4>2. QED
          BY <1>2, <3>1, <4>1 DEF Contents
      <3>2. CASE i = k
        BY <1>2, <3>2
      <3>3. CASE k < i
        <4>1. i - 1 \in 1..n /\ k <= i - 1 /\ (i - 1) + 1 = i
          BY <3>3
        <4>2. a[i] = s[i - 1]
          BY <1>2, <4>1
        <4>3. QED
          BY <4>1, <4>2 DEF Contents
      <3>4. QED
        BY <3>1, <3>2, <3>3
    <2>2. ASSUME NEW i \in 1..n
          PROVE  s[i] \in Contents(a, n + 1)
      <3>1. i \in 1..(n + 1) /\ i + 1 \in 1..(n + 1) /\ (i < k \/ k <= i)
        OBVIOUS
      <3>2. s[i] = a[i] \/ s[i] = a[i + 1]
        BY <1>2, <3>1
      <3>3. QED
        BY <3>1, <3>2 DEF Contents
    <2>3. r \in Contents(a, n + 1)
      BY <1>2 DEF Contents
    <2>4. QED
      BY <2>1, <2>2, <2>3 DEF Contents
  <1>6. QED
    BY <1>2, <1>4, <1>5 DEF Ordered, a

\* In an ordered stream an earlier record has a smaller type.
LEMMA OrderedLess ==
  ASSUME NEW n \in Nat, NEW s \in [1..n -> Rec], Ordered(s, n), NEW i \in 1..n, NEW j \in 1..n, i < j
  PROVE  s[i].tlv_type < s[j].tlv_type
  <1> DEFINE m == n - (i + 1)
             T == {k \in 0..m : s[i].tlv_type < s[(i + 1) + k].tlv_type}
  <1>1. m \in Nat /\ \A k \in 1..n : s[k].tlv_type \in Nat
    BY RecIs
  <1>2. 0 \in T
    <2>1. (i + 1) + 0 = i + 1 /\ i + 1 \in 2..n /\ (i + 1) - 1 = i /\ 0 \in 0..m
      OBVIOUS
    <2>2. QED
      BY <2>1 DEF Ordered
  <1>3. ASSUME NEW k \in 0..(m - 1), k \in T
        PROVE  k + 1 \in T
    <2> DEFINE c == (i + 1) + k
    <2>1. c + 1 = (i + 1) + (k + 1) /\ c + 1 \in 2..n /\ c \in 1..n /\ c + 1 \in 1..n /\ (c + 1) - 1 = c
          /\ k + 1 \in 0..m
      OBVIOUS
    <2>2. s[i].tlv_type < s[c].tlv_type
      BY <1>3
    <2> HIDE DEF c, m
    <2>3. s[c].tlv_type < s[c + 1].tlv_type
      BY <2>1 DEF Ordered
    <2>4. s[i].tlv_type < s[c + 1].tlv_type
      BY <1>1, <2>1, <2>2, <2>3
    <2>5. QED
      BY <2>1, <2>4
  <1> HIDE DEF T
  <1>4. \A k \in 0..m : k \in T
    BY <1>1, <1>2, <1>3, Induction
  <1>5. j - (i + 1) \in 0..m /\ (i + 1) + (j - (i + 1)) = j
    OBVIOUS
  <1>6. QED
    BY <1>4, <1>5 DEF T

\* Finding a record of an ordered stream.
LEMMA GetIs ==
  ASSUME NEW n \in Nat, NEW s \in [1..n -> Rec], Ordered(s, n)
  PROVE  /\ \A t : TlvStream_has(s, t) <=> \E r \in Contents(s, n) : r.tlv_type = t
         /\ \A r \in Contents(s, n) : TlvStream_get(s, r.tlv_type) = r.value
  <1>1. ASSUME NEW t
        PROVE  TlvStream_has(s, t) <=> \E r \in Contents(s, n) : r.tlv_type = t
    BY DEF TlvStream_has, Contents
  <1>2. ASSUME NEW i \in 1..n
        PROVE  TlvStream_get(s, s[i].tlv_type) = s[i].value
    <2> DEFINE c == CHOOSE j \in DOMAIN s : s[j].tlv_type = s[i].tlv_type
    <2>1. c \in 1..n /\ s[c].tlv_type = s[i].tlv_type
      OBVIOUS
    <2>2. TlvStream_get(s, s[i].tlv_type) = s[c].value
      BY DEF TlvStream_get
    <2> HIDE DEF c
    <2>3. c = i
      <3>1. s[c].tlv_type \in Nat /\ s[i].tlv_type \in Nat
        BY <2>1, RecIs
      <3>2. ~(c < i) /\ ~(i < c)
        BY <2>1, <3>1, OrderedLess
      <3>3. QED
        BY <2>1, <3>2
    <2>4. QED
      BY <2>2, <2>3
  <1>3. QED
    BY <1>1, <1>2 DEF Contents

\* b[i] is a stream to which those of the first i records were added that inc names.
Building(b, recs, inc, n) ==
  /\ b[0] = <<>>
  /\ \A i \in 1..n : b[i] = IF i \in inc THEN TlvStream_add(b[i - 1], recs[i].tlv_type, recs[i].value)
                            ELSE b[i - 1]

Different(recs, inc) ==
  /\ \A i \in inc : recs[i] \in Rec
  /\ \A i, j \in inc : i # j => recs[i].tlv_type # recs[j].tlv_type

\* There is a function of the streams built so far.
LEMMA BuildExists ==
  ASSUME NEW n \in Nat, NEW inc, NEW recs, Different(recs, inc)
  PROVE  \E b : b \in [0..n -> Seq(Rec)] /\ Building(b, recs, inc, n)
  <1> DEFINE S == Seq(Rec)
             F == [p \in (1..n) \X S |->
                     IF p[1] \in inc THEN TlvStream_add(p[2], recs[p[1]].tlv_type, recs[p[1]].value)
                     ELSE p[2]]
  <1>1. ASSUME NEW i \in inc, NEW x \in S
        PROVE  TlvStream_add(x, recs[i].tlv_type, recs[i].value) \in S
    <2> DEFINE m == Len(x)
               r == recs[i]
               a == TlvStream_add(x, r.tlv_type, r.value)
    <2>1. m \in Nat /\ x \in [1..m -> Rec] /\ r \in Rec
      BY LenProperties DEF Different
    <2> HIDE DEF m, r, a
    <2>2. a \in [1..(m + 1) -> Rec]
      BY <2>1, AddIs DEF Inserted, a
    <2>3. m + 1 \in Nat
      BY <2>1
    <2>4. a \in S
      BY <2>2, <2>3, FunctionIsSeq
    <2>5. QED
      BY <2>4 DEF a, r
  <1>2. IsStep(F, n, S)
    <2> HIDE DEF S
    <2>1. QED
      BY <1>1 DEF IsStep
  <1>3. \A i \in 1..n, x \in S : F[<<i, x>>] = IF i \in inc THEN TlvStream_add(x, recs[i].tlv_type, recs[i].value)
                                              ELSE x
    <2> HIDE DEF S
    <2>1. QED
      OBVIOUS
  <1>4. <<>> \in S
    OBVIOUS
  <1> HIDE DEF F, S
  <1>5. PICK b : Follows(b, F, n, S, <<>>)
    BY <1>2, <1>4, Recursion
  <1>6. b \in [0..n -> S] /\ b[0] = <<>> /\ \A i \in 1..n : b[i] = F[<<i, b[i - 1]>>]
    BY <1>5 DEF Follows
  <1>7. \A i \in 1..n : b[i - 1] \in S
    <2>1. \A i \in 1..n : i - 1 \in 0..n
      OBVIOUS
    <2>2. QED
      BY <1>6, <2>1
  <1>8. Building(b, recs, inc, n)
    BY <1>3, <1>6, <1>7 DEF Building
  <1>9. QED
    BY <1>6, <1>8 DEF S

\* s is the ordered stream of the records that inc names.
IsStreamOf(s, recs, inc) ==
  \E m \in Nat : /\ s \in [1..m -> Rec] /\ Ordered(s, m)
                 /\ Contents(s, m) = {recs[j] : j \in inc}

\* Adding records of different types, one after the other, makes their ordered stream.
LEMMA BuildIs ==
  ASSUME NEW n \in Nat, NEW inc \in SUBSET (1..n), NEW recs, Different(recs, inc),
         NEW b, Building(b, recs, inc, n)
  PROVE  IsStreamOf(b[n], recs, inc)
  <1> DEFINE C(i) == {recs[j] : j \in {k \in inc : k <= i}}
             P(i) == \E m \in Nat : /\ b[i] \in [1..m -> Rec] /\ Ordered(b[i], m)
                                    /\ Contents(b[i], m) = C(i)
             T == {i \in 0..n : P(i)}
  <1>1. 0 \in T
    <2>1. b[0] = <<>> /\ <<>> \in [1..0 -> Rec]
      BY DEF Building
    <2>2. Ordered(b[0], 0)
      <3>1. 2..0 = {}
        OBVIOUS
      <3>2. QED
        BY <3>1 DEF Ordered
    <2>3. Contents(b[0], 0) = C(0)
      <3>1. 1..0 = {} /\ {k \in inc : k <= 0} = {}
        <4>1. 1..0 = {}
          OBVIOUS
        <4>2. \A k \in inc : ~(k <= 0)
          OBVIOUS
        <4>3. QED
          BY <4>1, <4>2
      <3>2. QED
        BY <3>1 DEF Contents
    <2> HIDE DEF C
    <2>4. 0 \in Nat /\ 0 \in 0..n
      OBVIOUS
    <2>5. P(0)
      BY <2>1, <2>2, <2>3, <2>4
    <2> HIDE DEF P
    <2>6. QED
      BY <2>4, <2>5
  <1>2. ASSUME NEW i \in 0..(n - 1), i \in T
        PROVE  i + 1 \in T
    <2>1. i + 1 \in 0..n /\ i + 1 \in 1..n /\ (i + 1) - 1 = i /\ \A k \in inc : k <= i + 1 <=> k <= i \/ k = i + 1
      OBVIOUS
    <2>2. PICK m \in Nat : b[i] \in [1..m -> Rec] /\ Ordered(b[i], m) /\ Contents(b[i], m) = C(i)
      BY <1>2
    <2>3. CASE i + 1 \in inc
      <3> DEFINE s == b[i]
                 r == recs[i + 1]
                 a == TlvStream_add(s, r.tlv_type, r.value)
      <3>1. b[i + 1] = a /\ r \in Rec
        BY <2>1, <2>3 DEF Building, Different
      <3>2. \A j \in 1..m : s[j].tlv_type # r.tlv_type
        <4>1. ASSUME NEW j \in 1..m
              PROVE  s[j].tlv_type # r.tlv_type
          <5>1. s[j] \in C(i)
            BY <2>2 DEF Contents
          <5>2. PICK k \in inc : k <= i /\ s[j] = recs[k]
            BY <5>1
          <5>3. k # i + 1
            BY <5>2
          <5>4. QED
            BY <2>3, <5>2, <5>3 DEF Different
        <4>2. QED
          BY <4>1
      <3>3. s \in [1..m -> Rec] /\ Ordered(s, m) /\ Contents(s, m) = C(i)
        BY <2>2
      <3> HIDE DEF s, r, C
      <3>4. a \in [1..(m + 1) -> Rec] /\ Ordered(a, m + 1) /\ Contents(a, m + 1) = C(i) \cup {r}
        BY <3>1, <3>2, <3>3, AddOrdered
      <3>5. C(i) \cup {r} = C(i + 1)
        BY <2>1, <2>3 DEF C, r
      <3>6. m + 1 \in Nat
        OBVIOUS
      <3> HIDE DEF a
      <3>7. P(i + 1)
        BY <3>1, <3>4, <3>5, <3>6
      <3> HIDE DEF P
      <3>8. QED
        BY <2>1, <3>7
    <2>4. CASE i + 1 \notin inc
      <3>1. b[i + 1] = b[i]
        BY <2>1, <2>4 DEF Building
      <3>2. C(i + 1) = C(i)
        BY <2>1, <2>4
      <3> HIDE DEF C
      <3>3. P(i + 1)
        BY <2>2, <3>1, <3>2
      <3> HIDE DEF P
      <3>4. QED
        BY <2>1, <3>3
    <2>5. QED
      BY <2>3, <2>4
  <1> HIDE DEF T
  <1>3. \A i \in 0..n : i \in T
    BY <1>1, <1>2, Induction
  <1>4. n \in T
    BY <1>3
  <1>5. P(n)
    BY <1>4 DEF T
  <1>6. C(n) = {recs[j] : j \in inc}
    <2>1. {k \in inc : k <= n} = inc
      <3>1. \A k \in inc : k <= n
        OBVIOUS
      <3>2. QED
        BY <3>1
    <2>2. QED
      BY <2>1
  <1> HIDE DEF C
  <1>7. QED
    BY <1>5, <1>6 DEF IsStreamOf

------------------------------------------------------------------------------
(* A stream of which records were dropped or shortened.                     *)

\* k is r, or r with a shorter value.
Below(k, r) == k.tlv_type = r.tlv_type /\ (k = r \/ Len(k.value) < Len(r.value))

\* A record below another one is shorter, or the same bytes.
LEMMA BelowLen ==
  ASSUME NEW k \in Rec, NEW r \in Rec, Below(k, r)
  PROVE  \/ Len(TlvRecord_encode(k)) < Len(TlvRecord_encode(r))
         \/ TlvRecord_encode(k) = TlvRecord_encode(r)
  <1>1. CASE k = r
    BY <1>1
  <1>2. CASE Len(k.value) < Len(r.value)
    <2>1. /\ Len(k.value) \in Uint(U64) /\ Len(r.value) \in Uint(U64) /\ r.tlv_type \in Uint(U64)
          /\ k.tlv_type = r.tlv_type
      BY RecIs DEF Below
    <2>2. Len(k.value) \in Nat /\ Len(r.value) \in Nat
      BY <2>1, BigSizeForm
    <2>3. Len(BigSize_write(Len(k.value))) <= Len(BigSize_write(Len(r.value)))
      BY <1>2, <2>1, <2>2, BigSizeMonotonic
    <2> DEFINE a == Len(BigSize_write(r.tlv_type))
               b == Len(BigSize_write(Len(k.value)))
               c == Len(BigSize_write(Len(r.value)))
    <2>4. a \in Nat /\ b \in Nat /\ c \in Nat
      BY <2>1, BigSizeStr
    <2>5. Len(TlvRecord_encode(k)) = a + b + Len(k.value) /\ Len(TlvRecord_encode(r)) = a + c + Len(r.value)
      BY <2>1, RecordStr
    <2>6. b <= c
      BY <2>3
    <2> HIDE DEF a, b, c
    <2>7. a + b + Len(k.value) < a + c + Len(r.value)
      <3>1. \A x, y \in Nat : x < y => a + b + x < a + c + y
        BY <2>4, <2>6
      <3>2. QED
        BY <1>2, <2>2, <3>1
    <2>8. QED
      BY <2>5, <2>7
  <1>3. QED
    BY <1>1, <1>2 DEF Below

\* The encoding of a stream by the encodings of its first records.
LEMMA StreamFlat ==
  ASSUME NEW n \in Nat, NEW s \in [1..n -> Rec]
  PROVE  \E g : /\ g \in [0..n -> Str] /\ g[0] = <<>> /\ g[n] = TlvStream_encode(s)
                /\ \A i \in 1..n : g[i] = g[i - 1] \o TlvRecord_encode(s[i])
  <1> DEFINE e == [i \in 1..n |-> TlvRecord_encode(s[i])]
  <1>1. e \in [1..n -> Str] /\ TlvStream_encode(s) = FlattenSeq(e)
    BY StreamEncode
  <1>2. \A i \in 1..n : e[i] = TlvRecord_encode(s[i])
    OBVIOUS
  <1> HIDE DEF e
  <1>3. PICK g : IsFlat(g, e, n) /\ FlattenSeq(e) = g[n]
    BY <1>1, FlatIs
  <1>4. g \in [0..n -> Str] /\ g[0] = <<>> /\ \A i \in 1..n : g[i] = g[i - 1] \o e[i]
    BY <1>3 DEF IsFlat
  <1>5. QED
    BY <1>1, <1>2, <1>3, <1>4

\* A stream whose records are below some of another stream's is shorter, or the same bytes.
LEMMA Thinner ==
  ASSUME NEW n \in Nat, NEW s \in [1..n -> Rec], Ordered(s, n),
         NEW m \in Nat, NEW u \in [1..m -> Rec], Ordered(u, m),
         \A k \in Contents(u, m) : \E r \in Contents(s, n) : Below(k, r)
  PROVE  \/ Len(TlvStream_encode(u)) < Len(TlvStream_encode(s))
         \/ TlvStream_encode(u) = TlvStream_encode(s)
  <1>1. PICK g : /\ g \in [0..n -> Str] /\ g[0] = <<>> /\ g[n] = TlvStream_encode(s)
                 /\ \A i \in 1..n : g[i] = g[i - 1] \o TlvRecord_encode(s[i])
    BY StreamFlat
  <1>2. PICK h : /\ h \in [0..m -> Str] /\ h[0] = <<>> /\ h[m] = TlvStream_encode(u)
                 /\ \A i \in 1..m : h[i] = h[i - 1] \o TlvRecord_encode(u[i])
    BY StreamFlat
  <1> DEFINE Within(j, i) == \A l \in 1..j : \E q \in 1..i : Below(u[l], s[q])
             Less(j, i) == Len(h[j]) < Len(g[i]) \/ h[j] = g[i]
             T == {i \in 0..n : \A j \in 0..m : Within(j, i) => Less(j, i)}
  <1>3. 0 \in T
    <2>1. ASSUME NEW j \in 0..m, Within(j, 0)
          PROVE  Less(j, 0)
      <3>1. j = 0
        <4>1. SUFFICES ASSUME j # 0 PROVE FALSE
          OBVIOUS
        <4>2. 1 \in 1..j
          BY <4>1
        <4>3. \E q \in 1..0 : TRUE
          BY <2>1, <4>2
        <4>4. QED
          BY <4>3
      <3>2. QED
        BY <1>1, <1>2, <3>1
    <2> HIDE DEF Within, Less
    <2>2. 0 \in 0..n
      OBVIOUS
    <2>3. QED
      BY <2>1, <2>2
  <1>4. \A i \in 0..n : Len(g[i]) \in Nat
    BY <1>1, StrEmpty
  <1>5. \A j \in 0..m : Len(h[j]) \in Nat
    BY <1>2, StrEmpty
  <1>6. ASSUME NEW i \in 0..(n - 1), i \in T
        PROVE  i + 1 \in T
    <2>1. i + 1 \in 0..n /\ i + 1 \in 1..n /\ (i + 1) - 1 = i /\ i \in 0..n
      OBVIOUS
    <2> DEFINE a == TlvRecord_encode(s[i + 1])
    <2>2. a \in Str /\ Len(a) >= 2 /\ g[i + 1] = g[i] \o a /\ Len(g[i + 1]) = Len(g[i]) + Len(a) /\ Len(a) \in Nat
      <3>1. a \in Str /\ Len(a) >= 2 /\ Len(a) \in Nat
        BY <2>1, RecordStr
      <3>2. g[i + 1] = g[i] \o a
        BY <1>1, <2>1
      <3>3. g[i] \in Str
        BY <1>1, <2>1
      <3> HIDE DEF a
      <3>4. QED
        BY <3>1, <3>2, <3>3, StrConcat
    <2> HIDE DEF a
    <2>3. ASSUME NEW j \in 0..m, Within(j, i + 1)
          PROVE  Less(j, i + 1)
      <3>1. CASE Within(j, i)
        <4>1. Less(j, i)
          <5> HIDE DEF Within, Less
          <5>1. QED
            BY <1>6, <3>1
        <4>2. Len(h[j]) <= Len(g[i])
          BY <1>4, <1>5, <2>1, <4>1
        <4>3. Len(h[j]) < Len(g[i + 1])
          BY <1>4, <1>5, <2>1, <2>2, <4>2
        <4>4. QED
          BY <4>3
      <3>2. CASE ~Within(j, i)
        <4>1. PICK l \in 1..j : \A q \in 1..i : ~Below(u[l], s[q])
          BY <3>2
        <4>2. PICK q \in 1..(i + 1) : Below(u[l], s[q])
          BY <2>3, <4>1
        <4>3. q = i + 1
          BY <4>1, <4>2, <2>1
        <4>4. l \in 1..m /\ j \in 1..m /\ j - 1 \in 0..m
          BY <4>1
        <4>5. u[l].tlv_type = s[i + 1].tlv_type
          BY <4>2, <4>3 DEF Below
        <4>6. l = j
          <5>1. SUFFICES ASSUME l # j PROVE FALSE
            OBVIOUS
          <5>2. l < j /\ j \in 1..j
            BY <4>1, <5>1
          <5>3. u[l].tlv_type < u[j].tlv_type
            BY <4>4, <5>2, OrderedLess
          <5>4. PICK p \in 1..(i + 1) : Below(u[j], s[p])
            BY <2>3, <5>2
          <5>5. p \in 1..n /\ u[j].tlv_type = s[p].tlv_type
            BY <2>1, <5>4 DEF Below
          <5>6. s[p].tlv_type \in Nat /\ s[i + 1].tlv_type \in Nat
            BY <2>1, <5>5, RecIs
          <5>7. p < i + 1 => s[p].tlv_type < s[i + 1].tlv_type
            BY <2>1, <5>5, OrderedLess
          <5>8. p < i + 1 \/ p = i + 1
            BY <2>1
          <5>9. s[i + 1].tlv_type < s[p].tlv_type
            BY <4>5, <5>3, <5>5
          <5>10. QED
            BY <5>6, <5>7, <5>8, <5>9
        <4>7. Within(j - 1, i)
          <5>1. ASSUME NEW k \in 1..(j - 1)
                PROVE  \E p \in 1..i : Below(u[k], s[p])
            <6>1. k \in 1..j /\ k \in 1..m /\ k < j
              BY <4>4
            <6>2. PICK p \in 1..(i + 1) : Below(u[k], s[p])
              BY <2>3, <6>1
            <6>3. u[k].tlv_type < u[j].tlv_type
              BY <4>4, <6>1, OrderedLess
            <6>4. p # i + 1
              <7>1. SUFFICES ASSUME p = i + 1 PROVE FALSE
                OBVIOUS
              <7>2. u[k].tlv_type = s[i + 1].tlv_type
                BY <6>2, <7>1 DEF Below
              <7>3. u[k].tlv_type = u[j].tlv_type
                BY <4>5, <4>6, <7>2
              <7>4. u[j].tlv_type \in Nat /\ u[k].tlv_type \in Nat
                BY <4>4, <6>1, RecIs
              <7>5. QED
                BY <6>3, <7>3, <7>4
            <6>5. p \in 1..i
              BY <6>4, <2>1
            <6>6. QED
              BY <6>2, <6>5
          <5>2. QED
            BY <5>1
        <4>8. Less(j - 1, i)
          <5> HIDE DEF Within, Less
          <5>1. QED
            BY <1>6, <4>4, <4>7
        <4> DEFINE b == TlvRecord_encode(u[j])
        <4>9. b \in Str /\ Len(b) \in Nat /\ h[j] = h[j - 1] \o b /\ Len(h[j]) = Len(h[j - 1]) + Len(b)
          <5>1. b \in Str /\ Len(b) \in Nat /\ h[j] = h[j - 1] \o b
            BY <1>2, <4>4, RecordStr
          <5>2. h[j - 1] \in Str
            BY <1>2, <4>4
          <5> HIDE DEF b
          <5>3. QED
            BY <5>1, <5>2, StrConcat
        <4>10. Len(b) < Len(a) \/ b = a
          <5>1. Below(u[j], s[i + 1]) /\ u[j] \in Rec /\ s[i + 1] \in Rec
            BY <2>1, <4>2, <4>3, <4>4, <4>6
          <5>2. QED
            BY <5>1, BelowLen DEF a
        <4> HIDE DEF b, Within
        <4>11. Len(h[j]) < Len(g[i + 1]) \/ h[j] = g[i + 1]
          <5>1. CASE Len(h[j - 1]) < Len(g[i])
            <6>1. Len(b) <= Len(a)
              BY <2>2, <4>9, <4>10
            <6>2. Len(h[j - 1]) \in Nat /\ Len(g[i]) \in Nat
              BY <1>4, <1>5, <2>1, <4>4
            <6>3. \A v, w, x, y \in Nat : v < w /\ x <= y => v + x < w + y
              OBVIOUS
            <6>4. Len(h[j]) < Len(g[i + 1])
              BY <2>2, <4>9, <5>1, <6>1, <6>2, <6>3
            <6>5. QED
              BY <6>4
          <5>2. CASE h[j - 1] = g[i] /\ Len(b) < Len(a)
            BY <1>4, <1>5, <2>1, <2>2, <4>4, <4>9, <5>2
          <5>3. CASE h[j - 1] = g[i] /\ b = a
            BY <2>2, <4>9, <5>3
          <5>4. QED
            BY <4>8, <4>10, <5>1, <5>2, <5>3
        <4>12. QED
          BY <4>11
      <3>3. QED
        BY <3>1, <3>2
    <2> HIDE DEF Within, Less
    <2>4. QED
      BY <2>1, <2>3
  <1>7. Within(m, n)
    <2>1. ASSUME NEW l \in 1..m
          PROVE  \E q \in 1..n : Below(u[l], s[q])
      BY DEF Contents
    <2>2. QED
      BY <2>1
  <1> HIDE DEF T
  <1>8. \A i \in 0..n : i \in T
    BY <1>3, <1>6, Induction
  <1>9. n \in T
    BY <1>8
  <1> HIDE DEF Within, Less
  <1>10. Less(m, n)
    BY <1>7, <1>9 DEF T
  <1>11. QED
    BY <1>1, <1>2, <1>10 DEF Less
==============================================================================
