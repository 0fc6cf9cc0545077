---------------------------- MODULE NumberLemmas ----------------------------
(***************************************************************************)
(* Facts about the natural numbers that several of the proofs need, and    *)
(* about the numbers in file names (module FileNames).  The library states *)
(* induction with an operator as a parameter; LeastNat gives the same      *)
(* through a smallest counterexample.                                      *)
(***************************************************************************)
EXTENDS FileNames, WellFoundedInduction, TLAPS

\* Every set of naturals that is not empty has a least element.
LEMMA LeastNat ==
  ASSUME NEW T, T \subseteq Nat, T # {}
  PROVE  \E x \in T : \A y \in T : x <= y
<1> DEFINE R == OpToRel(<, Nat)
<1>1. IsWellFoundedOn(R, Nat)
  BY NatLessThanWellFounded
<1>2. \A x, y \in Nat : x < y => <<x, y>> \in R
  BY DEF OpToRel
<1> HIDE DEF R
<1>3. PICK x \in T : \A y \in T : ~(<<y, x>> \in R)
  BY <1>1, WFMin, Zenon
<1>4. \A y \in T : ~(y < x)
  BY <1>2, <1>3, Zenon
<1>5. \A y \in T : x <= y
  BY <1>4
<1> QED BY <1>5

\* ... and, if it is bounded, a greatest one.
LEMMA GreatestNat ==
  ASSUME NEW T, T \subseteq Nat, T # {}, NEW n \in Nat, \A y \in T : y <= n
  PROVE  \E x \in T : \A y \in T : y <= x
<1> DEFINE U == {n - y : y \in T}
<1>1. U \subseteq Nat
  OBVIOUS
<1>2. U # {}
  <2>1. PICK y \in T : TRUE
    OBVIOUS
  <2>2. n - y \in U
    BY <2>1
  <2> QED BY <2>2
<1>3. PICK u \in U : \A v \in U : u <= v
  BY <1>1, <1>2, LeastNat
<1>4. PICK x \in T : u = n - x
  OBVIOUS
<1>5. \A y \in T : n - x <= n - y
  BY <1>3, <1>4
<1> QED BY <1>5
-----------------------------------------------------------------------------
LEMMA TimesMono ==
  ASSUME NEW f \in Nat, NEW x \in Nat, NEW y \in Nat, x <= y
  PROVE  f * x <= f * y
<1>1. PICK d \in Nat : y = x + d
  <2>1. y - x \in Nat /\ y = x + (y - x)
    OBVIOUS
  <2> QED BY <2>1
<1>2. f * y = f * x + f * d
  BY <1>1
<1>3. f * d \in Nat /\ f * x \in Nat
  OBVIOUS
<1> QED BY <1>2, <1>3

LEMMA DivMono ==
  ASSUME NEW f \in Nat \ {0}, NEW a \in Nat, NEW b \in Nat, a <= b
  PROVE  a \div f <= b \div f
<1>1. PICK q \in Nat, p \in Nat : q = a \div f /\ p = b \div f
  <2>1. a \div f \in Nat /\ b \div f \in Nat
    OBVIOUS
  <2> QED BY <2>1
<1>2. f * q <= a /\ b < f * (p + 1)
  <2>1. a = f * (a \div f) + (a % f) /\ a % f \in 0..(f - 1)
    OBVIOUS
  <2>2. b = f * (b \div f) + (b % f) /\ b % f \in 0..(f - 1)
    OBVIOUS
  <2>3. f * (p + 1) = f * p + f
    OBVIOUS
  <2>4. f * p \in Nat /\ f * q \in Nat
    OBVIOUS
  <2> QED BY <1>1, <2>1, <2>2, <2>3, <2>4
<1>3. SUFFICES ASSUME p + 1 <= q PROVE FALSE
  BY <1>1
<1>4. f * (p + 1) <= f * q
  BY <1>3, TimesMono
<1>5. f * (p + 1) \in Nat /\ f * q \in Nat
  OBVIOUS
<1> QED BY <1>2, <1>4, <1>5

\* Induction up to n.
LEMMA CountUp ==
  ASSUME NEW n \in Nat, NEW T, 0 \in T, \A i \in 1..n : i - 1 \in T => i \in T
  PROVE  \A i \in 0..n : i \in T
<1> DEFINE U == {i \in 0..n : i \notin T}
<1> SUFFICES ASSUME U # {} PROVE FALSE
  OBVIOUS
<1>1. U \subseteq Nat
  OBVIOUS
<1>2. PICK m \in U : \A y \in U : m <= y
  BY <1>1, LeastNat
<1>3. m \in 1..n /\ m - 1 \in 0..n /\ m - 1 < m
  BY <1>2
<1>4. m - 1 \notin U
  BY <1>2, <1>3
<1> QED BY <1>2, <1>3, <1>4

\* f counts up from 0 to n; g is the step.
CountsTo(f, n, a, g) == f = [i \in 0..n |-> IF i = 0 THEN a ELSE g[<<i, f[i - 1]>>]]

\* A function that counts up exists, and has the type of its steps.
LEMMA RecursionUp ==
  ASSUME NEW S, NEW a \in S, NEW g \in [Nat \X S -> S], NEW n \in Nat
  PROVE  \E f \in [0..n -> S] : CountsTo(f, n, a, g)
<1> DEFINE T == {m \in Nat : ~\E f \in [0..m -> S] : CountsTo(f, m, a, g)}
<1> SUFFICES ASSUME T # {} PROVE FALSE
  OBVIOUS
<1>1. PICK m \in T : \A y \in T : m <= y
  BY LeastNat
<1>2. m # 0
  <2> SUFFICES ASSUME m = 0 PROVE \E f \in [0..0 -> S] : CountsTo(f, 0, a, g)
    BY <1>1
  <2> DEFINE f == [i \in 0..0 |-> a]
  <2>1. f \in [0..0 -> S] /\ f = [i \in 0..0 |-> IF i = 0 THEN a ELSE g[<<i, f[i - 1]>>]]
    OBVIOUS
  <2> HIDE DEF f
  <2> QED BY <2>1 DEF CountsTo
<1>3. m \in Nat /\ m - 1 \in Nat /\ m - 1 \notin T
  <2>1. m \in Nat /\ m - 1 \in Nat
    BY <1>1, <1>2
  <2> HIDE DEF T
  <2> QED BY <1>1, <2>1
<1>4. PICK h \in [0..(m - 1) -> S] : CountsTo(h, m - 1, a, g)
  BY <1>3
<1>5. \A i \in 0..(m - 1) : h[i] = IF i = 0 THEN a ELSE g[<<i, h[i - 1]>>]
  BY <1>4, Zenon DEF CountsTo
<1> DEFINE e == [i \in 0..m |-> IF i = m THEN g[<<m, h[m - 1]>>] ELSE h[i]]
<1>6. h[m - 1] \in S /\ g[<<m, h[m - 1]>>] \in S
  BY <1>3, <1>4
<1>7. /\ \A i \in 0..(m - 1) : i \in 0..m /\ e[i] = h[i] /\ h[i] \in S
      /\ e[m] = g[<<m, h[m - 1]>>]
      /\ \A i \in 0..m : i \in 0..(m - 1) \/ i = m
  BY <1>2, <1>3, <1>4
<1>8. \A i \in 0..m : e[i] \in S
  BY <1>6, <1>7
<1>9. ASSUME NEW i \in 0..m
      PROVE  e[i] = IF i = 0 THEN a ELSE g[<<i, e[i - 1]>>]
  <2>1. CASE i = m
    <3>1. m - 1 \in 0..(m - 1)
      BY <1>3
    <3> QED BY <1>2, <1>7, <2>1, <3>1
  <2>2. CASE i # m
    <3>1. i \in 0..(m - 1) /\ (i # 0 => i - 1 \in 0..(m - 1))
      BY <1>3, <2>2
    <3>2. e[i] = h[i] /\ (i # 0 => e[i - 1] = h[i - 1])
      BY <1>7, <3>1
    <3> QED BY <1>5, <3>1, <3>2
  <2> QED BY <2>1, <2>2
<1>10. e \in [0..m -> S] /\ e = [i \in 0..m |-> IF i = 0 THEN a ELSE g[<<i, e[i - 1]>>]]
  <2>1. e \in [0..m -> S]
    BY <1>8
  <2>2. DOMAIN e = 0..m
    OBVIOUS
  <2> HIDE DEF e
  <2> QED BY <1>9, <2>1, <2>2
<1>11. e \in [0..m -> S] /\ CountsTo(e, m, a, g)
  <2> HIDE DEF e
  <2> QED BY <1>10 DEF CountsTo
<1> QED BY <1>1, <1>11
-----------------------------------------------------------------------------
\* The tenth of a number and its last digit.
LEMMA TenthLess == \A n \in Nat \ {0} : n \div 10 \in Nat /\ n \div 10 < n /\ n % 10 \in 0..9
                                       /\ n = 10 * (n \div 10) + (n % 10)
OBVIOUS

\* f goes on from a number to its tenth, down to 0.
ByTens(f, S, a, g) ==
  /\ f \in [Nat -> S]
  /\ \A n \in Nat : f[n] = IF n = 0 THEN a ELSE g[<<n, f[n \div 10]>>]

\* A function that goes on from a number to its tenth exists and has the type of
\* its steps (induction over the digits, through smallest counterexamples).
LEMMA RecursionByTens ==
  ASSUME NEW S, NEW a \in S, NEW g \in [Nat \X S -> S]
  PROVE  \E f : ByTens(f, S, a, g)
<1> DEFINE Part(h, k) ==
             /\ h \in [0..k -> S]
             /\ \A n \in 0..k : h[n] = IF n = 0 THEN a ELSE g[<<n, h[n \div 10]>>]
<1>1. \A n \in Nat \ {0} : n \div 10 \in 0..(n - 1)
  BY TenthLess
<1>2. ASSUME NEW k \in Nat PROVE \E h : Part(h, k)
  <2> DEFINE T == {m \in Nat : ~\E h : Part(h, m)}
  <2> SUFFICES ASSUME T # {} PROVE FALSE
    OBVIOUS
  <2>1. PICK m \in T : \A y \in T : m <= y
    BY LeastNat
  <2>2. m # 0
    <3> SUFFICES ASSUME m = 0 PROVE Part([n \in 0..0 |-> a], 0)
      OBVIOUS
    <3> QED OBVIOUS
  <2>3. m - 1 \in Nat /\ m - 1 \notin T
    <3>1. m \in Nat
      BY <2>1
    <3>2. m - 1 \in Nat /\ m - 1 < m
      BY <2>2, <3>1
    <3> HIDE DEF T
    <3> QED BY <2>1, <3>1, <3>2
  <2>4. PICK h : Part(h, m - 1)
    BY <2>3
  <2> DEFINE e == [n \in 0..m |-> IF n = m THEN g[<<m, h[m \div 10]>>] ELSE h[n]]
  <2>5. h[m \div 10] \in S /\ m \in Nat \ {0} /\ m \div 10 \in 0..(m - 1)
    BY <1>1, <2>2, <2>4
  <2>6. \A n \in 0..(m - 1) : e[n] = h[n] /\ h[n] \in S /\ n \in 0..m
    BY <2>4, <2>5
  <2>7. e[m] = g[<<m, h[m \div 10]>>] /\ e[m] \in S
    BY <2>5
  <2>8. e \in [0..m -> S]
    <3>1. \A n \in 0..m : n \in 0..(m - 1) \/ n = m
      BY <2>5
    <3>2. \A n \in 0..m : e[n] \in S
      BY <2>6, <2>7, <3>1
    <3> QED BY <3>2
  <2>9. ASSUME NEW n \in 0..m
        PROVE  e[n] = IF n = 0 THEN a ELSE g[<<n, e[n \div 10]>>]
    <3>1. CASE n = m
      BY <2>5, <2>6, <2>7, <3>1
    <3>2. CASE n # m
      <4>1. n \in 0..(m - 1) /\ (n # 0 => n \div 10 \in 0..(m - 1))
        BY <1>1, <2>5, <3>2
      <4>2. e[n] = h[n] /\ (n # 0 => e[n \div 10] = h[n \div 10])
        BY <2>6, <4>1
      <4>3. h[n] = IF n = 0 THEN a ELSE g[<<n, h[n \div 10]>>]
        BY <2>4, <4>1
      <4> QED BY <4>2, <4>3
    <3> QED BY <3>1, <3>2
  <2> HIDE DEF e
  <2> QED BY <2>8, <2>9
<1>3. ASSUME NEW k \in Nat, NEW m \in Nat, NEW h, NEW e, Part(h, k), Part(e, m), k <= m,
             NEW j \in 0..k
      PROVE  h[j] = e[j]
  <2> DEFINE T == {n \in 0..k : h[n] # e[n]}
  <2> SUFFICES ASSUME T # {} PROVE FALSE
    OBVIOUS
  <2>1. T \subseteq Nat
    OBVIOUS
  <2>2. PICK n \in T : \A y \in T : n <= y
    BY <2>1, LeastNat
  <2>3. n \in 0..k /\ n \in 0..m /\ n \in Nat
    BY <1>3, <2>2
  <2>4. n # 0
    BY <1>3, <2>2, <2>3
  <2>5. n \div 10 \in 0..k /\ n \div 10 < n
    BY <1>1, <2>3, <2>4
  <2>6. h[n \div 10] = e[n \div 10]
    BY <2>2, <2>3, <2>5
  <2> QED BY <1>3, <2>2, <2>3, <2>4, <2>6
<1> DEFINE P(n) == CHOOSE h : Part(h, n)
           f == [n \in Nat |-> P(n)[n]]
<1>4. \A n \in Nat : Part(P(n), n)
  BY <1>2
<1> HIDE DEF P, Part
<1>5. ASSUME NEW n \in Nat
      PROVE  f[n] \in S /\ f[n] = IF n = 0 THEN a ELSE g[<<n, f[n \div 10]>>]
  <2>1. Part(P(n), n) /\ f[n] = P(n)[n]
    BY <1>4
  <2>2. P(n)[n] \in S /\ P(n)[n] = IF n = 0 THEN a ELSE g[<<n, P(n)[n \div 10]>>]
    BY <2>1 DEF Part
  <2>3. CASE n = 0
    BY <2>1, <2>2, <2>3
  <2>4. CASE n # 0
    <3>1. n \div 10 \in Nat /\ n \div 10 <= n /\ n \div 10 \in 0..(n \div 10)
      BY <1>1, <2>4
    <3>2. P(n \div 10)[n \div 10] = P(n)[n \div 10]
      BY <1>3, <1>4, <3>1
    <3>3. f[n \div 10] = P(n \div 10)[n \div 10]
      BY <3>1
    <3> QED BY <2>1, <2>2, <3>2, <3>3
  <2> QED BY <2>3, <2>4
<1>6. f \in [Nat -> S]
  BY <1>5
<1>7. \A n \in Nat : f[n] = IF n = 0 THEN a ELSE g[<<n, f[n \div 10]>>]
  BY <1>5
<1> HIDE DEF f
<1> QED BY <1>6, <1>7 DEF ByTens

\* What the two functions of FileNames are: their own right-hand sides.
LEMMA OctalDigitsDef ==
  OctalDigits = [n \in Nat |-> n = 0 \/ (n % 10 < 8 /\ OctalDigits[n \div 10])]
<1> DEFINE G == [x \in Nat \X BOOLEAN |-> x[1] % 10 < 8 /\ x[2]]
<1>1. G \in [Nat \X BOOLEAN -> BOOLEAN]
  BY Zenon
<1>2. PICK f : ByTens(f, BOOLEAN, TRUE, G)
  <2>1. TRUE \in BOOLEAN
    OBVIOUS
  <2> HIDE DEF G
  <2> QED BY <1>1, <2>1, RecursionByTens
<1>3. f = [n \in Nat |-> n = 0 \/ (n % 10 < 8 /\ f[n \div 10])]
  <2>1. ASSUME NEW n \in Nat
        PROVE  f[n] = (n = 0 \/ (n % 10 < 8 /\ f[n \div 10]))
    <3>1. f[n] = IF n = 0 THEN TRUE ELSE G[<<n, f[n \div 10]>>]
      BY <1>2, Zenon DEF ByTens
    <3>2. CASE n = 0
      BY <3>1, <3>2
    <3>3. CASE n # 0
      <4>1. n \div 10 \in Nat
        BY <3>3, TenthLess
      <4>2. f[n \div 10] \in BOOLEAN
        BY <1>2, <4>1 DEF ByTens
      <4>3. <<n, f[n \div 10]>> \in Nat \X BOOLEAN
        BY <4>2
      <4>4. G[<<n, f[n \div 10]>>] = (n % 10 < 8 /\ f[n \div 10])
        BY <4>3, Zenon
      <4> QED BY <3>1, <3>3, <4>4
    <3> QED BY <3>2, <3>3
  <2> QED BY <1>2, <2>1 DEF ByTens
<1> QED BY <1>3 DEF OctalDigits

LEMMA OctalPrefixDef ==
  OctalPrefix = [n \in Nat |-> IF n = 0 THEN 0
                               ELSE IF OctalDigits[n] THEN 8 * OctalPrefix[n \div 10] + (n % 10)
                               ELSE OctalPrefix[n \div 10]]
<1> DEFINE G == [x \in Nat \X Nat |-> IF OctalDigits[x[1]] THEN 8 * x[2] + (x[1] % 10)
                                      ELSE x[2]]
<1>1. G \in [Nat \X Nat -> Nat]
  OBVIOUS
<1>2. PICK f : ByTens(f, Nat, 0, G)
  <2>1. 0 \in Nat
    OBVIOUS
  <2> HIDE DEF G
  <2> QED BY <1>1, <2>1, RecursionByTens
<1>3. f = [n \in Nat |-> IF n = 0 THEN 0
                         ELSE IF OctalDigits[n] THEN 8 * f[n \div 10] + (n % 10)
                         ELSE f[n \div 10]]
  <2>1. ASSUME NEW n \in Nat
        PROVE  f[n] = IF n = 0 THEN 0
                      ELSE IF OctalDigits[n] THEN 8 * f[n \div 10] + (n % 10)
                      ELSE f[n \div 10]
    <3>1. f[n] = IF n = 0 THEN 0 ELSE G[<<n, f[n \div 10]>>]
      BY <1>2, Zenon DEF ByTens
    <3>2. CASE n = 0
      BY <3>1, <3>2
    <3>3. CASE n # 0
      <4>1. n \div 10 \in Nat
        BY <3>3, TenthLess
      <4>2. f[n \div 10] \in Nat
        BY <1>2, <4>1 DEF ByTens
      <4>3. <<n, f[n \div 10]>> \in Nat \X Nat
        BY <4>2
      <4>4. G[<<n, f[n \div 10]>>] = IF OctalDigits[n] THEN 8 * f[n \div 10] + (n % 10)
                                     ELSE f[n \div 10]
        BY <4>3
      <4> QED BY <3>1, <3>3, <4>4
    <3> QED BY <3>2, <3>3
  <2> QED BY <1>2, <2>1 DEF ByTens
<1> QED BY <1>3 DEF OctalPrefix

\* Reading a number in octal gives a number, never a larger one, and a smaller
\* one as soon as there are two digits or an 8 or a 9.
LEMMA OctalPrefixBound ==
  ASSUME NEW n \in Nat
  PROVE  /\ OctalPrefix[n] \in Nat
         /\ n < 8 => OctalPrefix[n] = n
         /\ n >= 8 => OctalPrefix[n] < n
<1> DEFINE Bound(k) == /\ OctalPrefix[k] \in Nat
                       /\ k < 8 => OctalPrefix[k] = k
                       /\ k >= 8 => OctalPrefix[k] < k
           T == {k \in Nat : ~Bound(k)}
<1> SUFFICES ASSUME T # {} PROVE FALSE
  OBVIOUS
<1>1. PICK k \in T : \A y \in T : k <= y
  BY LeastNat
<1>2. k \in Nat
  BY <1>1
<1>3. OctalPrefix[k] = IF k = 0 THEN 0
                       ELSE IF OctalDigits[k] THEN 8 * OctalPrefix[k \div 10] + (k % 10)
                       ELSE OctalPrefix[k \div 10]
  BY <1>2, OctalPrefixDef, Zenon
<1>4. k # 0
  <2> SUFFICES ASSUME k = 0 PROVE Bound(k)
    BY <1>1
  <2> QED BY <1>3
<1>5. /\ k \div 10 \in Nat /\ k \div 10 < k /\ k % 10 \in 0..9
      /\ k = 10 * (k \div 10) + (k % 10)
  BY <1>2, <1>4, TenthLess
<1>6. Bound(k \div 10)
  <2>1. k \div 10 \notin T
    <3> HIDE DEF T
    <3> QED BY <1>1, <1>2, <1>5
  <2> QED BY <1>5, <2>1
<1>7. OctalDigits[k] = (k % 10 < 8 /\ OctalDigits[k \div 10])
  <2>1. OctalDigits[k] = (k = 0 \/ (k % 10 < 8 /\ OctalDigits[k \div 10]))
    BY <1>2, OctalDigitsDef, Zenon
  <2>2. (k = 0 \/ (k % 10 < 8 /\ OctalDigits[k \div 10])) \in BOOLEAN
    OBVIOUS
  <2> QED BY <1>4, <2>1
<1>8. OctalPrefix[k \div 10] \in Nat /\ OctalPrefix[k \div 10] <= k \div 10
  BY <1>5, <1>6
<1>9. OctalDigits[0]
  BY OctalDigitsDef
<1>10. CASE k < 8
  <2>1. k \div 10 = 0 /\ k % 10 = k
    BY <1>5, <1>10
  <2>2. OctalDigits[k]
    BY <1>7, <1>9, <1>10, <2>1
  <2>3. OctalPrefix[0] = 0
    BY OctalPrefixDef
  <2>4. OctalPrefix[k] = k
    BY <1>2, <1>3, <1>4, <2>1, <2>2, <2>3
  <2> QED BY <1>1, <1>2, <1>10, <2>4
<1>11. CASE k >= 8
  <2>1. OctalPrefix[k] \in Nat /\ OctalPrefix[k] < k
    <3>1. CASE OctalDigits[k]
      <4>1. OctalPrefix[k] = 8 * OctalPrefix[k \div 10] + (k % 10) /\ k % 10 < 8
        BY <1>3, <1>4, <1>7, <3>1
      <4>2. k \div 10 > 0
        BY <1>5, <1>11, <4>1
      <4> HIDE DEF T
      <4> QED BY <1>5, <1>8, <4>1, <4>2
    <3>2. CASE ~OctalDigits[k]
      <4>1. OctalPrefix[k] = OctalPrefix[k \div 10]
        BY <1>3, <1>4, <3>2
      <4> QED BY <1>2, <1>5, <1>8, <4>1
    <3> QED BY <3>1, <3>2
  <2> QED BY <1>1, <1>2, <1>11, <2>1
<1> QED BY <1>2, <1>10, <1>11

\* A file number comes back from its name only if it has one octal digit or no
\* leading zero: below 100000, ParsefileName reads what MakeFileName printed as
\* octal, and every number from 8 on as a smaller one.
THEOREM ReadBack ==
  \A n \in Nat : /\ ParsedNumber(n) \in Nat /\ ParsedNumber(n) <= n
                 /\ ParsedNumber(n) = n <=> (n < 8 \/ n >= 100000)
<1> SUFFICES ASSUME NEW n \in Nat
             PROVE  /\ ParsedNumber(n) \in Nat /\ ParsedNumber(n) <= n
                    /\ ParsedNumber(n) = n <=> (n < 8 \/ n >= 100000)
  OBVIOUS
<1>1. /\ OctalPrefix[n] \in Nat
      /\ n < 8 => OctalPrefix[n] = n
      /\ n >= 8 => OctalPrefix[n] < n
  BY OctalPrefixBound
<1> QED BY <1>1 DEF ParsedNumber
=============================================================================
