------------------------ MODULE FxyPtyNumbersProofs ------------------------
(***************************************************************************)
(* Facts about C integers and the table of powers, and the theorem that    *)
(* the 16 stored bytes of a value give the value back.                     *)
(***************************************************************************)
EXTENDS FxyPtyNumbers, WellFoundedInduction, TLAPS

\* Division with remainder by a positive integer.
LEMMA DivMod ==
  ASSUME NEW a \in Int, NEW b \in Nat, b > 0
  PROVE  /\ a \div b \in Int
         /\ a % b \in 0..(b - 1)
         /\ a = (b * (a \div b)) + (a % b)
  BY Z3

\* Quotient and remainder are determined by their equation.
LEMMA DivModUnique ==
  ASSUME NEW a \in Int, NEW b \in Nat, b > 0,
         NEW q \in Int, NEW r \in 0..(b - 1), a = (b * q) + r
  PROVE  a \div b = q /\ a % b = r
<1> DEFINE Q == a \div b
           R == a % b
<1>1. Q \in Int /\ R \in 0..(b - 1) /\ a = (b * Q) + R
  BY DivMod
<1> HIDE DEF Q, R
<1>2. b * (Q - q) = r - R
  BY <1>1
<1>3. Q - q < 1 /\ Q - q > -1
  BY <1>1, <1>2
<1>4. QED
  BY <1>1, <1>2, <1>3 DEF Q, R

LEMMA HalfWordType == HalfWord \in Nat /\ HalfWord > 0 /\ Word = 2 * HalfWord
  BY NumbersAssumption, DivMod DEF HalfWord

\* Induction over the naturals, as the choice of a least counterexample.
LEMMA LeastNatural ==
  ASSUME NEW D, D \subseteq Nat, D # {}
  PROVE  \E m \in D : \A n \in D : m <= n
<1>1. PICK m \in D : \A n \in D : ~ (<<n, m>> \in OpToRel(<, Nat))
  BY NatLessThanWellFounded, WFMin
<1>2. ASSUME NEW n \in D PROVE ~ (n < m)
  <2>1. <<n, m>> \in Nat \X Nat
    OBVIOUS
  <2>2. ~ (<<n, m>>[1] < <<n, m>>[2])
    BY <1>1, <2>1 DEF OpToRel
  <2>3. QED
    BY <2>2
<1>3. QED
  BY <1>2

LEMMA PowType == \A i \in 0..MaxPow : Pow[i] \in Nat /\ Pow[i] > 0
<1> DEFINE D == { i \in 0..MaxPow : ~ (Pow[i] \in Nat /\ Pow[i] > 0) }
<1>1. SUFFICES ASSUME D # {} PROVE FALSE
  OBVIOUS
<1>2. D \subseteq Nat
  BY NumbersAssumption
<1>3. PICK m \in D : \A n \in D : m <= n
  <2> HIDE DEF D
  <2>1. QED
    BY <1>1, <1>2, LeastNatural
<1>4. CASE m = 0
  BY <1>4, PowAssumption
<1>5. CASE m # 0
  <2> DEFINE k == m - 1
  <2>1. k \in 0..(MaxPow - 1) /\ k \in 0..MaxPow /\ m = k + 1
    BY <1>5, NumbersAssumption
  <2>2. Pow[k] \in Nat /\ Pow[k] > 0
    BY <1>3, <2>1
  <2>3. Pow[m] = Base * Pow[k]
    BY <2>1, PowAssumption
  <2> HIDE DEF k
  <2>4. Base * Pow[k] \in Nat /\ Base * Pow[k] > 0
    BY <2>2, NumbersAssumption
  <2>5. QED
    BY <2>3, <2>4
<1>6. QED
  BY <1>4, <1>5

\* Exponents add when entries of the table multiply.
LEMMA PowSum ==
  ASSUME NEW i \in Nat, NEW j \in Nat, i + j <= MaxPow
  PROVE  Pow[i + j] = Pow[i] * Pow[j]
<1> DEFINE D == { n \in 0..(MaxPow - i) : Pow[i + n] # Pow[i] * Pow[n] }
<1>1. SUFFICES ASSUME D # {} PROVE FALSE
  <2>1. j \in 0..(MaxPow - i)
    BY NumbersAssumption
  <2>2. QED
    BY <2>1
<1>2. D \subseteq Nat
  BY NumbersAssumption
<1>3. PICK m \in D : \A n \in D : m <= n
  <2> HIDE DEF D
  <2>1. QED
    BY <1>1, <1>2, LeastNatural
<1>4. i \in 0..MaxPow /\ Pow[i] \in Int
  BY NumbersAssumption, PowType
<1>5. CASE m = 0
  BY <1>4, <1>5, PowAssumption
<1>6. CASE m # 0
  <2> DEFINE k == m - 1
             p == Pow[i]
             q == Pow[k]
  <2>1. k \in 0..(MaxPow - 1) /\ k \in 0..MaxPow /\ k \in 0..(MaxPow - i)
        /\ i + k \in 0..(MaxPow - 1) /\ m = k + 1 /\ i + m = (i + k) + 1
    BY <1>6, NumbersAssumption
  <2>2. Pow[i + k] = p * q
    BY <1>3, <2>1
  <2>3. Pow[m] = Base * q /\ Pow[i + m] = Base * Pow[i + k]
    <3> HIDE DEF k, q
    <3>1. QED
      BY <2>1, PowAssumption DEF q
  <2>4. q \in Int
    BY <2>1, PowType
  <2> HIDE DEF k, p, q
  <2>5. Base * (p * q) = p * (Base * q)
    BY <1>4, <2>4, NumbersAssumption DEF p
  <2>6. QED
    BY <1>3, <2>2, <2>3, <2>5 DEF p
<1>7. QED
  BY <1>5, <1>6

LEMMA PowMonotone ==
  ASSUME NEW i \in 0..MaxPow, NEW j \in 0..MaxPow, i <= j
  PROVE  Pow[i] <= Pow[j]
<1> DEFINE d == j - i
<1>1. d \in 0..MaxPow /\ i + d = j
  BY NumbersAssumption
<1>2. Pow[j] = Pow[i] * Pow[d]
  BY <1>1, PowSum, NumbersAssumption
<1>3. Pow[i] \in Nat /\ Pow[d] \in Nat /\ Pow[d] >= 1
  BY <1>1, PowType
<1>4. QED
  BY <1>2, <1>3

-----------------------------------------------------------------------------
(***************************************************************************)
(* Strings of digits.  A string has a digit for each place, place 0 being  *)
(* the rightmost, and spells a number; its length and that number          *)
(* determine it, which is why the models keep those two.                   *)
(***************************************************************************)
Strings(n) == [0..(n - 1) -> 0..(Base - 1)]

\* sum[k] is what the k rightmost digits of d spell.
AddsUp(d, n, sum) ==
  /\ sum \in [0..n -> Int]
  /\ sum[0] = 0
  /\ \A k \in 0..(n - 1) : sum[k + 1] = sum[k] + (d[k] * Pow[k])

SpelledBy(x, d, n) == \E sum \in [0..n -> Int] : AddsUp(d, n, sum) /\ sum[n] = x

\* The string e in front of the string d, which has n digits.
InFront(e, m, d, n) ==
  [i \in 0..(n + m - 1) |-> IF i < n THEN d[i] ELSE e[i - n]]

LEMMA NextPower ==
  ASSUME NEW k \in Nat, k + 1 <= MaxPow
  PROVE  /\ Pow[k] \in Nat /\ Pow[k] > 0
         /\ Pow[k + 1] = Base * Pow[k]
         /\ Base \in Nat /\ Base > 1
<1>1. k \in 0..MaxPow /\ k \in 0..(MaxPow - 1)
  BY NumbersAssumption
<1>2. QED
  BY <1>1, PowType, PowAssumption, NumbersAssumption

\* k digits spell a number below the power k.
LEMMA SumSize ==
  ASSUME NEW n \in 0..MaxPow, NEW d \in Strings(n), NEW sum, AddsUp(d, n, sum)
  PROVE  \A k \in 0..n : sum[k] \in 0..(Pow[k] - 1)
<1> DEFINE D == { k \in 0..n : ~ (sum[k] \in 0..(Pow[k] - 1)) }
<1>1. SUFFICES ASSUME D # {} PROVE FALSE
  OBVIOUS
<1>2. D \subseteq Nat
  BY NumbersAssumption
<1>3. PICK m \in D : \A j \in D : m <= j
  <2> HIDE DEF D
  <2>1. QED
    BY <1>1, <1>2, LeastNatural
<1>4. CASE m = 0
  BY <1>4, PowAssumption DEF AddsUp
<1>5. CASE m # 0
  <2> DEFINE k == m - 1
             x == sum[k]
             P == Pow[k]
             c == d[k]
  <2>1. k \in Nat /\ k \in 0..(n - 1) /\ k \in 0..n /\ k + 1 <= MaxPow /\ m = k + 1
    BY <1>5, NumbersAssumption
  <2>2. x \in 0..(P - 1)
    BY <1>3, <2>1
  <2>3. c \in 0..(Base - 1)
    BY <2>1 DEF Strings
  <2>4. sum[k + 1] = x + (c * P)
    BY <2>1 DEF AddsUp
  <2>5. P \in Nat /\ P > 0 /\ Pow[k + 1] = Base * P /\ Base \in Nat /\ Base > 1
    BY <2>1, NextPower
  <2> HIDE DEF x, P, c
  <2>6. c * P <= (Base - 1) * P /\ c * P \in Nat
    BY <2>3, <2>5
  <2>7. x + (c * P) \in 0..((Base * P) - 1)
    BY <2>2, <2>5, <2>6
  <2>8. QED
    BY <2>1, <2>4, <2>5, <2>7
<1>6. QED
  BY <1>4, <1>5

\* The leftmost of k + 1 digits and what the others spell are the quotient
\* and the remainder of what all of them spell.
LEMMA LeftmostDigit ==
  ASSUME NEW n \in 0..MaxPow, NEW d \in Strings(n), NEW sum, AddsUp(d, n, sum),
         NEW k \in 0..(n - 1)
  PROVE  sum[k + 1] \div Pow[k] = d[k] /\ sum[k + 1] % Pow[k] = sum[k]
<1> DEFINE x == sum[k]
           y == sum[k + 1]
           P == Pow[k]
           c == d[k]
<1>1. k \in Nat /\ k \in 0..n /\ k + 1 \in 0..n /\ k + 1 <= MaxPow
  BY NumbersAssumption
<1>2. x \in 0..(P - 1) /\ y \in Int
  BY <1>1, SumSize DEF AddsUp
<1>3. c \in Int
  BY NumbersAssumption DEF Strings
<1>4. y = x + (c * P)
  BY DEF AddsUp
<1>5. P \in Nat /\ P > 0
  BY <1>1, NextPower
<1> HIDE DEF x, y, P, c
<1>6. y = (P * c) + x
  BY <1>2, <1>3, <1>4, <1>5
<1>7. y \div P = c /\ y % P = x
  BY <1>2, <1>3, <1>5, <1>6, DivModUnique
<1>8. QED
  BY <1>7 DEF x, y, P, c

\* Every number below the power n is spelled by a string of n digits.
LEMMA StringExists ==
  ASSUME NEW n \in 0..MaxPow, NEW x \in 0..(Pow[n] - 1)
  PROVE  \E d \in Strings(n) : SpelledBy(x, d, n)
<1> DEFINE d == [i \in 0..(n - 1) |-> (x \div Pow[i]) % Base]
           sum == [k \in 0..n |-> x % Pow[k]]
<1>1. Pow[n] \in Nat /\ x \in Int
  BY PowType
<1>2. \A k \in 0..n : Pow[k] \in Nat /\ Pow[k] > 0
  BY PowType, NumbersAssumption
<1>3. d \in Strings(n)
  <2>1. ASSUME NEW i \in 0..(n - 1) PROVE (x \div Pow[i]) % Base \in 0..(Base - 1)
    <3> DEFINE q == x \div Pow[i]
    <3>1. q \in Int
      BY <1>1, <1>2, DivMod, i \in 0..n
    <3> HIDE DEF q
    <3>2. q % Base \in 0..(Base - 1)
      BY <3>1, NumbersAssumption, DivMod
    <3>3. QED
      BY <3>2 DEF q
  <2>2. QED
    BY <2>1 DEF Strings
<1>4. sum \in [0..n -> Int]
  <2>1. ASSUME NEW k \in 0..n PROVE x % Pow[k] \in Int
    BY <1>1, <1>2, DivMod
  <2>2. QED
    BY <2>1
<1>5. sum[0] = 0
  <2>1. sum[0] = x % 1
    BY PowAssumption
  <2>2. x % 1 \in 0..(1 - 1)
    BY <1>1, DivMod
  <2>3. QED
    BY <2>1, <2>2
<1>6. sum[n] = x
  <2>1. x = (Pow[n] * 0) + x /\ Pow[n] > 0
    BY <1>1, <1>2
  <2>2. x % Pow[n] = x
    BY <1>1, <2>1, DivModUnique
  <2>3. QED
    BY <2>2
<1>7. ASSUME NEW k \in 0..(n - 1) PROVE sum[k + 1] = sum[k] + (d[k] * Pow[k])
  <2> DEFINE P == Pow[k]
             q == x \div P
             r == x % P
             u == q \div Base
             v == q % Base
  <2>1. k \in Nat /\ k \in 0..n /\ k + 1 \in 0..n /\ k + 1 <= MaxPow
    BY NumbersAssumption
  <2>2. P \in Nat /\ P > 0 /\ Pow[k + 1] = Base * P /\ Base \in Nat /\ Base > 1
    BY <2>1, NextPower
  <2>3. q \in Int /\ r \in 0..(P - 1) /\ x = (P * q) + r
    BY <1>1, <2>2, DivMod
  <2>4. sum[k + 1] = x % (Base * P) /\ sum[k] = r /\ d[k] = v
    BY <2>1, <2>2
  <2> HIDE DEF P, q, r, d, sum
  <2>5. u \in Int /\ v \in 0..(Base - 1) /\ q = (Base * u) + v
    BY <2>2, <2>3, DivMod
  <2> HIDE DEF u, v
  <2>6. v * P <= (Base - 1) * P /\ v * P \in Nat
    BY <2>2, <2>5
  <2>7. r + (v * P) \in 0..((Base * P) - 1)
    BY <2>2, <2>3, <2>6
  <2>8. x = ((Base * P) * u) + (r + (v * P))
    BY <2>2, <2>3, <2>5
  <2>9. Base * P \in Nat /\ Base * P > 0
    BY <2>2
  <2>10. x % (Base * P) = r + (v * P)
    BY <1>1, <2>5, <2>7, <2>8, <2>9, DivModUnique
  <2>11. QED
    BY <2>4, <2>10 DEF P
<1> HIDE DEF d, sum
<1>8. AddsUp(d, n, sum)
  BY <1>4, <1>5, <1>7 DEF AddsUp
<1>9. QED
  BY <1>3, <1>4, <1>6, <1>8 DEF SpelledBy

\* Two strings of n digits that spell the same number are equal: from the
\* left, digit by digit.
LEMMA StringUnique ==
  ASSUME NEW n \in 0..MaxPow, NEW x, NEW d \in Strings(n), NEW e \in Strings(n),
         SpelledBy(x, d, n), SpelledBy(x, e, n)
  PROVE  d = e
<1>1. PICK s \in [0..n -> Int] : AddsUp(d, n, s) /\ s[n] = x
  BY DEF SpelledBy
<1>2. PICK t \in [0..n -> Int] : AddsUp(e, n, t) /\ t[n] = x
  BY DEF SpelledBy
<1>3. \A k \in 0..(n - 1) : s[k + 1] = t[k + 1] => s[k] = t[k] /\ d[k] = e[k]
  <2> TAKE k \in 0..(n - 1)
  <2>1. s[k + 1] \div Pow[k] = d[k] /\ s[k + 1] % Pow[k] = s[k]
    BY <1>1, LeftmostDigit
  <2>2. t[k + 1] \div Pow[k] = e[k] /\ t[k + 1] % Pow[k] = t[k]
    BY <1>2, LeftmostDigit
  <2>3. QED
    BY <2>1, <2>2
<1> DEFINE D == { j \in 0..n : s[n - j] # t[n - j] }
<1>4. D = {}
  <2>1. SUFFICES ASSUME D # {} PROVE FALSE
    OBVIOUS
  <2>2. D \subseteq Nat
    BY NumbersAssumption
  <2>3. PICK m \in D : \A j \in D : m <= j
    <3> HIDE DEF D
    <3>1. QED
      BY <2>1, <2>2, LeastNatural
  <2>4. m # 0
    BY <1>1, <1>2
  <2>5. /\ m - 1 \in 0..n /\ n - m \in 0..(n - 1) /\ (n - m) + 1 = n - (m - 1)
        /\ ~ (m <= m - 1)
    BY <2>4, NumbersAssumption
  <2>6. s[n - (m - 1)] = t[n - (m - 1)]
    <3>1. ~ (m - 1 \in D)
      BY <2>3, <2>5
    <3>2. QED
      BY <2>5, <3>1
  <2>7. QED
    BY <1>3, <2>3, <2>5, <2>6
<1>5. ASSUME NEW k \in 0..(n - 1) PROVE d[k] = e[k]
  <2>1. n - (k + 1) \in 0..n /\ n - (n - (k + 1)) = k + 1
    BY NumbersAssumption
  <2>2. s[k + 1] = t[k + 1]
    BY <1>4, <2>1
  <2>3. QED
    BY <1>3, <2>2
<1>6. QED
  BY <1>5 DEF Strings

\* With e in front of d, what e spells counts from the power of d's length.
LEMMA InFrontSpells ==
  ASSUME NEW n \in Nat, NEW m \in Nat, n + m <= MaxPow,
         NEW x \in Int, NEW y \in Int, NEW d \in Strings(n), NEW e \in Strings(m),
         SpelledBy(x, d, n), SpelledBy(y, e, m)
  PROVE  /\ InFront(e, m, d, n) \in Strings(n + m)
         /\ SpelledBy(x + (y * Pow[n]), InFront(e, m, d, n), n + m)
<1>1. PICK s \in [0..n -> Int] : AddsUp(d, n, s) /\ s[n] = x
  BY DEF SpelledBy
<1>2. PICK t \in [0..m -> Int] : AddsUp(e, m, t) /\ t[m] = y
  BY DEF SpelledBy
<1> DEFINE f == InFront(e, m, d, n)
           sum == [k \in 0..(n + m) |->
                     IF k <= n THEN s[k] ELSE s[n] + (t[k - n] * Pow[n])]
<1>3. f \in Strings(n + m)
  <2>1. ASSUME NEW i \in 0..(n + m - 1)
        PROVE  (IF i < n THEN d[i] ELSE e[i - n]) \in 0..(Base - 1)
    <3>1. CASE i < n
      <4>1. i \in 0..(n - 1)
        BY <3>1
      <4>2. QED
        BY <3>1, <4>1 DEF Strings
    <3>2. CASE ~ (i < n)
      <4>1. i - n \in 0..(m - 1)
        BY <3>2
      <4>2. QED
        BY <3>2, <4>1 DEF Strings
    <3>3. QED
      BY <3>1, <3>2
  <2>2. QED
    BY <2>1 DEF Strings, InFront
<1>4. Pow[n] \in Int /\ n \in 0..MaxPow /\ t[0] = 0 /\ s[0] = 0
  BY <1>1, <1>2, PowType, NumbersAssumption DEF AddsUp
<1>5. sum \in [0..(n + m) -> Int]
  <2>1. ASSUME NEW k \in 0..(n + m), ~ (k <= n) PROVE s[n] + (t[k - n] * Pow[n]) \in Int
    <3>1. k - n \in 0..m /\ n \in 0..n
      BY <2>1
    <3>2. t[k - n] \in Int /\ s[n] \in Int
      BY <3>1
    <3>3. QED
      BY <1>4, <3>2
  <2>2. ASSUME NEW k \in 0..(n + m), k <= n PROVE s[k] \in Int
    BY <2>2, k \in 0..n
  <2>3. QED
    BY <2>1, <2>2
<1>6. sum[0] = 0 /\ sum[n + m] = x + (y * Pow[n])
  <2>1. sum[0] = 0
    BY <1>4
  <2>2. CASE m = 0
    <3>1. sum[n + m] = s[n] /\ y = 0
      BY <1>2, <1>4, <2>2
    <3>2. QED
      BY <1>1, <1>4, <2>1, <3>1
  <2>3. CASE m # 0
    <3>1. ~ (n + m <= n) /\ (n + m) - n = m /\ n + m \in 0..(n + m)
      BY <2>3
    <3>2. QED
      BY <1>1, <1>2, <2>1, <3>1
  <2>4. QED
    BY <2>2, <2>3
<1>7. ASSUME NEW k \in 0..(n + m - 1) PROVE sum[k + 1] = sum[k] + (f[k] * Pow[k])
  <2>1. CASE k < n
    <3>1. k \in 0..(n - 1) /\ k <= n /\ k + 1 <= n /\ k + 1 \in 0..(n + m) /\ k \in 0..(n + m)
      BY <2>1
    <3>2. sum[k + 1] = s[k + 1] /\ sum[k] = s[k] /\ f[k] = d[k]
      BY <2>1, <3>1 DEF InFront
    <3>3. QED
      BY <1>1, <3>1, <3>2 DEF AddsUp
  <2>2. CASE ~ (k < n)
    <3> DEFINE j == k - n
               P == Pow[n]
               z == t[j]
               c == e[j]
    <3>1. /\ j \in 0..(m - 1) /\ j \in 0..m /\ k + 1 \in 0..(n + m) /\ k \in 0..(n + m)
          /\ ~ (k + 1 <= n) /\ (k + 1) - n = j + 1 /\ n + j = k /\ j \in Nat
          /\ j \in 0..MaxPow /\ n + j <= MaxPow
      BY <2>2, NumbersAssumption
    <3>2. f[k] = c
      BY <2>2, <3>1 DEF InFront
    <3>3. sum[k + 1] = x + (t[j + 1] * P)
      BY <1>1, <3>1
    <3>4. sum[k] = x + (z * P)
      <4>1. CASE k = n
        <5>1. j = 0 /\ k <= n
          BY <4>1
        <5>2. sum[k] = x /\ z = 0
          BY <1>1, <1>4, <3>1, <4>1, <5>1
        <5>3. QED
          BY <1>4, <5>2
      <4>2. CASE k # n
        <5>1. ~ (k <= n)
          BY <2>2, <4>2
        <5>2. QED
          BY <1>1, <3>1, <5>1
      <4>3. QED
        BY <4>1, <4>2
    <3>5. t[j + 1] = z + (c * Pow[j])
      BY <1>2, <3>1 DEF AddsUp
    <3>6. Pow[k] = P * Pow[j]
      BY <3>1, PowSum
    <3>7. z \in Int /\ c \in Int /\ Pow[j] \in Int /\ P \in Int
      BY <1>4, <3>1, PowType, NumbersAssumption DEF Strings
    <3> HIDE DEF f, sum, j, P, z, c
    <3>8. x + ((z + (c * Pow[j])) * P) = (x + (z * P)) + (c * (P * Pow[j]))
      <4> DEFINE Q == Pow[j]
      <4>1. Q \in Int
        BY <3>7
      <4> HIDE DEF Q
      <4>2. (z + (c * Q)) * P = (z * P) + (c * (P * Q)) /\ z * P \in Int /\ c * (P * Q) \in Int
        BY <3>7, <4>1
      <4>3. x + ((z + (c * Q)) * P) = (x + (z * P)) + (c * (P * Q))
        BY <4>2
      <4>4. QED
        BY <4>3 DEF Q
    <3>9. QED
      BY <3>2, <3>3, <3>4, <3>5, <3>6, <3>8
  <2>3. QED
    BY <2>1, <2>2
<1> HIDE DEF f, sum
<1>8. AddsUp(f, n + m, sum)
  BY <1>5, <1>6, <1>7 DEF AddsUp
<1>9. SpelledBy(x + (y * Pow[n]), f, n + m)
  BY <1>5, <1>6, <1>8 DEF SpelledBy
<1>10. QED
  BY <1>3, <1>9 DEF f

-----------------------------------------------------------------------------
\* A conversion to int64_t leaves the values an int64_t has alone.
LEMMA ToInt64Identity ==
  ASSUME NEW v \in Int64
  PROVE  ToInt64(v) = v
<1>1. v + HalfWord \in 0..(Word - 1) /\ Word \in Nat /\ Word > 0
  BY HalfWordType DEF Int64
<1>2. (v + HalfWord) % Word = v + HalfWord
  BY <1>1, DivModUnique, v + HalfWord = (Word * 0) + (v + HalfWord)
<1>3. QED
  BY <1>2, HalfWordType DEF ToInt64, Int64

\* It always gives an int64_t, and changes the value by a multiple of 2^64.
LEMMA ToInt64Wraps ==
  ASSUME NEW v \in Int
  PROVE  /\ ToInt64(v) \in Int64
         /\ \E k \in Int : ToInt64(v) = v - (Word * k)
<1> DEFINE k == (v + HalfWord) \div Word
           m == (v + HalfWord) % Word
<1>1. /\ k \in Int /\ m \in 0..(Word - 1)
      /\ v + HalfWord = (Word * k) + m
  BY HalfWordType, DivMod
<1>2. ToInt64(v) = m - HalfWord
  BY DEF ToInt64
<1> HIDE DEF k, m
<1>3. m - HalfWord \in Int64
  BY <1>1, HalfWordType DEF Int64
<1>4. m - HalfWord = v - (Word * k)
  BY <1>1, HalfWordType
<1>5. QED
  BY <1>1, <1>2, <1>3, <1>4

\* Both neighbours of a quotient are less than one away from it.
LEMMA NeighbourNear ==
  ASSUME NEW a \in Int, NEW b \in Nat, b > 0,
         NEW v \in {a \div b, -((-a) \div b)}
  PROVE  v \in Int /\ -b < (v * b) - a /\ (v * b) - a < b
<1> DEFINE q == a \div b
           r == a % b
           p == (-a) \div b
           u == (-a) % b
<1>1. q \in Int /\ r \in 0..(b - 1) /\ a = (b * q) + r
  BY Z3
<1>2. -a \in Int
  OBVIOUS
<1> DEFINE c == -a
<1>3. c \in Int
  BY <1>2
<1> HIDE DEF c
<1>4. (c \div b) \in Int /\ (c % b) \in 0..(b - 1) /\ c = (b * (c \div b)) + (c % b)
  BY <1>3, Z3
<1>5. p \in Int /\ u \in 0..(b - 1) /\ -a = (b * p) + u
  BY <1>4 DEF c
<1>6. v = q \/ v = -p
  OBVIOUS
<1> HIDE DEF q, r, p, u
<1>7. CASE v = q
  <2>1. v * b = b * q
    BY <1>1, <1>7
  <2>2. b * q \in Int
    BY <1>1
  <2>3. QED
    BY <1>1, <1>6, <1>7, <2>1, <2>2
<1>8. CASE v = -p
  <2>1. v * b = -(b * p)
    BY <1>5, <1>8
  <2>2. b * p \in Int
    BY <1>5
  <2>3. QED
    BY <1>5, <1>6, <1>8, <2>1, <2>2
<1>9. QED
  BY <1>6, <1>7, <1>8

\* The 16 bytes a result is stored in (two int64_t, the low one with its own
\* sign bit) are read back by _pack128 as the value that was stored, for
\* every __int128_t: no sign extension of the low word reaches the high one.
THEOREM PackUnpack ==
  ASSUME NEW v \in Native
  PROVE  /\ Unpack128(v) \in [lo : Int64, hi : Int64]
         /\ Pack128(Unpack128(v)) = v
<1> DEFINE q == v \div Word
           u == v % Word
<1>1. v \in Int /\ -(Word * HalfWord) <= v /\ v < Word * HalfWord
  BY HalfWordType DEF Native, NativeLimit
<1>2. q \in Int /\ u \in 0..(Word - 1) /\ v = (Word * q) + u
  BY <1>1, HalfWordType, DivMod
<1>3. PICK k \in Int : ToInt64(v) = v - (Word * k)
  BY <1>1, ToInt64Wraps
<1>4. Unpack128(v) = [lo |-> ToInt64(v), hi |-> q]
  BY DEF Unpack128
<1>5. Pack128(Unpack128(v)) = (ToInt64(v) % Word) + (q * Word)
  BY <1>4 DEF Pack128
<1> HIDE DEF q, u
<1>6. ToInt64(v) = (Word * (q - k)) + u
  BY <1>2, <1>3, HalfWordType
<1>7. ToInt64(v) % Word = u
  <2> DEFINE t == ToInt64(v)
             p == q - k
  <2>1. t \in Int /\ p \in Int /\ Word \in Nat /\ Word > 0
    BY <1>1, <1>2, <1>3, HalfWordType
  <2>2. t = (Word * p) + u
    BY <1>6
  <2> HIDE DEF t, p
  <2>3. t % Word = u
    BY <1>2, <2>1, <2>2, DivModUnique
  <2>4. QED
    BY <2>3 DEF t
<1>8. q \in Int64
  <2>1. q < HalfWord
    <3>1. SUFFICES ASSUME q >= HalfWord PROVE FALSE
      BY <1>2, HalfWordType
    <3>2. Word * q >= Word * HalfWord
      BY <1>2, <3>1, HalfWordType
    <3>3. QED
      BY <1>1, <1>2, <3>2, HalfWordType
  <2>2. q >= -HalfWord
    <3>1. SUFFICES ASSUME q <= -HalfWord - 1 PROVE FALSE
      BY <1>2, HalfWordType
    <3>2. Word * q <= -(Word * HalfWord) - Word
      BY <1>2, <3>1, HalfWordType
    <3>3. QED
      BY <1>1, <1>2, <3>2, HalfWordType
  <2>3. QED
    BY <1>2, <2>1, <2>2, HalfWordType DEF Int64
<1>9. ToInt64(v) \in Int64
  BY <1>1, ToInt64Wraps
<1>10. QED
  BY <1>2, <1>4, <1>5, <1>7, <1>8, <1>9, HalfWordType

=============================================================================
