--------------------------- MODULE RoundingProofs ---------------------------
(***************************************************************************)
(* The floating point of Rounding, for every length of the mantissa: what  *)
(* is not rounded, how far the floating-point numbers of a size lie apart, *)
(* and by how much a rounding, and several in a row, can be off.           *)
(***************************************************************************)
EXTENDS Rounding, DataLemmas

-----------------------------------------------------------------------------
(* What fits the mantissa is not rounded.                                  *)

\* There are at least two floating-point numbers of the smallest size.
LEMMA Mantissas == 2 ^ Precision \in Nat /\ 2 ^ Precision >= 2
BY RoundingAssumption, PowPositive

\* The distance of the integers that fit the mantissa.
LEMMA UlpExact ==
  ASSUME NEW x \in Int, Abs(x) < 2 ^ Precision
  PROVE  Ulp(x) = 1
<1> DEFINE a == Abs(x)
           L == 2 ^ Precision
           fits == {e \in 0 .. MaxExponent : a \div 2 ^ e < L}
           z == 0
<1>1. a \in Nat /\ a < L
  BY DEF Abs
<1>2. z \in 0 .. MaxExponent
  BY RoundingAssumption
<1>3. 2 ^ z = 1
  BY PowZero
<1> HIDE DEF a, L
<1>4. a \div 1 = a
  BY <1>1, DividedByOne
<1>5. z \in fits
  <2> HIDE DEF z
  <2>1. a \div 2 ^ z < L
    BY <1>1, <1>3, <1>4
  <2> QED BY <1>2, <2>1
<1>6. fits \in SUBSET Int /\ \A e \in fits : z <= e
  OBVIOUS
<1> HIDE DEF fits, z
<1>7. Min(fits) = z
  BY <1>5, <1>6, MinIs
<1>8. Ulp(x) = 2 ^ Min(fits)
  BY DEF Ulp, fits, a, L
<1> QED BY <1>3, <1>7, <1>8

\* An integer that fits the mantissa is its own rounding.
LEMMA RoundedExact ==
  ASSUME NEW x \in Int, Abs(x) < 2 ^ Precision
  PROVE  Rounded(x) = x
<1> DEFINE a == Abs(x)
<1>1. a \in Nat /\ a = IF x < 0 THEN -x ELSE x
  BY DEF Abs
<1>2. a \div 1 = a /\ a % 1 = 0
  <2> HIDE DEF a
  <2> QED BY <1>1, DividedByOne
<1>3. Ulp(a) = 1
  <2>1. Abs(a) = a
    BY <1>1 DEF Abs
  <2> HIDE DEF a
  <2>2. a \in Int /\ Abs(a) < 2 ^ Precision
    BY <1>1, <2>1 DEF a
  <2> QED BY <2>2, UlpExact
<1>4. Nearest(x, 1) = x
  <2>1. Nearest(x, 1) = LET below == a \div 1
                            rest == 2 * (a % 1)
                            nearest == IF rest > 1 \/ (rest = 1 /\ below % 2 = 1) THEN below + 1 ELSE below
                        IN  IF x < 0 THEN -nearest ELSE nearest
    BY DEF Nearest
  <2> HIDE DEF a
  <2>2. Nearest(x, 1) = IF x < 0 THEN -a ELSE a
    BY <1>2, <2>1
  <2> QED BY <1>1, <2>2
<1>5. Rounded(x) = Ulp(a \div 1) * Nearest(x, 1 * Ulp(a \div 1))
  BY DEF Rounded, RoundedRatio
<1> HIDE DEF a
<1>6. Rounded(x) = 1 * Nearest(x, 1 * 1)
  BY <1>2, <1>3, <1>5
<1>7. 1 * 1 = 1
  OBVIOUS
<1> QED BY <1>4, <1>6, <1>7

-----------------------------------------------------------------------------
(* How far a rounding goes.                                                *)

\* The distance of floating-point numbers of the size of x, where exponents suffice: none
\* for numbers that fit the mantissa, else at most two in 2^Precision of x.
LEMMA UlpSize ==
  ASSUME NEW x \in Nat, NEW m \in 0 .. MaxExponent, x \div 2 ^ m < 2 ^ Precision
  PROVE  /\ Ulp(x) \in Nat \ {0}
         /\ Ulp(x) = 1 \/ Ulp(x) * 2 ^ Precision <= 2 * x
<1> DEFINE L == 2 ^ Precision
           fits == {e \in 0 .. MaxExponent : x \div 2 ^ e < L}
<1>1. L \in Nat /\ m \in fits /\ fits \in SUBSET Nat
  <2>1. L \in Nat
    BY RoundingAssumption, PowType
  <2>2. m \in fits
    <3> HIDE DEF L
    <3>1. x \div 2 ^ m < L
      BY DEF L
    <3> QED BY <3>1
  <2>3. fits \in SUBSET Nat
    <3>1. 0 .. MaxExponent \subseteq Nat /\ fits \subseteq 0 .. MaxExponent
      BY RoundingAssumption
    <3> HIDE DEF fits
    <3> QED BY <3>1
  <2> QED BY <2>1, <2>2, <2>3
<1>2. PICK e \in fits : \A y \in fits : e <= y
  <2> HIDE DEF fits
  <2> QED BY <1>1, LeastMember
<1>3. Ulp(x) = 2 ^ e
  <2>1. Min(fits) = e
    <3> HIDE DEF fits
    <3>1. fits \in SUBSET Int
      BY <1>1
    <3> QED BY <1>2, <3>1, MinIs
  <2>2. Abs(x) = x
    BY DEF Abs
  <2> QED BY <2>1, <2>2 DEF Ulp
<1>4. e \in 0 .. MaxExponent /\ e \in Nat /\ 2 ^ e \in Nat /\ 2 ^ e >= 1
  <2>1. e \in 0 .. MaxExponent /\ e \in Nat
    BY <1>2
  <2> DEFINE z == 0
  <2>2. z \in Nat /\ z <= e /\ 2 ^ z = 1
    BY <2>1, PowZero
  <2> HIDE DEF z
  <2>3. 2 ^ z <= 2 ^ e
    BY <2>1, <2>2, PowMonotone
  <2>4. 2 ^ e \in Nat
    BY <2>1, PowType
  <2> QED BY <2>1, <2>2, <2>3, <2>4
<1>5. CASE e = 0
  BY <1>3, <1>4, <1>5, PowZero
<1>6. CASE e # 0
  <2> DEFINE d == e - 1
             half == 2 ^ d
             q == x \div half
  <2>1. d \in Nat /\ d + 1 = e /\ d \in 0 .. MaxExponent /\ ~(e <= d)
    BY <1>4, <1>6, RoundingAssumption
  <2>2. ~(q < L)
    <3>1. d \notin fits
      <4> HIDE DEF fits, d
      <4> QED BY <1>2, <2>1
    <3> HIDE DEF d, L
    <3>2. d \in 0 .. MaxExponent /\ x \div 2 ^ d < L => d \in fits
      OBVIOUS
    <3> HIDE DEF fits
    <3> QED BY <2>1, <3>1, <3>2
  <2>3. half \in Nat /\ 2 ^ e = 2 * half
    <3> HIDE DEF d
    <3>1. 2 ^ (d + 1) = 2 * 2 ^ d /\ 2 ^ d \in Nat
      BY <2>1, PowNext, PowType
    <3> QED BY <2>1, <3>1
  <2> HIDE DEF half
  <2>4. half \in Nat \ {0}
    BY <1>4, <2>3
  <2>5. x = half * q + (x % half) /\ x % half \in 0 .. half - 1 /\ q \in Int
    BY <2>4, Division
  <2>10. L \in Nat
    BY <1>1
  <2> HIDE DEF q, L
  <2>6. half * L <= half * q
    <3>1. L \in Int /\ q \in Int /\ L <= q /\ half \in Nat
      BY <2>10, <2>2, <2>4, <2>5
    <3> QED BY <3>1, ProductMonotone
  <2>7. half * L <= x
    <3> DEFINE a == half * q
               b == half * L
               r == x % half
    <3>1. a \in Int /\ b \in Int /\ r \in Nat /\ x = a + r /\ b <= a
      BY <2>10, <2>4, <2>5, <2>6
    <3> HIDE DEF a, b, r
    <3>2. b <= x
      BY <3>1
    <3> QED BY <3>2 DEF b
  <2>8. (2 * half) * L = 2 * (half * L)
    BY <2>10, <2>4
  <2>9. (2 * half) * L <= 2 * x
    <3> DEFINE b == half * L
    <3>1. b \in Int /\ b <= x
      BY <2>10, <2>4, <2>7
    <3> HIDE DEF b
    <3>2. 2 * b <= 2 * x
      BY <3>1
    <3> QED BY <2>8, <3>2 DEF b
  <2> QED BY <1>3, <1>4, <2>3, <2>9 DEF L
<1> QED BY <1>5, <1>6

\* The nearest integer to a fraction is at most half away from it.
LEMMA NearestWithin ==
  ASSUME NEW n \in Nat, NEW d \in Nat \ {0}
  PROVE  /\ Nearest(n, d) \in Nat
         /\ 2 * (d * Nearest(n, d)) - 2 * n \in -d .. d
<1> DEFINE below == n \div d
           r == n % d
           up == 2 * r > d \/ (2 * r = d /\ below % 2 = 1)
           nearest == IF up THEN below + 1 ELSE below
<1>1. Nearest(n, d) = nearest
  <2>1. Abs(n) = n /\ ~(n < 0)
    BY DEF Abs
  <2> QED BY <2>1 DEF Nearest
<1>2. n = d * below + r /\ r \in 0 .. d - 1 /\ below \in Int
  BY Division
<1>3. below \in Nat
  <2> HIDE DEF below, r
  <2>1. d * below > - d
    <3> DEFINE p == d * below
    <3>1. p \in Int /\ n = p + r
      BY <1>2
    <3> HIDE DEF p
    <3>2. p > - d
      BY <1>2, <3>1
    <3> QED BY <3>2 DEF p
  <2>2. CASE below <= -1
    <3>1. d * below <= d * (-1)
      BY <1>2, <2>2
    <3> QED BY <1>2, <2>1, <3>1
  <2> QED BY <1>2, <2>2
<1>4. d * (below + 1) = d * below + d
  <2> HIDE DEF below
  <2> QED BY <1>3
<1>5. CASE up
  <2>1. nearest = below + 1 /\ 2 * r >= d
    <3> HIDE DEF r, below
    <3> QED BY <1>2, <1>5
  <2> DEFINE p == d * below
  <2>2. p \in Int /\ n = p + r /\ r \in 0 .. d - 1
    BY <1>2, <1>3
  <2> HIDE DEF p, r
  <2>3. 2 * (p + d) - 2 * n \in -d .. d
    BY <2>1, <2>2
  <2>4. 2 * (d * (below + 1)) - 2 * n \in -d .. d
    BY <1>4, <2>3 DEF p
  <2> HIDE DEF below, up
  <2> QED BY <1>1, <1>3, <2>1, <2>4
<1>6. CASE ~up
  <2>1. nearest = below /\ 2 * r <= d
    <3> HIDE DEF r, below
    <3> QED BY <1>2, <1>6
  <2> DEFINE p == d * below
  <2>2. p \in Int /\ n = p + r /\ r \in 0 .. d - 1
    BY <1>2, <1>3
  <2> HIDE DEF p, r
  <2>3. 2 * p - 2 * n \in -d .. d
    BY <2>1, <2>2
  <2> QED BY <1>1, <1>3, <2>1, <2>3 DEF p
<1> QED BY <1>5, <1>6

\* A rounded fraction is within half a unit in the last place.
LEMMA RatioWithin ==
  ASSUME NEW a \in Nat, NEW s \in Nat \ {0}, NEW u \in Nat \ {0}, u = Ulp(a \div s)
  PROVE  /\ RoundedRatio(a, s) \in Nat
         /\ 2 * (s * RoundedRatio(a, s)) - 2 * a \in -(s * u) .. s * u
<1> DEFINE w == s * u
           q == Nearest(a, w)
<1>1. w \in Nat \ {0}
  OBVIOUS
<1>2. RoundedRatio(a, s) = u * q
  <2>1. Abs(a) = a
    BY DEF Abs
  <2> QED BY <2>1 DEF RoundedRatio
<1> HIDE DEF w
<1>3. q \in Nat /\ 2 * (w * q) - 2 * a \in -w .. w
  BY <1>1, NearestWithin
<1> HIDE DEF q
<1>4. u * q \in Nat /\ s * (u * q) = w * q
  BY <1>3 DEF w
<1> QED BY <1>2, <1>3, <1>4 DEF w

-----------------------------------------------------------------------------
(* Numbers of one size.                                                    *)

\* No power of two is zero.
LEMMA PowNotZero ==
  ASSUME NEW n \in Nat
  PROVE  2 ^ n \in Nat \ {0}
<1>1. CASE n = 0
  <2>1. 2 ^ n = 2 ^ 0
    BY <1>1
  <2> QED BY <2>1, PowZero
<1>2. CASE n # 0
  <2>1. n \in Nat \ {0}
    BY <1>2
  <2>2. 2 ^ n \in Nat /\ 2 ^ n >= 2
    BY <2>1, PowPositive
  <2> QED BY <2>2
<1> QED BY <1>1, <1>2

\* The exponent of the distance is the least that lets the number fit.
LEMMA UlpIs ==
  ASSUME NEW x \in Nat, InRange(x)
  PROVE  \E e \in 0 .. MaxExponent :
           /\ e \in Nat /\ Ulp(x) = 2 ^ e /\ x \div 2 ^ e < 2 ^ Precision
           /\ \A y \in 0 .. MaxExponent : x \div 2 ^ y < 2 ^ Precision => e <= y
<1> DEFINE L == 2 ^ Precision
           fits == {e \in 0 .. MaxExponent : x \div 2 ^ e < L}
<1>1. MaxExponent \in 0 .. MaxExponent /\ 0 .. MaxExponent \subseteq Nat
  BY RoundingAssumption
<1>2. MaxExponent \in fits /\ fits \in SUBSET Nat
  <2>1. x \div 2 ^ MaxExponent < L
    BY DEF InRange
  <2> HIDE DEF L
  <2> QED BY <1>1, <2>1
<1>3. PICK e \in fits : \A y \in fits : e <= y
  <2> HIDE DEF fits
  <2> QED BY <1>2, LeastMember
<1>4. Ulp(x) = 2 ^ e
  <2>1. Min(fits) = e
    <3> HIDE DEF fits
    <3>1. fits \in SUBSET Int
      BY <1>2
    <3> QED BY <1>3, <3>1, MinIs
  <2>2. Abs(x) = x
    BY DEF Abs
  <2> QED BY <2>1, <2>2 DEF Ulp
<1> HIDE DEF L
<1>5. e \in 0 .. MaxExponent /\ e \in Nat /\ x \div 2 ^ e < L
  BY <1>1, <1>3
<1>6. \A y \in 0 .. MaxExponent : x \div 2 ^ y < L => e <= y
  BY <1>3
<1> QED BY <1>4, <1>5, <1>6 DEF L

\* A number is less than a full mantissa of its distance.
LEMMA UlpOwn ==
  ASSUME NEW x \in Nat, InRange(x)
  PROVE  Ulp(x) \in Nat \ {0} /\ x < 2 ^ Precision * Ulp(x)
<1> DEFINE L == 2 ^ Precision
<1>1. PICK e \in 0 .. MaxExponent : e \in Nat /\ Ulp(x) = 2 ^ e /\ x \div 2 ^ e < L
  BY UlpIs
<1> DEFINE u == 2 ^ e
           q == x \div u
           r == x % u
<1>2. u \in Nat \ {0}
  <2>1. 2 ^ e \in Nat \ {0}
    BY <1>1, PowNotZero
  <2> QED BY <2>1
<1>3. L \in Nat
  BY Mantissas
<1> HIDE DEF u, L
<1>4. x = u * q + r /\ r \in 0 .. u - 1 /\ q \in Int /\ q < L
  <2>1. x = u * q + r /\ r \in 0 .. u - 1 /\ q \in Int
    BY <1>2, Division
  <2>2. q < L
    BY <1>1 DEF u
  <2> QED BY <2>1, <2>2
<1> HIDE DEF q, r
<1>5. u * (q + 1) <= u * L /\ u * (q + 1) = u * q + u
  <2>1. q + 1 <= L
    BY <1>3, <1>4
  <2>2. u * (q + 1) <= u * L
    BY <1>2, <1>3, <1>4, <2>1, ProductMonotone
  <2>3. u * (q + 1) = u * q + u
    BY <1>2, <1>4
  <2> QED BY <2>2, <2>3
<1>6. x < L * u
  <2> DEFINE a == u * q
             b == u * L
             c == u * (q + 1)
  <2>1. a \in Int /\ b \in Int /\ c = a + u /\ c <= b /\ x = a + r
    BY <1>2, <1>3, <1>4, <1>5
  <2>2. L * u = b
    BY <1>2, <1>3
  <2> HIDE DEF a, b, c
  <2>3. x < b
    BY <1>2, <1>4, <2>1
  <2> QED BY <2>2, <2>3
<1> QED BY <1>1, <1>2, <1>6 DEF u, L

\* Numbers below a full mantissa of a distance lie no farther apart.
LEMMA UlpCovers ==
  ASSUME NEW x \in Nat, NEW y \in Nat, InRange(y), x < 2 ^ Precision * Ulp(y)
  PROVE  InRange(x) /\ Ulp(x) <= Ulp(y)
<1> DEFINE L == 2 ^ Precision
<1>1. PICK e \in 0 .. MaxExponent : e \in Nat /\ Ulp(y) = 2 ^ e
  BY UlpIs
<1> DEFINE u == 2 ^ e
           v == 2 ^ MaxExponent
<1>2. u \in Nat \ {0} /\ u <= v /\ v \in Nat
  <2>1. u \in Nat \ {0}
    <3>1. 2 ^ e \in Nat \ {0}
      BY <1>1, PowNotZero
    <3> QED BY <3>1
  <2>2. MaxExponent \in Nat /\ e <= MaxExponent
    BY <1>1, RoundingAssumption
  <2>3. u <= v /\ v \in Nat
    BY <1>1, <2>2, PowMonotone, PowType
  <2> QED BY <2>1, <2>3
<1>3. L \in Nat /\ x < L * u
  BY <1>1, Mantissas
<1>4. InRange(x)
  <2> HIDE DEF u, v, L
  <2>1. v \in Nat \ {0}
    BY <1>2
  <2>2. x < v * L
    <3>1. L * u <= L * v
      BY <1>2, <1>3, ProductMonotone
    <3>2. L * v = v * L
      BY <1>2, <1>3
    <3> DEFINE a == L * u
               b == L * v
    <3>3. a \in Int /\ b \in Int /\ x < a /\ a <= b
      BY <1>2, <1>3, <3>1
    <3> HIDE DEF a, b
    <3>4. x < b
      BY <3>3
    <3> QED BY <3>2, <3>4 DEF b
  <2>3. x \div v < L
    BY <1>3, <2>1, <2>2, QuotientBelow
  <2> QED BY <2>3 DEF InRange, v, L
<1>5. PICK d \in 0 .. MaxExponent :
        /\ d \in Nat /\ Ulp(x) = 2 ^ d
        /\ \A z \in 0 .. MaxExponent : x \div 2 ^ z < L => d <= z
  BY <1>4, UlpIs
<1>6. x \div u < L
  <2> HIDE DEF u, L
  <2>1. L * u = u * L
    BY <1>2, <1>3
  <2> QED BY <1>2, <1>3, <2>1, QuotientBelow
<1>7. d <= e
  <2> HIDE DEF L
  <2> QED BY <1>1, <1>5, <1>6 DEF u
<1>8. 2 ^ d <= 2 ^ e
  BY <1>1, <1>5, <1>7, PowMonotone
<1> QED BY <1>1, <1>4, <1>5, <1>8

\* A smaller number lies at no larger distance from the next.
LEMMA UlpMonotone ==
  ASSUME NEW x \in Nat, NEW y \in Nat, InRange(y), x <= y
  PROVE  InRange(x) /\ Ulp(x) <= Ulp(y) /\ Ulp(x) \in Nat \ {0} /\ Ulp(y) \in Nat \ {0}
<1> DEFINE b == 2 ^ Precision * Ulp(y)
<1>1. Ulp(y) \in Nat \ {0} /\ y < b
  BY UlpOwn
<1>2. b \in Nat
  <2>1. 2 ^ Precision \in Nat
    BY Mantissas
  <2> QED BY <1>1, <2>1
<1> HIDE DEF b
<1>3. x < b
  BY <1>1, <1>2
<1>4. InRange(x) /\ Ulp(x) <= Ulp(y)
  BY <1>3, UlpCovers DEF b
<1>5. Ulp(x) \in Nat \ {0}
  BY <1>4, UlpOwn
<1> QED BY <1>1, <1>4, <1>5

\* Half a number lies at half the distance, or at none.
LEMMA UlpHalves ==
  ASSUME NEW x \in Nat, NEW y \in Nat, InRange(y), 2 * x <= y
  PROVE  InRange(x) /\ Ulp(x) \in Nat \ {0} /\ (Ulp(x) = 1 \/ 2 * Ulp(x) <= Ulp(y))
<1> DEFINE L == 2 ^ Precision
<1>1. InRange(x) /\ Ulp(x) \in Nat \ {0} /\ Ulp(x) <= Ulp(y)
  BY UlpMonotone
<1>2. PICK e \in 0 .. MaxExponent : e \in Nat /\ Ulp(y) = 2 ^ e
  BY UlpIs
<1>3. L \in Nat
  BY Mantissas
<1>4. CASE e = 0
  BY <1>1, <1>2, <1>4, PowZero
<1>5. CASE e # 0
  <2> DEFINE c == e - 1
             h == 2 ^ c
  <2>1. c \in Nat /\ c + 1 = e /\ c \in 0 .. MaxExponent
    BY <1>2, <1>5, RoundingAssumption
  <2>2. h \in Nat \ {0} /\ Ulp(y) = 2 * h
    <3> HIDE DEF c
    <3>1. 2 ^ (c + 1) = 2 * 2 ^ c /\ 2 ^ c \in Nat
      BY <2>1, PowNext, PowType
    <3>3. 2 ^ c \in Nat \ {0}
      BY <2>1, PowNotZero
    <3> QED BY <1>2, <2>1, <3>1, <3>3
  <2>3. y < L * Ulp(y)
    BY UlpOwn
  <2>4. x < h * L
    <3> HIDE DEF h, L
    <3>1. L * (2 * h) = 2 * (h * L) /\ h * L \in Int
      BY <1>3, <2>2
    <3> DEFINE b == h * L
    <3>2. b \in Int /\ y < 2 * b
      BY <2>2, <2>3, <3>1
    <3> HIDE DEF b
    <3>3. x < b
      BY <3>2
    <3> QED BY <3>3 DEF b
  <2>5. x \div h < L
    <3> HIDE DEF h, L
    <3> QED BY <1>3, <2>2, <2>4, QuotientBelow
  <2>6. PICK d \in 0 .. MaxExponent :
          /\ d \in Nat /\ Ulp(x) = 2 ^ d
          /\ \A z \in 0 .. MaxExponent : x \div 2 ^ z < L => d <= z
    BY <1>1, UlpIs
  <2>7. d <= c
    <3> HIDE DEF c, L
    <3> QED BY <2>1, <2>5, <2>6 DEF h
  <2>8. Ulp(x) <= h
    <3> HIDE DEF c
    <3> QED BY <2>1, <2>6, <2>7, PowMonotone DEF h
  <2> HIDE DEF h
  <2>9. 2 * Ulp(x) <= Ulp(y)
    BY <1>1, <2>2, <2>8
  <2> QED BY <1>1, <2>9
<1> QED BY <1>4, <1>5

-----------------------------------------------------------------------------
(* How far an operation can be off.                                        *)

\* A number is rounded to a multiple of its distance, away from zero as its opposite is.
LEMMA RoundedIs ==
  ASSUME NEW x \in Int, NEW a \in Nat, a = Abs(x), InRange(a)
  PROVE  /\ RoundedRatio(a, 1) \in Nat
         /\ 2 * RoundedRatio(a, 1) - 2 * a \in - Ulp(a) .. Ulp(a)
         /\ Rounded(x) = IF x < 0 THEN - RoundedRatio(a, 1) ELSE RoundedRatio(a, 1)
<1> DEFINE u == Ulp(a)
           s == 1
           w == s * u
           k == Nearest(a, w)
           r == RoundedRatio(a, s)
<1>1. u \in Nat \ {0}
  BY UlpOwn
<1>2. s \in Nat \ {0} /\ a \div s = a
  BY DividedByOne
<1>3. r \in Nat /\ 2 * (s * r) - 2 * a \in - (s * u) .. s * u
  <2> HIDE DEF s, r
  <2>1. u = Ulp(a \div s)
    BY <1>2
  <2> HIDE DEF u
  <2>2. RoundedRatio(a, s) \in Nat /\ 2 * (s * RoundedRatio(a, s)) - 2 * a \in - (s * u) .. s * u
    BY <1>1, <1>2, <2>1, RatioWithin
  <2> QED BY <2>2 DEF r
<1>4. Abs(a) = a
  BY DEF Abs
<1>5. r = u * k
  <2>1. r = Ulp(a \div s) * Nearest(a, s * Ulp(a \div s))
    BY <1>4 DEF RoundedRatio
  <2> HIDE DEF s
  <2> QED BY <1>2, <2>1
<1>6. Rounded(x) = u * Nearest(x, w)
  <2>1. Rounded(x) = Ulp(a \div s) * Nearest(x, s * Ulp(a \div s))
    BY DEF Rounded, RoundedRatio
  <2> HIDE DEF s
  <2> QED BY <1>2, <2>1
<1>7. w \in Nat \ {0}
  <2> HIDE DEF u
  <2> QED BY <1>1
<1> HIDE DEF w, u
<1>8. k \in Nat
  <2> HIDE DEF k
  <2>1. Nearest(a, w) \in Nat
    BY <1>7, NearestWithin
  <2> QED BY <2>1 DEF k
<1>9. Nearest(x, w) = IF x < 0 THEN - k ELSE k
  <2> DEFINE below == a \div w
             rest == 2 * (a % w)
             nearest == IF rest > w \/ (rest = w /\ below % 2 = 1) THEN below + 1 ELSE below
  <2>1. Nearest(x, w) = IF x < 0 THEN - nearest ELSE nearest
    BY DEF Nearest
  <2>2. k = nearest
    BY <1>4 DEF Nearest
  <2> HIDE DEF nearest
  <2> QED BY <2>1, <2>2
<1> HIDE DEF k
<1>10. u * (- k) = - (u * k)
  BY <1>1, <1>8
<1>11. Rounded(x) = IF x < 0 THEN - r ELSE r
  <2> HIDE DEF r
  <2>1. CASE x < 0
    BY <1>5, <1>6, <1>9, <1>10, <2>1
  <2>2. CASE ~ (x < 0)
    BY <1>5, <1>6, <1>9, <2>2
  <2> QED BY <2>1, <2>2
<1>12. s * r = r /\ s * u = u
  <2> HIDE DEF r
  <2> QED BY <1>1, <1>3
<1>13. 2 * r - 2 * a \in - u .. u
  <2> HIDE DEF r, s
  <2> QED BY <1>3, <1>12
<1> QED BY <1>3, <1>11, <1>13 DEF u

\* A number below a full mantissa of a distance is rounded by at most half of it.
LEMMA RoundedWithin ==
  ASSUME NEW x \in Int, NEW y \in Nat, InRange(y), Abs(x) < 2 ^ Precision * Ulp(y)
  PROVE  /\ Rounded(x) \in Int
         /\ 2 * Rounded(x) - 2 * x \in - Ulp(y) .. Ulp(y)
         /\ Ulp(y) = 1 => Rounded(x) = x
<1> DEFINE a == Abs(x)
           r == RoundedRatio(a, 1)
           L == 2 ^ Precision
<1>1. a \in Nat /\ a = IF x < 0 THEN - x ELSE x
  BY DEF Abs
<1>2. InRange(a) /\ Ulp(a) <= Ulp(y)
  <2> HIDE DEF a
  <2>1. a < 2 ^ Precision * Ulp(y)
    BY DEF a
  <2> QED BY <1>1, <2>1, UlpCovers
<1>3. /\ r \in Nat /\ 2 * r - 2 * a \in - Ulp(a) .. Ulp(a)
      /\ Rounded(x) = IF x < 0 THEN - r ELSE r
  <2> HIDE DEF a
  <2>1. a = Abs(x)
    BY DEF a
  <2> QED BY <1>1, <1>2, <2>1, RoundedIs
<1>4. Ulp(a) \in Nat \ {0} /\ Ulp(y) \in Nat \ {0}
  <2> HIDE DEF a
  <2> QED BY <1>1, <1>2, UlpOwn
<1>5. Ulp(y) = 1 => Rounded(x) = x
  <2>1. ASSUME Ulp(y) = 1 PROVE Rounded(x) = x
    <3>1. L * 1 = L
      BY Mantissas
    <3>2. Abs(x) < L
      BY <2>1, <3>1
    <3> QED BY <3>2, RoundedExact
  <2> QED BY <2>1
<1> HIDE DEF a, r
<1>6. Rounded(x) \in Int /\ 2 * Rounded(x) - 2 * x \in - Ulp(y) .. Ulp(y)
  <2>1. 2 * r - 2 * a \in - Ulp(y) .. Ulp(y)
    BY <1>1, <1>2, <1>3, <1>4
  <2>2. CASE x < 0
    BY <1>1, <1>3, <1>4, <2>1, <2>2
  <2>3. CASE ~ (x < 0)
    BY <1>1, <1>3, <1>4, <2>1, <2>3
  <2> QED BY <2>2, <2>3
<1> QED BY <1>5, <1>6

\* A rounding is not negative where its operand is not, and at most twice as large.
LEMMA RoundedDouble ==
  ASSUME NEW x \in Nat, InRange(x)
  PROVE  Rounded(x) \in Nat /\ Rounded(x) <= 2 * x
<1>1. Abs(x) = x /\ ~ (x < 0)
  BY DEF Abs
<1>2. Ulp(x) \in Nat \ {0} /\ x < 2 ^ Precision * Ulp(x)
  BY UlpOwn
<1>3. /\ RoundedRatio(x, 1) \in Nat
      /\ Rounded(x) = RoundedRatio(x, 1)
  BY <1>1, RoundedIs
<1>4. /\ 2 * Rounded(x) - 2 * x \in - Ulp(x) .. Ulp(x)
      /\ Ulp(x) = 1 => Rounded(x) = x
  BY <1>1, <1>2, RoundedWithin
<1>5. Ulp(x) = 1 \/ Ulp(x) <= x
  <2>1. MaxExponent \in 0 .. MaxExponent /\ x \div 2 ^ MaxExponent < 2 ^ Precision
    BY RoundingAssumption DEF InRange
  <2>2. Ulp(x) = 1 \/ Ulp(x) * 2 ^ Precision <= 2 * x
    BY <2>1, UlpSize
  <2> DEFINE L == 2 ^ Precision
             p == Ulp(x) * L
             u == Ulp(x)
  <2>3. L \in Nat /\ L >= 2
    BY Mantissas
  <2> HIDE DEF L
  <2>4. u * 2 <= u * L
    <3> HIDE DEF u
    <3>1. u \in Nat
      BY <1>2 DEF u
    <3> QED BY <2>3, <3>1, ProductMonotone
  <2>5. p \in Int
    BY <1>2, <2>3
  <2>6. u = 1 \/ u * L <= 2 * x
    BY <2>2 DEF L
  <2> DEFINE v == u * L
  <2>7. v \in Int /\ u \in Nat
    BY <1>2, <2>3
  <2> HIDE DEF v, u
  <2>8. u = 1 \/ u <= x
    BY <2>4, <2>6, <2>7 DEF v
  <2> QED BY <2>8 DEF u
<1>6. CASE Ulp(x) = 1
  BY <1>3, <1>4, <1>6
<1>7. CASE Ulp(x) <= x
  BY <1>2, <1>3, <1>4, <1>7
<1> QED BY <1>5, <1>6, <1>7

-----------------------------------------------------------------------------
(* A sum kept up to date.                                                  *)

\* S is off the exact sum T by at most E, and r off what is to be added by at most half of w;
\* the sum of the two is rounded to Sn, by at most half of U.
LEMMA ErrorGrows ==
  ASSUME NEW S \in Int, NEW T \in Int, NEW r \in Int, NEW delta \in Int, NEW Sn \in Int,
         NEW E \in Nat, NEW U \in Nat \ {0}, NEW w \in Nat, w = 0 \/ w <= U - 2,
         S - T \in - E .. E, 2 * r - 2 * delta \in - w .. w,
         2 * Sn - 2 * (S + r) \in - U .. U, U = 1 => Sn = S + r
  PROVE  Sn - (T + delta) \in - (E + (U - 1)) .. E + (U - 1)
<1>1. CASE U = 1
  BY <1>1
<1>2. CASE U # 1
  BY <1>2
<1> QED BY <1>1, <1>2

\* A sum kept up to date stays within one distance more of the exact one for every number
\* added, as long as it stays below a full mantissa of the distance.
LEMMA AddedWithin ==
  ASSUME NEW top \in Nat, InRange(top), NEW U, U = Ulp(top), NEW E \in Nat,
         top + (E + (U - 1)) < 2 ^ Precision * U,
         NEW S \in Int, NEW T \in Int, NEW r \in Int, NEW delta \in Int,
         S - T \in - E .. E, T + delta \in 0 .. top,
         NEW w \in Nat, w = 0 \/ w <= U - 2, 2 * r - 2 * delta \in - w .. w
  PROVE  /\ Rounded(S + r) \in Int
         /\ Rounded(S + r) - (T + delta) \in - (E + (U - 1)) .. E + (U - 1)
<1> DEFINE x == S + r
           b == 2 ^ Precision * U
           Sn == Rounded(x)
<1>1. U \in Nat \ {0}
  BY UlpOwn
<1>2. x \in Int /\ b \in Int
  <2>1. 2 ^ Precision \in Nat
    BY Mantissas
  <2> QED BY <1>1, <2>1
<1> HIDE DEF b
<1>3. x - (T + delta) \in - (E + (U - 1)) .. E + (U - 1)
  BY <1>1
<1>4. Abs(x) <= top + (E + (U - 1))
  <2> HIDE DEF x
  <2> QED BY <1>1, <1>2, <1>3 DEF Abs
<1>5. Abs(x) < b
  <2>1. Abs(x) \in Int
    BY <1>2 DEF Abs
  <2>2. top + (E + (U - 1)) < b
    BY DEF b
  <2> HIDE DEF x
  <2> QED BY <1>1, <1>2, <1>4, <2>1, <2>2
<1>6. Sn \in Int /\ 2 * Sn - 2 * x \in - U .. U /\ (U = 1 => Sn = x)
  <2> HIDE DEF x
  <2>1. Abs(x) < 2 ^ Precision * Ulp(top)
    BY <1>5 DEF b
  <2> QED BY <1>2, <2>1, RoundedWithin
<1> HIDE DEF Sn
<1>7. Sn - (T + delta) \in - (E + (U - 1)) .. E + (U - 1)
  BY <1>1, <1>6, ErrorGrows
<1> QED BY <1>6, <1>7 DEF Sn

\* One number of the sum is exchanged for another.
LEMMA ExchangedWithin ==
  ASSUME NEW W \in Nat, W >= 2, NEW M \in Nat, NEW top, top = W * M, InRange(top),
         NEW U, U = Ulp(top), NEW E \in Nat, top + (E + (U - 1)) < 2 ^ Precision * U,
         NEW b \in 0 .. M, NEW c \in 0 .. M,
         NEW S \in Int, NEW T \in Int, S - T \in - E .. E, T + b - c \in 0 .. top
  PROVE  /\ Rounded(S + Rounded(b - c)) \in Int
         /\ Rounded(S + Rounded(b - c)) - (T + b - c) \in - (E + (U - 1)) .. E + (U - 1)
<1> DEFINE delta == b - c
           r == Rounded(delta)
           u == Ulp(M)
           w == IF u = 1 THEN 0 ELSE u
<1>1. top \in Nat /\ 2 * M <= top
  <2>1. M * 2 <= M * W
    BY ProductMonotone
  <2> QED BY <2>1
<1>2. U \in Nat \ {0}
  BY <1>1, UlpOwn
<1>3. InRange(M) /\ u \in Nat \ {0} /\ (u = 1 \/ 2 * u <= U)
  BY <1>1, UlpHalves
<1>4. M < 2 ^ Precision * u
  BY <1>3, UlpOwn
<1>5. delta \in Int /\ Abs(delta) \in Nat /\ Abs(delta) <= M
  BY DEF Abs
<1>6. Abs(delta) < 2 ^ Precision * u
  <2> DEFINE p == 2 ^ Precision * u
  <2>1. p \in Int /\ M < p
    <3>1. 2 ^ Precision \in Nat
      BY Mantissas
    <3> QED BY <1>3, <1>4, <3>1
  <2> HIDE DEF p, delta, u
  <2>2. Abs(delta) < p
    BY <1>5, <2>1
  <2> QED BY <2>2 DEF p
<1>7. r \in Int /\ 2 * r - 2 * delta \in - u .. u /\ (u = 1 => r = delta)
  <2> HIDE DEF delta
  <2>1. Abs(delta) < 2 ^ Precision * Ulp(M)
    BY <1>6
  <2> QED BY <1>3, <1>5, <2>1, RoundedWithin
<1> HIDE DEF r, u, delta
<1>8. w \in Nat /\ (w = 0 \/ w <= U - 2) /\ 2 * r - 2 * delta \in - w .. w
  BY <1>2, <1>3, <1>5, <1>7
<1>9. T + delta = T + b - c
  BY DEF delta
<1> HIDE DEF w
<1>10. /\ Rounded(S + r) \in Int
       /\ Rounded(S + r) - (T + delta) \in - (E + (U - 1)) .. E + (U - 1)
  BY <1>1, <1>5, <1>7, <1>8, <1>9, AddedWithin
<1> QED BY <1>9, <1>10 DEF r, delta

\* The same where the two numbers have themselves been rounded.
LEMMA RoundedExchangedWithin ==
  ASSUME NEW W \in Nat, W >= 8, NEW M \in Nat, NEW top, top = W * M, InRange(top),
         NEW U, U = Ulp(top), NEW E \in Nat, top + (E + (U - 1)) < 2 ^ Precision * U,
         NEW b \in 0 .. M, NEW c \in 0 .. M,
         NEW S \in Int, NEW T \in Int, S - T \in - E .. E, T + b - c \in 0 .. top
  PROVE  /\ Rounded(S + Rounded(Rounded(b) - Rounded(c))) \in Int
         /\ Rounded(S + Rounded(Rounded(b) - Rounded(c))) - (T + b - c)
              \in - (E + (U - 1)) .. E + (U - 1)
<1> DEFINE N == 2 * M
           N2 == 2 * N
           delta == b - c
           rb == Rounded(b)
           rc == Rounded(c)
           d == rb - rc
           r == Rounded(d)
           u == Ulp(N)
           w == IF u = 1 THEN 0 ELSE 3 * u
           p == 2 ^ Precision * u
<1>1. top \in Nat /\ N \in Nat /\ N2 \in Nat /\ 2 * N2 <= top /\ 2 * N <= N2
  <2>1. M * 8 <= M * W
    BY ProductMonotone
  <2> QED BY <2>1
<1>2. U \in Nat \ {0}
  BY <1>1, UlpOwn
<1> HIDE DEF N, N2
<1>3. InRange(N2) /\ Ulp(N2) \in Nat \ {0} /\ (Ulp(N2) = 1 \/ 2 * Ulp(N2) <= U)
  BY <1>1, UlpHalves
<1>4. InRange(N) /\ u \in Nat \ {0} /\ (u = 1 \/ 2 * u <= Ulp(N2))
  BY <1>1, <1>3, UlpHalves
<1>5. N < p /\ p \in Int
  <2>1. N < 2 ^ Precision * u
    BY <1>1, <1>4, UlpOwn
  <2>2. 2 ^ Precision \in Nat
    BY Mantissas
  <2> QED BY <1>4, <2>1, <2>2
<1> HIDE DEF u, p
<1>6. ASSUME NEW x \in Int, Abs(x) <= N
      PROVE  Rounded(x) \in Int /\ 2 * Rounded(x) - 2 * x \in - u .. u /\ (u = 1 => Rounded(x) = x)
  <2>1. Abs(x) \in Int
    BY DEF Abs
  <2>2. Abs(x) < p
    BY <1>1, <1>5, <1>6, <2>1
  <2>3. Abs(x) < 2 ^ Precision * Ulp(N)
    BY <2>2 DEF p, u
  <2>4. /\ Rounded(x) \in Int /\ 2 * Rounded(x) - 2 * x \in - Ulp(N) .. Ulp(N)
        /\ (Ulp(N) = 1 => Rounded(x) = x)
    BY <1>1, <1>4, <2>3, RoundedWithin
  <2> QED BY <2>4 DEF u
<1>7. ASSUME NEW x \in 0 .. M PROVE Rounded(x) \in 0 .. N
  <2>1. x \in Nat /\ x <= N /\ 2 * x <= N
    BY DEF N
  <2>2. InRange(x)
    BY <1>1, <1>4, <2>1, UlpMonotone
  <2>3. Rounded(x) \in Nat /\ Rounded(x) <= 2 * x
    BY <2>1, <2>2, RoundedDouble
  <2> QED BY <1>1, <2>1, <2>3
<1>8. rb \in 0 .. N /\ rc \in 0 .. N
  BY <1>7
<1>9. /\ 2 * rb - 2 * b \in - u .. u /\ (u = 1 => rb = b)
      /\ 2 * rc - 2 * c \in - u .. u /\ (u = 1 => rc = c)
  <2>1. b \in Int /\ c \in Int /\ Abs(b) <= N /\ Abs(c) <= N
    BY <1>1 DEF Abs, N
  <2> QED BY <1>6, <2>1
<1> HIDE DEF rb, rc
<1>10. d \in Int /\ Abs(d) <= N
  BY <1>1, <1>8 DEF Abs
<1>11. r \in Int /\ 2 * r - 2 * d \in - u .. u /\ (u = 1 => r = d)
  <2> HIDE DEF d
  <2> QED BY <1>6, <1>10
<1> HIDE DEF r
<1>12. w \in Nat /\ (w = 0 \/ w <= U - 2)
  BY <1>2, <1>3, <1>4
<1>13. 2 * r - 2 * delta \in - w .. w
  <2>1. CASE u = 1
    BY <1>8, <1>9, <1>11, <2>1
  <2>2. CASE u # 1
    BY <1>4, <1>8, <1>9, <1>11, <2>2
  <2> QED BY <2>1, <2>2
<1>14. T + delta = T + b - c /\ delta \in Int
  OBVIOUS
<1> HIDE DEF w, delta, d
<1>15. /\ Rounded(S + r) \in Int
       /\ Rounded(S + r) - (T + delta) \in - (E + (U - 1)) .. E + (U - 1)
  BY <1>1, <1>11, <1>12, <1>13, <1>14, AddedWithin
<1> QED BY <1>14, <1>15 DEF r, d, rb, rc

-----------------------------------------------------------------------------
(* Squares and differences of numbers that are off.                        *)

\* A rounding is off by less than the distance.
LEMMA RoundedOff ==
  ASSUME NEW x \in Int, NEW y \in Nat, InRange(y), Abs(x) < 2 ^ Precision * Ulp(y)
  PROVE  /\ Rounded(x) \in Int
         /\ Rounded(x) - x \in - (Ulp(y) - 1) .. Ulp(y) - 1
<1>1. Ulp(y) \in Nat \ {0}
  BY UlpOwn
<1>2. /\ Rounded(x) \in Int /\ 2 * Rounded(x) - 2 * x \in - Ulp(y) .. Ulp(y)
      /\ Ulp(y) = 1 => Rounded(x) = x
  BY RoundedWithin
<1>3. CASE Ulp(y) = 1
  BY <1>2, <1>3
<1>4. CASE Ulp(y) # 1
  BY <1>1, <1>2, <1>4
<1> QED BY <1>3, <1>4

\* A product is bounded by the product of the bounds.
LEMMA ProductWithin ==
  ASSUME NEW P \in Nat, NEW Q \in Nat, NEW p \in - P .. P, NEW q \in - Q .. Q
  PROVE  p * q \in - (P * Q) .. P * Q
<1>1. ASSUME NEW a \in 0 .. P, NEW b \in 0 .. Q PROVE a * b \in 0 .. P * Q
  <2>1. a * b <= a * Q
    BY ProductMonotone
  <2>2. Q * a <= Q * P
    BY ProductMonotone
  <2> DEFINE c == a * b
             d == a * Q
             e == P * Q
  <2>3. c \in Nat /\ d \in Nat /\ e \in Nat /\ c <= d /\ d <= e
    BY <2>1, <2>2
  <2> HIDE DEF c, d, e
  <2>4. c \in 0 .. e
    BY <2>3
  <2> QED BY <2>4 DEF c, e
<1> DEFINE a == Abs(p)
           b == Abs(q)
           e == P * Q
<1>2. a \in 0 .. P /\ b \in 0 .. Q /\ (p = a \/ p = - a) /\ (q = b \/ q = - b)
  BY DEF Abs
<1> HIDE DEF a, b
<1> DEFINE c == a * b
<1>3. c \in 0 .. e /\ e \in Nat
  BY <1>1, <1>2
<1>4. p * q = c \/ p * q = - c
  BY <1>2
<1> HIDE DEF c, e
<1>5. p * q \in - e .. e
  BY <1>3, <1>4
<1> QED BY <1>5 DEF e

\* The square of a number that is off.
LEMMA SquareWithin ==
  ASSUME NEW top \in Nat, NEW off \in Nat, NEW x \in - top .. top, NEW y \in Int,
         y - x \in - off .. off
  PROVE  /\ off * (2 * top + off) \in Nat
         /\ y * y - x * x \in - (off * (2 * top + off)) .. off * (2 * top + off)
<1> DEFINE b == 2 * top + off
           p == y - x
           q == y + x
<1>1. b \in Nat /\ p \in - off .. off /\ q \in - b .. b
  OBVIOUS
<1> HIDE DEF b
<1>2. p * q \in - (off * b) .. off * b
  <2> HIDE DEF p, q
  <2> QED BY <1>1, ProductWithin
<1>3. p * q = y * y - x * x
  OBVIOUS
<1>4. off * b \in Nat
  BY <1>1
<1> HIDE DEF p, q
<1> QED BY <1>2, <1>3, <1>4 DEF b

\* A difference whose subtrahend is off by E, rounded.
LEMMA DifferenceOff ==
  ASSUME NEW top \in Nat, InRange(top), NEW U, U = Ulp(top), NEW E \in Nat,
         top + E < 2 ^ Precision * U,
         NEW x \in 0 .. top, NEW T \in 0 .. top, NEW S \in Int, S - T \in - E .. E
  PROVE  /\ Rounded(x - S) \in Int
         /\ Rounded(x - S) - (x - T) \in - (E + U - 1) .. E + U - 1
<1> DEFINE y == x - S
           b == 2 ^ Precision * U
<1>1. U \in Nat \ {0}
  BY UlpOwn
<1>2. b \in Int
  <2>1. 2 ^ Precision \in Nat
    BY Mantissas
  <2> QED BY <1>1, <2>1
<1>3. top + E < b
  OBVIOUS
<1> HIDE DEF b
<1>4. y \in Int /\ Abs(y) < b
  BY <1>2, <1>3 DEF Abs
<1>5. Rounded(y) \in Int /\ Rounded(y) - y \in - (U - 1) .. U - 1
  <2> HIDE DEF y
  <2>1. Abs(y) < 2 ^ Precision * Ulp(top)
    BY <1>4 DEF b
  <2> QED BY <1>4, <2>1, RoundedOff
<1> DEFINE r == Rounded(y)
<1>6. r \in Int /\ r - y \in - (U - 1) .. U - 1
  BY <1>5
<1> HIDE DEF r
<1>7. r - (x - T) \in - (E + U - 1) .. E + U - 1
  BY <1>1, <1>6
<1> QED BY <1>6, <1>7 DEF r, y

\* The square of a number off by `off', rounded: B bounds the squares.
LEMMA SquareOff ==
  ASSUME NEW top \in Nat, NEW off \in Nat, NEW B, B = top * top, InRange(B), NEW U, U = Ulp(B),
         NEW sq, sq = off * (2 * top + off), B + sq < 2 ^ Precision * U,
         NEW x \in - top .. top, NEW y \in Int, y - x \in - off .. off
  PROVE  /\ Rounded(y * y) \in Int
         /\ Rounded(y * y) - x * x \in - (sq + U - 1) .. sq + U - 1
<1> DEFINE yy == y * y
           xx == x * x
           b == 2 ^ Precision * U
           r == Rounded(yy)
<1>1. B \in Nat /\ yy \in Nat /\ xx \in Nat
  OBVIOUS
<1>2. U \in Nat \ {0}
  BY <1>1, UlpOwn
<1>3. sq \in Nat /\ yy - xx \in - sq .. sq
  BY SquareWithin
<1>4. xx <= B
  <2>1. x * x \in - (top * top) .. top * top
    BY ProductWithin
  <2> HIDE DEF xx
  <2>2. xx \in - B .. B
    BY <2>1 DEF xx
  <2> QED BY <1>1, <2>2
<1>5. b \in Int /\ B + sq < b
  <2>1. 2 ^ Precision \in Nat
    BY Mantissas
  <2> QED BY <1>2, <2>1
<1> HIDE DEF yy, xx, b
<1>6. Abs(yy) < b
  BY <1>1, <1>3, <1>4, <1>5 DEF Abs
<1>7. r \in Int /\ r - yy \in - (U - 1) .. U - 1
  <2>1. Abs(yy) < 2 ^ Precision * Ulp(B)
    BY <1>6 DEF b
  <2> QED BY <1>1, <2>1, RoundedOff
<1> HIDE DEF r
<1>8. r - xx \in - (sq + U - 1) .. sq + U - 1
  BY <1>1, <1>2, <1>3, <1>7
<1> QED BY <1>7, <1>8 DEF r, yy, xx

\* A difference of q and tt, both at most B, whose terms are off, by e and by sq and a
\* rounding, so that the difference rounded, of Q and ss, is off by at most M.
TermsOff(B, U, sq, e, M, q, tt, Q, ss) ==
  /\ B \in Nat /\ InRange(B) /\ U = Ulp(B) /\ B + M < 2 ^ Precision * U
  /\ sq \in Nat /\ e \in Nat /\ M = e + 2 * (U - 1) + sq
  /\ q \in 0 .. B /\ tt \in 0 .. q
  /\ Q \in Int /\ Q - q \in - e .. e
  /\ ss \in Int /\ ss - tt \in - (sq + U - 1) .. sq + U - 1

\* It is.
LEMMA VarianceOff ==
  ASSUME NEW B, NEW U, NEW sq, NEW e, NEW M, NEW q, NEW tt, NEW Q, NEW ss,
         TermsOff(B, U, sq, e, M, q, tt, Q, ss)
  PROVE  /\ Rounded(Q - ss) \in Int
         /\ Rounded(Q - ss) - (q - tt) \in - M .. M
<1> USE DEF TermsOff
<1> DEFINE v == Q - ss
           r == Rounded(v)
           b == 2 ^ Precision * U
<1>1. U \in Nat \ {0} /\ M \in Nat
  <2>1. U \in Nat \ {0}
    BY UlpOwn
  <2> DEFINE c == 2 * (U - 1)
  <2>2. c \in Nat /\ M = e + c + sq
    BY <2>1
  <2> HIDE DEF c
  <2>3. M \in Nat
    BY <2>2
  <2> QED BY <2>1, <2>3
<1>2. b \in Int
  <2>1. 2 ^ Precision \in Nat
    BY Mantissas
  <2> QED BY <1>1, <2>1
<1>3. B + M < b
  OBVIOUS
<1> HIDE DEF b
<1>4. v \in Int /\ v <= B + M /\ - v <= B + M
  BY <1>1
<1>5. Abs(v) < b
  <2> HIDE DEF v
  <2> QED BY <1>1, <1>2, <1>3, <1>4 DEF Abs
<1>6. r \in Int /\ r - v \in - (U - 1) .. U - 1
  <2> HIDE DEF v
  <2>1. Abs(v) < 2 ^ Precision * Ulp(B)
    BY <1>5 DEF b
  <2> QED BY <1>4, <2>1, RoundedOff
<1> HIDE DEF r
<1>7. r - (q - tt) \in - M .. M
  BY <1>1, <1>6
<1> QED BY <1>6, <1>7 DEF r, v

\* A value off by less than its size has the sign of the exact one.
LEMMA SameSign ==
  ASSUME NEW D \in Int, NEW d \in Int, NEW off \in Nat, d - D \in - off .. off,
         NEW M \in Int, off * off <= M, M < D * D
  PROVE  /\ d > 0 <=> D > 0
         /\ d < 0 <=> D < 0
<1>1. ASSUME D \in - off .. off PROVE FALSE
  <2> DEFINE a == D * D
             b == off * off
  <2>1. a \in - b .. b
    BY <1>1, ProductWithin
  <2>2. a \in Int /\ b \in Int /\ b <= M /\ M < a
    OBVIOUS
  <2> HIDE DEF a, b
  <2> QED BY <2>1, <2>2
<1>2. D > off \/ D < - off
  BY <1>1
<1> DEFINE e == d - D
<1>3. e \in - off .. off /\ d = D + e
  OBVIOUS
<1> HIDE DEF e
<1> QED BY <1>2, <1>3
=============================================================================
