----------------------------- MODULE DataLemmas -----------------------------
(***************************************************************************)
(* Facts about data that the proofs of several components share: the       *)
(* remainders of wrapped indices, induction over numbers and finite sets   *)
(* stated for sets (a property becomes the set of what has it), the sums   *)
(* that MapThenSumSet computes, whatever the order the members are taken   *)
(* in, and minima and maxima.                                              *)
(***************************************************************************)
EXTENDS Integers, FiniteSetsExt, FiniteSetTheorems, FunctionTheorems,
        WellFoundedInduction, TLAPS

-----------------------------------------------------------------------------
(* Remainders: indices are unsigned machine words, a difference of two of  *)
(* them wraps, and a mask by a power of two takes a remainder.             *)

\* Euclidean division: every integer is a multiple of the modulus plus its remainder.
LEMMA Division ==
  ASSUME NEW m \in Nat \ {0}, NEW a \in Int
  PROVE  /\ a = m * (a \div m) + (a % m)
         /\ a % m \in 0 .. (m - 1)
         /\ a \div m \in Int
OBVIOUS

\* A remainder is below the modulus.
LEMMA ModRange ==
  ASSUME NEW m \in Nat \ {0}, NEW a \in Nat
  PROVE  a % m \in 0 .. (m - 1)
OBVIOUS

\* The only multiple of m strictly between -m and m is zero.
LEMMA SmallMultiple ==
  ASSUME NEW m \in Nat \ {0}, NEW k \in Int, NEW d \in Int,
         d = m * k, -m < d, d < m
  PROVE  d = 0
OBVIOUS

\* A remainder is the only number below m that differs from a by a multiple of m.
LEMMA ModUnique ==
  ASSUME NEW m \in Nat \ {0}, NEW a \in Int, NEW k \in Int,
         NEW r \in 0 .. (m - 1), a = m * k + r
  PROVE  a % m = r
<1> DEFINE q == a \div m
           s == a % m
<1>1. a = m * q + s /\ s \in 0 .. (m - 1) /\ q \in Int
  BY Division
<1>2. r - s \in Int /\ -m < r - s /\ r - s < m /\ q - k \in Int
  BY <1>1
<1> HIDE DEF q, s
<1>3. r - s = m * (q - k)
  BY <1>1
<1>4. r - s = 0
  BY <1>2, <1>3, SmallMultiple
<1>5. s = r
  BY <1>1, <1>4
<1> QED BY <1>5 DEF s

\* Multiplying by a natural number keeps the order.
LEMMA ProductMonotone ==
  ASSUME NEW a \in Nat, NEW x \in Int, NEW y \in Int, x <= y
  PROVE  a * x <= a * y
<1>1. a * (y - x) >= 0
  OBVIOUS
<1>2. a * (y - x) = a * y - a * x
  OBVIOUS
<1>3. a * x \in Int /\ a * y \in Int
  OBVIOUS
<1> QED BY <1>1, <1>2, <1>3

\* A quotient is below a number whose product with the divisor the dividend is below.
LEMMA QuotientBelow ==
  ASSUME NEW n \in Nat, NEW d \in Nat \ {0}, NEW k \in Nat, n < d * k
  PROVE  n \div d < k /\ n \div d \in Nat /\ d * (n \div d) <= n
<1> DEFINE q == n \div d
           r == n % d
           p == d * q
           t == d * k
<1>1. n = p + r /\ r \in 0 .. d - 1 /\ q \in Int /\ t \in Int /\ p \in Int /\ n < t
  BY Division
<1>2. p <= n
  <2> HIDE DEF q, r, p
  <2> QED BY <1>1
<1>3. q < k
  <2> SUFFICES ASSUME k <= q PROVE FALSE
    BY <1>1
  <2>1. t <= p
    <3> HIDE DEF q
    <3> QED BY <1>1, ProductMonotone
  <2> HIDE DEF q, p, t
  <2> QED BY <1>1, <1>2, <2>1
<1>4. q >= 0
  <2> SUFFICES ASSUME q <= -1 PROVE FALSE
    BY <1>1
  <2>1. p <= d * (-1)
    <3> HIDE DEF q
    <3> QED BY <1>1, ProductMonotone
  <2>2. d * (-1) = -d
    OBVIOUS
  <2> HIDE DEF q, p, r
  <2> QED BY <1>1, <2>1, <2>2
<1> HIDE DEF q, p
<1>5. q \in Nat
  BY <1>1, <1>4
<1> QED BY <1>2, <1>3, <1>5 DEF q, p

\* A quotient from its remainder.
LEMMA QuotientIs ==
  ASSUME NEW d \in Nat \ {0}, NEW k \in Int, NEW r \in 0 .. d - 1
  PROVE  (d * k + r) \div d = k
<1> DEFINE n == d * k + r
           q == n \div d
<1>1. n \in Int /\ n = d * k + r
  OBVIOUS
<1> HIDE DEF n
<1>2. n % d = r
  BY <1>1, ModUnique
<1>3. n = d * q + (n % d) /\ q \in Int
  BY <1>1, Division
<1> HIDE DEF q
<1>4. d * k = d * q
  BY <1>1, <1>2, <1>3
<1>5. d * (k - q) = 0
  BY <1>3, <1>4
<1>6. k - q = 0
  BY <1>3, <1>5
<1>7. q = k
  BY <1>3, <1>6
<1> QED BY <1>7 DEF q, n

\* A common factor cancels.
LEMMA FactorCancels ==
  ASSUME NEW a \in Nat \ {0}, NEW x \in Int, NEW y \in Int, a * x <= a * y
  PROVE  x <= y
<1> SUFFICES ASSUME y + 1 <= x PROVE FALSE
  OBVIOUS
<1>1. a * (y + 1) <= a * x
  BY ProductMonotone
<1>2. a * (y + 1) = a * y + a
  OBVIOUS
<1>3. a * y \in Int /\ a * x \in Int
  OBVIOUS
<1> QED BY <1>1, <1>2, <1>3

\* One divides everything.
LEMMA DividedByOne ==
  ASSUME NEW a \in Nat
  PROVE  a \div 1 = a /\ a % 1 = 0
<1> DEFINE m == 1
           q == a \div m
           r == a % m
<1>1. m \in Nat \ {0} /\ a \in Int
  OBVIOUS
<1> HIDE DEF m
<1>2. a = m * q + r /\ r \in 0 .. (m - 1) /\ q \in Int
  BY <1>1, Division
<1>3. m = 1
  BY DEF m
<1> HIDE DEF q, r
<1>4. r = 0 /\ q = a
  BY <1>2, <1>3
<1> QED BY <1>4 DEF q, r, m

\* A number below the modulus is its own remainder.
LEMMA ModSmall ==
  ASSUME NEW m \in Nat \ {0}, NEW r \in 0 .. (m - 1)
  PROVE  r % m = r
<1>1. r = m * 0 + r
  OBVIOUS
<1> QED BY <1>1, ModUnique

\* The wrapped difference of two wrapped indices that are less than m apart is
\* their true difference: this is what makes `t - head == Capacity' a full test.
LEMMA WrappedDifference ==
  ASSUME NEW m \in Nat \ {0}, NEW a \in Nat, NEW b \in Nat, b <= a, a - b < m
  PROVE  ((a % m) - (b % m)) % m = a - b
<1> DEFINE x == a % m
           y == b % m
           qa == a \div m
           qb == b \div m
           z == x - y
<1>1. /\ a = m * qa + x /\ b = m * qb + y
      /\ x \in Int /\ y \in Int /\ qa \in Int /\ qb \in Int /\ z \in Int
  BY Division
<1>2. a - b \in 0 .. (m - 1)
  OBVIOUS
<1>3. z = x - y
  OBVIOUS
<1> HIDE DEF x, y, qa, qb, z
<1>4. qb - qa \in Int /\ z = m * (qb - qa) + (a - b)
  BY <1>1, <1>3
<1>5. z % m = a - b
  BY <1>1, <1>2, <1>4, ModUnique
<1> QED BY <1>5 DEF x, y, z

\* Two different indices less than m apart have different remainders: they
\* select different slots.
LEMMA DistinctRemainders ==
  ASSUME NEW m \in Nat \ {0}, NEW a \in Nat, NEW b \in Nat, b < a, a - b < m
  PROVE  a % m # b % m
<1>1. b <= a
  OBVIOUS
<1>2. ((a % m) - (b % m)) % m = a - b
  BY <1>1, WrappedDifference
<1>3. 0 % m = 0
  BY ModSmall
<1>4. a % m \in Int
  BY Division
<1> QED BY <1>2, <1>3, <1>4

\* Incrementing a wrapped index wraps the incremented index.
LEMMA WrappedSuccessor ==
  ASSUME NEW m \in Nat \ {0}, NEW a \in Nat
  PROVE  ((a % m) + 1) % m = (a + 1) % m
<1> DEFINE x == a % m
           q == a \div m
           w == (a + 1) % m
           p == (a + 1) \div m
           z == x + 1
<1>1. /\ a = m * q + x /\ a + 1 = m * p + w
      /\ x \in Int /\ q \in Int /\ p \in Int /\ w \in 0 .. (m - 1) /\ z \in Int
  BY Division
<1>2. z = x + 1
  OBVIOUS
<1> HIDE DEF x, q, w, p, z
<1>3. p - q \in Int /\ z = m * (p - q) + w
  BY <1>1, <1>2
<1>4. z % m = w
  BY <1>1, <1>3, ModUnique
<1> QED BY <1>4 DEF x, w, z

\* Of any m consecutive naturals below c, one has the remainder s.
LEMMA RecentRemainder ==
  ASSUME NEW m \in Nat \ {0}, NEW c \in Nat, c >= m, NEW s \in 0 .. (m - 1)
  PROVE  \E r \in Nat : r < c /\ c - r <= m /\ r % m = s
<1> DEFINE a == c - 1 - s
           q == a \div m
           e == a % m
           p == m * q
           r == c - 1 - e
<1>1. a \in Nat /\ s \in Nat
  OBVIOUS
<1>2. a = m * q + e /\ e \in 0 .. (m - 1) /\ q \in Nat
  <2> HIDE DEF a
  <2>1. a \in Int
    BY <1>1
  <2>2. a = m * (a \div m) + (a % m) /\ a % m \in 0 .. (m - 1)
    BY <2>1, Division
  <2>3. a \div m \in Nat
    BY <1>1
  <2> QED BY <2>2, <2>3
<1>3. p \in Nat
  <2> HIDE DEF q
  <2> QED BY <1>2
<1>4. a = p + e /\ e \in Nat /\ e < m
  BY <1>2
<1>5. r = p + s
  <2> HIDE DEF p, e
  <2> QED BY <1>1, <1>3, <1>4
<1>6. r \in Nat /\ r < c /\ c - r <= m
  <2>1. r \in Nat
    <3> HIDE DEF p, r
    <3> QED BY <1>1, <1>3, <1>5
  <2> HIDE DEF e, p
  <2> QED BY <1>4, <2>1
<1>7. r % m = s
  <2> HIDE DEF r, q
  <2>1. r \in Int /\ q \in Int /\ r = m * q + s
    BY <1>2, <1>5, <1>6 DEF p
  <2> QED BY <2>1, ModUnique
<1> QED BY <1>6, <1>7

\* Reducing modulo a multiple of c first does not change the remainder by c:
\* the slot of an index survives the wrap-around of the index.
LEMMA RemainderOfWrapped ==
  ASSUME NEW m \in Nat \ {0}, NEW c \in Nat \ {0}, m % c = 0, NEW a \in Nat
  PROVE  (a % m) % c = a % c
<1> DEFINE x == a % m
           q == a \div m
           r == a % c
           p == a \div c
           w == m \div c
<1>1. /\ a = m * q + x /\ a = c * p + r /\ m = c * w
      /\ x \in Int /\ q \in Int /\ p \in Int /\ w \in Int /\ r \in 0 .. (c - 1)
  <2>1. m = c * w + (m % c) /\ w \in Int
    BY Division
  <2>2. m = c * w
    BY <2>1
  <2> QED BY <2>1, <2>2, Division
<1> HIDE DEF x, q, r, p, w
<1>2. x = c * p + r - (c * w) * q
  BY <1>1
<1>3. (c * w) * q = c * (w * q)
  BY <1>1
<1>4. w * q \in Int
  BY <1>1
<1> DEFINE k == w * q
<1> HIDE DEF k
<1>5. x = c * (p - k) + r /\ p - k \in Int
  BY <1>1, <1>2, <1>3, <1>4 DEF k
<1>6. x % c = r
  BY <1>1, <1>5, ModUnique
<1> QED BY <1>6 DEF x, r

-----------------------------------------------------------------------------
(* Induction.                                                              *)

\* Every set of naturals that is not empty has a least member.
LEMMA LeastMember ==
  ASSUME NEW T \in SUBSET Nat, T # {}
  PROVE  \E n \in T : \A m \in T : n <= m
<1> DEFINE F == {0 .. n : n \in T}
<1>1. F \subseteq FiniteSubsetsOf(Nat)
  <2> SUFFICES ASSUME NEW n \in T PROVE 0 .. n \in FiniteSubsetsOf(Nat)
    OBVIOUS
  <2>1. IsFiniteSet(0 .. n)
    BY FS_Interval
  <2> QED BY <2>1 DEF FiniteSubsetsOf
<1>2. F # {}
  OBVIOUS
<1>3. PICK X \in F : \A Y \in F : <<Y, X>> \notin StrictSubsetOrdering(Nat)
  BY <1>1, <1>2, WFMin, FS_StrictSubsetOrderingWellFounded
<1>4. PICK n \in T : X = 0 .. n
  BY <1>3
<1>5. ASSUME NEW m \in T, m < n PROVE FALSE
  <2>1. 0 .. m \in F
    OBVIOUS
  <2>2. 0 .. m \subseteq Nat /\ 0 .. n \subseteq Nat /\ 0 .. m \subseteq 0 .. n /\ n \in 0 .. n /\ n \notin 0 .. m
    BY <1>5
  <2>3. <<0 .. m, X>> \in StrictSubsetOrdering(Nat)
    BY <2>2, <1>4 DEF StrictSubsetOrdering
  <2> QED BY <1>3, <2>1, <2>3
<1> QED BY <1>4, <1>5
\* Induction: a set with 0 and the successors of its members has every number.
LEMMA NatInductionSet ==
  ASSUME NEW P \in SUBSET Nat, 0 \in P, \A n \in P : n + 1 \in P
  PROVE  P = Nat
<1> DEFINE rest == Nat \ P
<1>1. SUFFICES ASSUME rest # {} PROVE FALSE
  OBVIOUS
<1>2. PICK n \in rest : \A m \in rest : n <= m
  BY <1>1, LeastMember
<1>3. n \in Nat /\ n # 0 /\ n \notin P
  BY <1>2
<1>4. n - 1 \in Nat /\ (n - 1) + 1 = n /\ ~ (n <= n - 1)
  BY <1>3
<1>5. n - 1 \in P
  BY <1>2, <1>4
<1> QED BY <1>3, <1>4, <1>5

\* Every family of finite sets that is not empty has a member no other member is inside of.
LEMMA MinimalSet ==
  ASSUME NEW S, IsFiniteSet(S), NEW F \in SUBSET (SUBSET S), F # {}
  PROVE  \E X \in F : \A Y \in F : Y \subseteq X => Y = X
<1>1. F \subseteq FiniteSubsetsOf(S)
  BY FS_Subset DEF FiniteSubsetsOf
<1>2. PICK X \in F : \A Y \in F : <<Y, X>> \notin StrictSubsetOrdering(S)
  BY <1>1, WFMin, FS_StrictSubsetOrderingWellFounded
<1> QED BY <1>2 DEF StrictSubsetOrdering

\* Induction over a finite set: a family with the empty set, and with every set it has
\* one member more, has the whole set.
LEMMA SetInduction ==
  ASSUME NEW S, IsFiniteSet(S), NEW F \in SUBSET (SUBSET S), {} \in F,
         \A T \in F : \A x \in S \ T : T \cup {x} \in F
  PROVE  S \in F
<1> DEFINE rest == (SUBSET S) \ F
<1>1. SUFFICES ASSUME rest # {} PROVE FALSE
  OBVIOUS
<1>2. rest \in SUBSET (SUBSET S)
  OBVIOUS
<1> HIDE DEF rest
<1>3. PICK X \in rest : \A Y \in rest : Y \subseteq X => Y = X
  BY <1>1, <1>2, MinimalSet
<1>4. X \in SUBSET S /\ X \notin F
  BY <1>3 DEF rest
<1>5. PICK x \in X : TRUE
  BY <1>4
<1>6. X \ {x} \in SUBSET S /\ X \ {x} # X /\ X = (X \ {x}) \cup {x} /\ x \in S \ (X \ {x})
  BY <1>4, <1>5
<1>7. X \ {x} \in F
  BY <1>3, <1>6 DEF rest
<1> QED BY <1>4, <1>6, <1>7

-----------------------------------------------------------------------------
(* Sums.                                                                   *)

\* The sum of f[x] for the members x of a set.
SumOver(f, S) == MapThenSumSet(LAMBDA x : f[x], S)

First(s) == CHOOSE x \in s : TRUE

\* g gives, for every subset of S, the sum of its members' values.
Sums(g, f, S) ==
  g = [s \in SUBSET S |-> IF s = {} THEN 0 ELSE f[First(s)] + g[s \ {First(s)}]]

\* The value of a table of partial sums at a set, by what MapThenFoldSet does there.
LEMMA SumsAt ==
  ASSUME NEW f, NEW S, NEW g, Sums(g, f, S), NEW s \in SUBSET S
  PROVE  /\ s = {} => g[s] = 0
         /\ s # {} => g[s] = f[First(s)] + g[s \ {First(s)}]
<1> DEFINE body == [r \in SUBSET S |-> IF r = {} THEN 0 ELSE f[First(r)] + g[r \ {First(r)}]]
<1>1. g = body
  BY DEF Sums
<1>2. body[s] = IF s = {} THEN 0 ELSE f[First(s)] + g[s \ {First(s)}]
  OBVIOUS
<1> HIDE DEF body
<1> QED BY <1>1, <1>2

\* The partial sum of no element.
LEMMA SumsAtEmpty ==
  ASSUME NEW f, NEW S, NEW g, Sums(g, f, S)
  PROVE  g[{}] = 0
<1>1. {} \in SUBSET S
  OBVIOUS
<1> QED BY <1>1, SumsAt

\* A table of partial sums restricted to a smaller set is one for that set.
LEMMA SumsRestricted ==
  ASSUME NEW f, NEW S, NEW g, Sums(g, f, S), NEW V \in SUBSET S
  PROVE  Sums([s \in SUBSET V |-> g[s]], f, V)
<1> DEFINE r == [s \in SUBSET V |-> g[s]]
<1>1. ASSUME NEW s \in SUBSET V
      PROVE  r[s] = IF s = {} THEN 0 ELSE f[First(s)] + r[s \ {First(s)}]
  <2>1. s \in SUBSET S /\ s \ {First(s)} \in SUBSET V
    OBVIOUS
  <2> QED BY <2>1, SumsAt
<1>2. r = [s \in SUBSET V |-> r[s]]
  OBVIOUS
<1> HIDE DEF r
<1>3. r = [s \in SUBSET V |-> IF s = {} THEN 0 ELSE f[First(s)] + r[s \ {First(s)}]]
  BY <1>1, <1>2
<1> QED BY <1>3 DEF Sums, r

\* Partial sums of integers are integers.
LEMMA SumsTyped ==
  ASSUME NEW S, IsFiniteSet(S), NEW f, \A x \in S : f[x] \in Int, NEW g, Sums(g, f, S)
  PROVE  g \in [SUBSET S -> Int]
<1>0. g = [s \in SUBSET S |-> g[s]]
  BY DEF Sums
<1> DEFINE bad == {s \in SUBSET S : g[s] \notin Int}
<1>1. SUFFICES ASSUME bad # {} PROVE FALSE
  BY <1>0
<1>a. bad \in SUBSET (SUBSET S)
  OBVIOUS
<1> HIDE DEF bad
<1>2. PICK s \in bad : \A t \in bad : t \subseteq s => t = s
  BY <1>1, <1>a, MinimalSet
<1>b. s \in SUBSET S
  BY <1>a, <1>2
<1>3. s # {}
  <2> SUFFICES ASSUME s = {} PROVE FALSE
    OBVIOUS
  <2>1. g[s] = 0
    BY <1>b, SumsAt
  <2> QED BY <1>2, <2>1 DEF bad
<1>4. First(s) \in s
  BY <1>3 DEF First
<1>5. s \ {First(s)} \notin bad /\ s \ {First(s)} \in SUBSET S
  BY <1>2, <1>4, <1>b
<1>6. g[s] = f[First(s)] + g[s \ {First(s)}]
  BY <1>b, <1>3, SumsAt
<1>c. First(s) \in S
  BY <1>4, <1>b
<1> QED BY <1>2, <1>c, <1>5, <1>6 DEF bad

\* Functions with the same values have the same partial sums.
LEMMA SumsUnique ==
  ASSUME NEW S, IsFiniteSet(S), NEW f, NEW e, \A x \in S : f[x] = e[x],
         NEW g, Sums(g, f, S), NEW h, Sums(h, e, S)
  PROVE  g = h
<1>0. g = [s \in SUBSET S |-> g[s]] /\ h = [s \in SUBSET S |-> h[s]]
  BY DEF Sums
<1> DEFINE bad == {s \in SUBSET S : g[s] # h[s]}
<1>1. SUFFICES ASSUME bad # {} PROVE FALSE
  BY <1>0
<1>a. bad \in SUBSET (SUBSET S)
  OBVIOUS
<1> HIDE DEF bad
<1>2. PICK s \in bad : \A t \in bad : t \subseteq s => t = s
  BY <1>1, <1>a, MinimalSet
<1>b. s \in SUBSET S
  BY <1>a, <1>2
<1>3. s # {}
  <2> SUFFICES ASSUME s = {} PROVE FALSE
    OBVIOUS
  <2>1. g[{}] = 0
    BY SumsAtEmpty
  <2>2. h[{}] = 0
    BY SumsAtEmpty
  <2> QED BY <1>2, <2>1, <2>2 DEF bad
<1>4. First(s) \in s
  BY <1>3 DEF First
<1>5. s \ {First(s)} \notin bad /\ s \ {First(s)} \in SUBSET S
  BY <1>2, <1>4, <1>b
<1>6. g[s] = f[First(s)] + g[s \ {First(s)}] /\ h[s] = e[First(s)] + h[s \ {First(s)}]
  BY <1>b, <1>3, SumsAt
<1>c. First(s) \in S
  BY <1>4, <1>b
<1> QED BY <1>2, <1>c, <1>5, <1>6 DEF bad

\* Every finite set has a table of partial sums.
LEMMA SumsExist ==
  ASSUME NEW S, IsFiniteSet(S), NEW f
  PROVE  \E g : Sums(g, f, S)
<1> DEFINE bad == {T \in SUBSET S : ~ \E g : Sums(g, f, T)}
           G(T) == CHOOSE g : Sums(g, f, T)
<1>1. SUFFICES ASSUME bad # {} PROVE FALSE
  OBVIOUS
<1>a. bad \in SUBSET (SUBSET S)
  OBVIOUS
<1> HIDE DEF bad
<1>2. PICK T \in bad : \A U \in bad : U \subseteq T => U = T
  BY <1>1, <1>a, MinimalSet
<1>b. T \in SUBSET S
  BY <1>a, <1>2
<1>3. ASSUME NEW U \in SUBSET T, U # T PROVE Sums(G(U), f, U)
  <2>1. U \in SUBSET S /\ U \notin bad
    BY <1>2, <1>3, <1>b
  <2> QED BY <2>1 DEF bad
<1>4. IsFiniteSet(T)
  BY <1>b, FS_Subset
<1> HIDE DEF G
<1> DEFINE first == First(T)
           g == [s \in SUBSET T |-> IF s = T /\ T # {} THEN f[first] + G(T \ {first})[T \ {first}]
                                    ELSE IF s = {} THEN 0 ELSE G(s)[s]]
<1>5. T # {} => first \in T
  BY DEF First
<1>6. ASSUME NEW s \in SUBSET T
      PROVE  g[s] = IF s = {} THEN 0 ELSE f[First(s)] + g[s \ {First(s)}]
  <2>1. CASE s = {}
    BY <2>1
  <2>2. CASE s # {} /\ s = T
    <3>1. T \ {first} # T /\ T \ {first} \in SUBSET T
      BY <1>5, <2>2
    <3>2. g[s] = f[first] + G(T \ {first})[T \ {first}]
      BY <2>2
    <3>3. CASE T \ {first} = {}
      <4>1. g[T \ {first}] = 0
        BY <3>1, <3>3
      <4>2. G(T \ {first})[T \ {first}] = 0
        <5>1. Sums(G({}), f, {}) /\ {} \in SUBSET {}
          BY <1>3, <3>1, <3>3
        <5>2. G({})[{}] = 0
          BY <5>1, SumsAt
        <5> QED BY <5>2, <3>3
      <4> QED BY <3>2, <4>1, <4>2, <2>2
    <3>4. CASE T \ {first} # {}
      <4>1. g[T \ {first}] = G(T \ {first})[T \ {first}]
        BY <3>1, <3>4
      <4> QED BY <3>2, <4>1, <2>2
    <3> QED BY <3>3, <3>4
  <2>3. CASE s # {} /\ s # T
    <3> DEFINE r == s \ {First(s)}
    <3>1. First(s) \in s
      BY <2>3 DEF First
    <3>2. r \in SUBSET s /\ r \in SUBSET T /\ r # T
      BY <2>3
    <3>3. Sums(G(s), f, s) /\ Sums(G(r), f, r)
      BY <1>3, <2>3, <3>2
    <3>4. G(s)[s] = f[First(s)] + G(s)[r]
      BY <2>3, <3>3, SumsAt
    <3>5. Sums([t \in SUBSET r |-> G(s)[t]], f, r)
      BY <3>2, <3>3, SumsRestricted
    <3>6. IsFiniteSet(r)
      BY <1>4, <3>2, FS_Subset
    <3>7. [t \in SUBSET r |-> G(s)[t]] = G(r)
      BY <3>3, <3>5, <3>6, SumsUnique
    <3>8. G(s)[r] = G(r)[r]
      BY <3>7
    <3>9. g[s] = G(s)[s]
      BY <2>3
    <3>10. CASE r = {}
      <4>1. G(r)[r] = 0
        <5>1. Sums(G({}), f, {}) /\ {} \in SUBSET {}
          BY <3>3, <3>10
        <5>2. G({})[{}] = 0
          BY <5>1, SumsAt
        <5> QED BY <5>2, <3>10
      <4> QED BY <4>1, <3>10, <3>4, <3>8, <3>9, <3>2, <2>3
    <3>11. CASE r # {}
      <4>1. g[r] = G(r)[r]
        BY <3>2, <3>11
      <4> QED BY <4>1, <3>4, <3>8, <3>9, <2>3
    <3> QED BY <3>10, <3>11
  <2> QED BY <2>1, <2>2, <2>3
<1>7. g = [s \in SUBSET T |-> g[s]]
  OBVIOUS
<1> HIDE DEF g
<1>8. g = [s \in SUBSET T |-> IF s = {} THEN 0 ELSE f[First(s)] + g[s \ {First(s)}]]
  BY <1>6, <1>7
<1>9. Sums(g, f, T)
  BY <1>8 DEF Sums
<1> QED BY <1>2, <1>9 DEF bad

\* A sum is the entry of the set in any table of partial sums of a larger set.
LEMMA SumOverIs ==
  ASSUME NEW S, IsFiniteSet(S), NEW f, NEW T \in SUBSET S, NEW g, Sums(g, f, S)
  PROVE  SumOver(f, T) = g[T]
<1> DEFINE h == CHOOSE h : Sums(h, f, T)
<1>1. SumOver(f, T) = h[T]
  BY DEF SumOver, MapThenSumSet, MapThenFoldSet, Sums, First
<1>2. IsFiniteSet(T)
  BY FS_Subset
<1>3. Sums(h, f, T)
  BY <1>2, SumsExist
<1>4. Sums([s \in SUBSET T |-> g[s]], f, T)
  BY SumsRestricted
<1> HIDE DEF h
<1>5. h = [s \in SUBSET T |-> g[s]]
  BY <1>2, <1>3, <1>4, SumsUnique
<1> QED BY <1>1, <1>5

\* A sum over a finite set of integers is one; the empty sum is 0.
LEMMA SumType ==
  ASSUME NEW S, IsFiniteSet(S), NEW f, \A x \in S : f[x] \in Int
  PROVE  SumOver(f, S) \in Int
<1>1. PICK g : Sums(g, f, S)
  BY SumsExist
<1>2. g \in [SUBSET S -> Int]
  BY <1>1, SumsTyped
<1> QED BY <1>1, <1>2, SumOverIs

\* A sum over no element is 0.
LEMMA SumEmpty ==
  ASSUME NEW f
  PROVE  SumOver(f, {}) = 0
<1>1. IsFiniteSet({})
  BY FS_EmptySet
<1>2. PICK g : Sums(g, f, {})
  BY <1>1, SumsExist
<1>3. g[{}] = 0
  BY <1>2, SumsAt
<1> QED BY <1>1, <1>2, <1>3, SumOverIs

\* Two functions that agree on a set have the same sum over it.
LEMMA SumSame ==
  ASSUME NEW S, IsFiniteSet(S), NEW f, NEW e, \A x \in S : f[x] = e[x]
  PROVE  SumOver(f, S) = SumOver(e, S)
<1>1. PICK g : Sums(g, f, S)
  BY SumsExist
<1>2. PICK h : Sums(h, e, S)
  BY SumsExist
<1>3. g = h
  BY <1>1, <1>2, SumsUnique
<1> QED BY <1>1, <1>2, <1>3, SumOverIs

\* One more member adds its value.
LEMMA SumRemove ==
  ASSUME NEW S, IsFiniteSet(S), NEW f, \A x \in S : f[x] \in Int, NEW x \in S
  PROVE  SumOver(f, S) = f[x] + SumOver(f, S \ {x})
<1>1. PICK g : Sums(g, f, S)
  BY SumsExist
<1>2. g \in [SUBSET S -> Int]
  BY <1>1, SumsTyped
<1> DEFINE bad == {s \in SUBSET S : \E y \in s : g[s] # f[y] + g[s \ {y}]}
<1>3. bad \in SUBSET (SUBSET S)
  OBVIOUS
<1>4. ASSUME bad = {} PROVE SumOver(f, S) = f[x] + SumOver(f, S \ {x})
  <2>1. S \in SUBSET S /\ S \ {x} \in SUBSET S
    OBVIOUS
  <2>2. g[S] = f[x] + g[S \ {x}]
    BY <1>4, <2>1
  <2>3. SumOver(f, S) = g[S] /\ SumOver(f, S \ {x}) = g[S \ {x}]
    BY <1>1, <2>1, SumOverIs
  <2> QED BY <2>2, <2>3
<1>5. ASSUME NEW s \in SUBSET S, NEW y \in s, g[s] # f[y] + g[s \ {y}],
             \A t \in SUBSET s : t # s => \A r \in t : g[t] = f[r] + g[t \ {r}]
      PROVE  FALSE
  <2> DEFINE z == First(s)
  <2>1. z \in s
    BY DEF First
  <2>2. g[s] = f[z] + g[s \ {z}]
    <3>1. s # {}
      OBVIOUS
    <3> QED BY <3>1, <1>1, SumsAt
  <2> HIDE DEF z
  <2>3. y # z
    BY <1>5, <2>2
  <2>4. g[s \ {z}] = f[y] + g[(s \ {z}) \ {y}]
    <3>1. s \ {z} \in SUBSET s /\ s \ {z} # s /\ y \in s \ {z}
      BY <2>1, <2>3
    <3> QED BY <3>1, <1>5
  <2>5. g[s \ {y}] = f[z] + g[(s \ {y}) \ {z}]
    <3>1. s \ {y} \in SUBSET s /\ s \ {y} # s /\ z \in s \ {y}
      BY <2>1, <2>3
    <3> QED BY <3>1, <1>5
  <2>6. (s \ {z}) \ {y} = (s \ {y}) \ {z}
    OBVIOUS
  <2>7. f[y] \in Int /\ f[z] \in Int /\ g[(s \ {y}) \ {z}] \in Int
    <3>1. y \in S /\ z \in S /\ (s \ {y}) \ {z} \in SUBSET S
      BY <2>1
    <3> QED BY <3>1, <1>2
  <2> DEFINE v == g[(s \ {y}) \ {z}]
             a == f[y]
             b == f[z]
  <2>8. g[s] = b + (a + v) /\ g[s \ {y}] = b + v /\ a \in Int /\ b \in Int /\ v \in Int
    BY <2>2, <2>4, <2>5, <2>6, <2>7
  <2> HIDE DEF a, b, v
  <2>9. g[s] = a + g[s \ {y}]
    BY <2>8
  <2> QED BY <1>5, <2>9 DEF a
<1>6. ASSUME bad # {} PROVE FALSE
  <2> HIDE DEF bad
  <2>1. PICK s \in bad : \A t \in bad : t \subseteq s => t = s
    BY <1>3, <1>6, MinimalSet
  <2>2. s \in SUBSET S /\ \E y \in s : g[s] # f[y] + g[s \ {y}]
    BY <2>1 DEF bad
  <2>3. ASSUME NEW t \in SUBSET s, t # s PROVE \A r \in t : g[t] = f[r] + g[t \ {r}]
    <3>1. t \in SUBSET S /\ t \notin bad
      BY <2>1, <2>2, <2>3
    <3> QED BY <3>1 DEF bad
  <2> QED BY <1>5, <2>2, <2>3
<1> QED BY <1>4, <1>6

\* One more element adds its value.
LEMMA SumAdd ==
  ASSUME NEW S, IsFiniteSet(S), NEW f, NEW x, x \notin S,
         \A y \in S : f[y] \in Int, f[x] \in Int
  PROVE  SumOver(f, S \cup {x}) = SumOver(f, S) + f[x]
<1>1. IsFiniteSet(S \cup {x})
  BY FS_AddElement
<1>0. \A y \in S \cup {x} : f[y] \in Int
  OBVIOUS
<1>2. (S \cup {x}) \ {x} = S
  OBVIOUS
<1>3. SumOver(f, S \cup {x}) = f[x] + SumOver(f, S)
  BY <1>0, <1>1, <1>2, SumRemove
<1>4. SumOver(f, S) \in Int
  BY SumType
<1> QED BY <1>3, <1>4

\* Numbers that are all 0 add up to 0.
LEMMA SumZero ==
  ASSUME NEW S, IsFiniteSet(S), NEW f, \A x \in S : f[x] = 0
  PROVE  SumOver(f, S) = 0
<1> DEFINE F == {T \in SUBSET S : SumOver(f, T) = 0}
<1>1. F \in SUBSET (SUBSET S) /\ {} \in F
  BY SumEmpty
<1>2. ASSUME NEW T \in F, NEW x \in S \ T PROVE T \cup {x} \in F
  <2>0. T \in SUBSET S /\ SumOver(f, T) = 0 /\ f[x] = 0 /\ x \notin T
    OBVIOUS
  <2> HIDE DEF F
  <2>1. IsFiniteSet(T)
    BY <2>0, FS_Subset
  <2>2. (\A y \in T : f[y] \in Int) /\ f[x] \in Int
    BY <2>0
  <2>3. SumOver(f, T \cup {x}) = SumOver(f, T) + f[x]
    BY <2>0, <2>1, <2>2, SumAdd
  <2>4. SumOver(f, T \cup {x}) = 0
    BY <2>0, <2>3
  <2> QED BY <2>0, <2>4 DEF F
<1> HIDE DEF F
<1>3. S \in F
  BY <1>1, <1>2, SetInduction
<1> QED BY <1>3 DEF F

\* The sum over two sets without common members is the sum of the sums.
LEMMA SumUnion ==
  ASSUME NEW S, IsFiniteSet(S), NEW R, IsFiniteSet(R), S \cap R = {},
         NEW f, \A x \in S \cup R : f[x] \in Int
  PROVE  SumOver(f, S \cup R) = SumOver(f, S) + SumOver(f, R)
<1> DEFINE F == {T \in SUBSET R : SumOver(f, S \cup T) = SumOver(f, S) + SumOver(f, T)}
<1>0. SumOver(f, S) \in Int
  BY SumType
<1>1. F \in SUBSET (SUBSET R) /\ {} \in F
  <2>1. S \cup {} = S
    OBVIOUS
  <2>2. SumOver(f, S \cup {}) = SumOver(f, S) + SumOver(f, {})
    BY <1>0, <2>1, SumEmpty
  <2> QED BY <2>2
<1>2. ASSUME NEW T \in F, NEW x \in R \ T PROVE T \cup {x} \in F
  <2>1. IsFiniteSet(T) /\ IsFiniteSet(S \cup T)
    <3>1. IsFiniteSet(T)
      BY FS_Subset
    <3> QED BY <3>1, FS_Union
  <2>2. /\ \A y \in T : f[y] \in Int
        /\ \A y \in S \cup T : f[y] \in Int
        /\ x \notin S \cup T /\ f[x] \in Int
    OBVIOUS
  <2>3. SumOver(f, T \cup {x}) = SumOver(f, T) + f[x]
    BY <2>1, <2>2, SumAdd
  <2>4. SumOver(f, (S \cup T) \cup {x}) = SumOver(f, S \cup T) + f[x]
    BY <2>1, <2>2, SumAdd
  <2>5. SumOver(f, T) \in Int
    BY <2>1, <2>2, SumType
  <2>6. SumOver(f, S \cup T) = SumOver(f, S) + SumOver(f, T)
    OBVIOUS
  <2>7. (S \cup T) \cup {x} = S \cup (T \cup {x})
    OBVIOUS
  <2>8. SumOver(f, S \cup (T \cup {x})) = SumOver(f, S) + SumOver(f, T \cup {x})
    <3> DEFINE a == SumOver(f, S)
               b == SumOver(f, T)
               c == f[x]
    <3>1. a \in Int /\ b \in Int /\ c \in Int
      BY <1>0, <2>2, <2>5
    <3>2. SumOver(f, S \cup (T \cup {x})) = (a + b) + c /\ SumOver(f, T \cup {x}) = b + c
      BY <2>3, <2>4, <2>6, <2>7
    <3> HIDE DEF a, b, c
    <3>3. SumOver(f, S \cup (T \cup {x})) = a + SumOver(f, T \cup {x})
      BY <3>1, <3>2
    <3> QED BY <3>3 DEF a
  <2>9. T \cup {x} \in SUBSET R
    OBVIOUS
  <2> QED BY <2>8, <2>9
<1> HIDE DEF F
<1>3. R \in F
  BY <1>1, <1>2, SetInduction
<1> QED BY <1>3 DEF F

\* The values of a function on a part of its domain.
Values(f, S) == {f[x] : x \in S}

\* The order and the names of the terms do not matter: e has at g[x] what f has at x.
LEMMA SumReindexed ==
  ASSUME NEW S, IsFiniteSet(S), NEW f, NEW e, NEW g,
         \A x \in S : f[x] \in Int /\ e[g[x]] = f[x],
         \A x, y \in S : g[x] = g[y] => x = y
  PROVE  SumOver(e, Values(g, S)) = SumOver(f, S)
<1> DEFINE Image(T) == {g[x] : x \in T}
           F == {T \in SUBSET S : IsFiniteSet(Image(T)) /\ SumOver(e, Image(T)) = SumOver(f, T)}
<1>1. F \in SUBSET (SUBSET S) /\ {} \in F
  <2>1. Image({}) = {}
    OBVIOUS
  <2> QED BY <2>1, SumEmpty, FS_EmptySet
<1>2. ASSUME NEW T \in F, NEW x \in S \ T PROVE T \cup {x} \in F
  <2>0. /\ T \in SUBSET S /\ IsFiniteSet(Image(T)) /\ SumOver(e, Image(T)) = SumOver(f, T)
        /\ x \in S /\ x \notin T
    OBVIOUS
  <2> HIDE DEF F
  <2>1. Image(T \cup {x}) = Image(T) \cup {g[x]} /\ g[x] \notin Image(T)
    BY <2>0
  <2>2. IsFiniteSet(T) /\ IsFiniteSet(Image(T) \cup {g[x]})
    BY <2>0, FS_Subset, FS_AddElement
  <2>3. (\A y \in T : f[y] \in Int) /\ f[x] \in Int /\ e[g[x]] = f[x]
    BY <2>0
  <2>4. \A y \in Image(T) : e[y] \in Int
    BY <2>0
  <2> HIDE DEF Image
  <2>5. SumOver(f, T \cup {x}) = SumOver(f, T) + f[x]
    BY <2>0, <2>2, <2>3, SumAdd
  <2>6. SumOver(e, Image(T) \cup {g[x]}) = SumOver(e, Image(T)) + e[g[x]]
    <3> DEFINE im == Image(T)
               z == g[x]
    <3>1. IsFiniteSet(im) /\ z \notin im /\ (\A y \in im : e[y] \in Int) /\ e[z] \in Int
      BY <2>0, <2>1, <2>3, <2>4
    <3> HIDE DEF im, z
    <3>2. SumOver(e, im \cup {z}) = SumOver(e, im) + e[z]
      BY <3>1, SumAdd
    <3> QED BY <3>2 DEF im, z
  <2>7. SumOver(e, Image(T \cup {x})) = SumOver(f, T \cup {x})
    BY <2>0, <2>1, <2>3, <2>5, <2>6
  <2>8. T \cup {x} \in SUBSET S /\ IsFiniteSet(Image(T \cup {x}))
    BY <2>0, <2>1, <2>2
  <2> QED BY <2>7, <2>8 DEF F
<1> HIDE DEF F
<1>3. S \in F
  BY <1>1, <1>2, SetInduction
<1> QED BY <1>3 DEF F, Values

\* Changing one value changes the sum by as much.
LEMMA SumExcept ==
  ASSUME NEW S, IsFiniteSet(S), NEW f, \A x \in S : f[x] \in Int, NEW z \in S,
         NEW e, \A x \in S : x # z => e[x] = f[x], e[z] \in Int
  PROVE  SumOver(e, S) = SumOver(f, S) + e[z] - f[z]
<1>1. IsFiniteSet(S \ {z}) /\ (\A x \in S \ {z} : e[x] = f[x]) /\ (\A x \in S : e[x] \in Int)
  BY FS_RemoveElement
<1>2. SumOver(e, S \ {z}) = SumOver(f, S \ {z})
  BY <1>1, SumSame
<1>3. SumOver(f, S) = f[z] + SumOver(f, S \ {z})
  BY SumRemove
<1>4. SumOver(e, S) = e[z] + SumOver(e, S \ {z})
  BY <1>1, SumRemove
<1>5. SumOver(f, S \ {z}) \in Int
  BY <1>1, SumType
<1> QED BY <1>2, <1>3, <1>4, <1>5

\* A sum of differences: when part[k] is what prefix gains at k, the parts below n add up
\* to prefix[n].
LEMMA Telescope ==
  ASSUME NEW prefix, NEW part, NEW n \in Nat, prefix[0] = 0,
         \A k \in 0 .. n - 1 : part[k] \in Int /\ prefix[k + 1] = prefix[k] + part[k]
  PROVE  SumOver(part, 0 .. n - 1) = prefix[n]
<1> DEFINE P == {k \in Nat : k <= n => prefix[k] \in Int /\ SumOver(part, 0 .. k - 1) = prefix[k]}
<1>1. 0 \in P
  <2>1. 0 .. 0 - 1 = {}
    OBVIOUS
  <2> QED BY <2>1, SumEmpty
<1>2. ASSUME NEW k \in P PROVE k + 1 \in P
  <2> SUFFICES ASSUME k + 1 <= n
               PROVE  prefix[k + 1] \in Int /\ SumOver(part, 0 .. (k + 1) - 1) = prefix[k + 1]
    OBVIOUS
  <2>1. k \in 0 .. n - 1 /\ prefix[k] \in Int /\ SumOver(part, 0 .. k - 1) = prefix[k]
    OBVIOUS
  <2>2. part[k] \in Int /\ prefix[k + 1] = prefix[k] + part[k]
    BY <2>1
  <2>3. /\ 0 .. (k + 1) - 1 = (0 .. k - 1) \cup {k} /\ k \notin 0 .. k - 1
        /\ \A j \in 0 .. k - 1 : part[j] \in Int
    BY <2>1
  <2>4. IsFiniteSet(0 .. k - 1)
    BY FS_Interval
  <2> HIDE DEF P
  <2>5. SumOver(part, (0 .. k - 1) \cup {k}) = SumOver(part, 0 .. k - 1) + part[k]
    <3> DEFINE below == 0 .. k - 1
    <3>1. IsFiniteSet(below) /\ k \notin below /\ (\A j \in below : part[j] \in Int) /\ part[k] \in Int
      BY <2>2, <2>3, <2>4
    <3> HIDE DEF below
    <3>2. SumOver(part, below \cup {k}) = SumOver(part, below) + part[k]
      BY <3>1, SumAdd
    <3> QED BY <3>2 DEF below
  <2>6. SumOver(part, 0 .. (k + 1) - 1) = prefix[k] + part[k]
    BY <2>1, <2>3, <2>5
  <2> QED BY <2>1, <2>2, <2>6
<1>3. P \in SUBSET Nat
  OBVIOUS
<1> HIDE DEF P
<1>4. n \in P
  BY <1>1, <1>2, <1>3, NatInductionSet
<1> QED BY <1>4 DEF P

\* A power of two is a natural number: that of the subsets of a set.
LEMMA PowType ==
  ASSUME NEW n \in Nat
  PROVE  2 ^ n \in Nat /\ 2 ^ n = Cardinality(SUBSET (1 .. n))
<1>1. IsFiniteSet(1 .. n) /\ Cardinality(1 .. n) = n
  BY FS_Interval
<1>2. IsFiniteSet(SUBSET (1 .. n)) /\ Cardinality(SUBSET (1 .. n)) = 2 ^ n
  BY <1>1, FS_SUBSET
<1> QED BY <1>2, FS_CardinalityType

\* The next power is twice as large.
LEMMA PowNext ==
  ASSUME NEW n \in Nat
  PROVE  2 ^ (n + 1) = 2 * 2 ^ n
<1> DEFINE A == SUBSET (1 .. n)
           B == {T \in SUBSET (1 .. n + 1) : n + 1 \in T}
           f == [T \in A |-> T \cup {n + 1}]
<1>1. IsFiniteSet(1 .. n)
  BY FS_Interval
<1>2. IsFiniteSet(A)
  BY <1>1, FS_SUBSET
<1>0. 1 .. n + 1 = (1 .. n) \cup {n + 1} /\ n + 1 \notin 1 .. n
  OBVIOUS
<1>3. f \in Bijection(A, B)
  <2>1. f \in [A -> B]
    BY <1>0
  <2>2. ASSUME NEW T \in A, NEW U \in A, f[T] = f[U] PROVE T = U
    <3>1. n + 1 \notin T /\ n + 1 \notin U /\ T \cup {n + 1} = U \cup {n + 1}
      BY <1>0, <2>2
    <3> QED BY <3>1
  <2>3. ASSUME NEW U \in B PROVE \E T \in A : f[T] = U
    <3>1. U \ {n + 1} \in A /\ (U \ {n + 1}) \cup {n + 1} = U
      BY <1>0
    <3> QED BY <3>1
  <2> HIDE DEF f, A, B
  <2>4. f \in Injection(A, B)
    BY <2>1, <2>2 DEF Injection, IsInjective
  <2>5. f \in Surjection(A, B)
    BY <2>1, <2>3 DEF Surjection
  <2> QED BY <2>4, <2>5 DEF Bijection
<1> HIDE DEF f
<1>4. IsFiniteSet(B) /\ Cardinality(B) = Cardinality(A)
  <2>1. ExistsBijection(A, B)
    BY <1>3 DEF ExistsBijection
  <2> HIDE DEF A, B
  <2> QED BY <1>2, <2>1, FS_Bijection
<1>5. SUBSET (1 .. n + 1) = A \cup B /\ A \cap B = {}
  <2>1. A \cap B = {}
    BY <1>0
  <2>2. ASSUME NEW T \in SUBSET (1 .. n + 1) PROVE T \in A \cup B
    <3>1. n + 1 \notin T => T \in SUBSET (1 .. n)
      BY <1>0
    <3> QED BY <3>1
  <2>3. A \subseteq SUBSET (1 .. n + 1)
    BY <1>0
  <2> QED BY <2>1, <2>2, <2>3
<1> HIDE DEF A, B
<1>6. Cardinality(A \cup B) = Cardinality(A) + Cardinality(B) - Cardinality({})
  BY <1>2, <1>4, <1>5, FS_Union
<1>7. Cardinality({}) = 0 /\ Cardinality(A) \in Nat
  BY <1>2, FS_EmptySet, FS_CardinalityType
<1>8. Cardinality(A) = 2 ^ n /\ 2 ^ n \in Nat
  BY PowType DEF A
<1>9. n + 1 \in Nat
  OBVIOUS
<1>10. Cardinality(SUBSET (1 .. n + 1)) = 2 ^ (n + 1)
  <2> DEFINE k == n + 1
  <2>1. k \in Nat
    OBVIOUS
  <2> HIDE DEF k
  <2>2. Cardinality(SUBSET (1 .. k)) = 2 ^ k
    BY <2>1, PowType
  <2> QED BY <2>2 DEF k
<1> DEFINE p == 2 ^ n
           q == 2 ^ (n + 1)
<1>11. Cardinality(A) = p /\ p \in Nat /\ Cardinality(A \cup B) = q
  BY <1>5, <1>8, <1>10
<1> HIDE DEF p, q
<1>12. q = 2 * p
  BY <1>4, <1>6, <1>7, <1>11
<1> QED BY <1>12 DEF p, q

\* A sum of natural numbers is one.
LEMMA SumNat ==
  ASSUME NEW S, IsFiniteSet(S), NEW f, \A x \in S : f[x] \in Nat
  PROVE  SumOver(f, S) \in Nat
<1> DEFINE F == {T \in SUBSET S : SumOver(f, T) \in Nat}
<1>1. F \in SUBSET (SUBSET S) /\ {} \in F
  BY SumEmpty
<1>2. ASSUME NEW T \in F, NEW x \in S \ T PROVE T \cup {x} \in F
  <2>1. T \in SUBSET S /\ SumOver(f, T) \in Nat /\ x \notin T /\ x \in S
    OBVIOUS
  <2>2. IsFiniteSet(T)
    BY <2>1, FS_Subset
  <2>3. (\A y \in T : f[y] \in Int) /\ f[x] \in Nat /\ f[x] \in Int
    BY <2>1
  <2>4. SumOver(f, T \cup {x}) = SumOver(f, T) + f[x]
    BY <2>1, <2>2, <2>3, SumAdd
  <2> QED BY <2>1, <2>3, <2>4
<1> HIDE DEF F
<1>3. S \in F
  BY <1>1, <1>2, SetInduction
<1> QED BY <1>3 DEF F

\* A sum of natural numbers is no less than one of them and than the sum over a part.
LEMMA SumMonotone ==
  ASSUME NEW S, IsFiniteSet(S), NEW f, \A x \in S : f[x] \in Nat, NEW T \in SUBSET S
  PROVE  /\ SumOver(f, T) \in Nat /\ SumOver(f, S) \in Nat
         /\ SumOver(f, T) <= SumOver(f, S)
         /\ \A x \in T : f[x] <= SumOver(f, T)
<1>1. IsFiniteSet(T) /\ IsFiniteSet(S \ T) /\ T \cup (S \ T) = S /\ T \cap (S \ T) = {}
  BY FS_Subset
<1>2. SumOver(f, T) \in Nat /\ SumOver(f, S \ T) \in Nat /\ SumOver(f, S) \in Nat
  BY <1>1, SumNat
<1>3. SumOver(f, T \cup (S \ T)) = SumOver(f, T) + SumOver(f, S \ T)
  BY <1>1, SumUnion
<1>4. ASSUME NEW x \in T PROVE f[x] <= SumOver(f, T)
  <2>1. IsFiniteSet(T \ {x}) /\ (\A y \in T : f[y] \in Int) /\ \A y \in T \ {x} : f[y] \in Nat
    BY <1>1, FS_RemoveElement
  <2>2. SumOver(f, T \ {x}) \in Nat
    BY <2>1, SumNat
  <2>3. SumOver(f, T) = f[x] + SumOver(f, T \ {x})
    BY <1>1, <2>1, SumRemove
  <2> QED BY <1>2, <2>2, <2>3
<1> QED BY <1>1, <1>2, <1>3, <1>4

\* The zeroth power counts the empty set.
LEMMA PowZero == 2 ^ 0 = 1
<1>0. \A n \in Nat : 2 ^ n = Cardinality(SUBSET (1 .. n))
  BY PowType
<1> DEFINE z == 0
<1>z. z \in Nat /\ 1 .. z = {}
  OBVIOUS
<1> HIDE DEF z
<1>1. 1 .. z = {} /\ 2 ^ z = Cardinality(SUBSET (1 .. z))
  BY <1>0, <1>z
<1>2. SUBSET {} = {{}}
  OBVIOUS
<1>3. Cardinality({{}}) = 1
  BY FS_Singleton
<1>4. 2 ^ z = 1
  BY <1>1, <1>2, <1>3
<1> QED BY <1>4 DEF z

\* A larger exponent gives a larger power.
LEMMA PowMonotone ==
  ASSUME NEW i \in Nat, NEW j \in Nat, i <= j
  PROVE  2 ^ i <= 2 ^ j
<1> DEFINE P == {d \in Nat : 2 ^ i <= 2 ^ (i + d)}
<1>1. 0 \in P
  <2>1. 2 ^ i \in Nat
    BY PowType
  <2>2. i + 0 = i
    OBVIOUS
  <2> QED BY <2>1, <2>2
<1>2. ASSUME NEW d \in P PROVE d + 1 \in P
  <2> DEFINE e == i + d
             p == 2 ^ e
             q == 2 ^ (e + 1)
  <2>1. e \in Nat /\ i + (d + 1) = e + 1 /\ 2 ^ i <= p /\ d + 1 \in Nat
    OBVIOUS
  <2> HIDE DEF e, P
  <2>2. p \in Nat /\ q = 2 * p /\ 2 ^ i \in Nat
    BY <2>1, PowType, PowNext
  <2> HIDE DEF p, q
  <2>3. 2 ^ i <= q
    BY <2>1, <2>2
  <2>4. 2 ^ i <= 2 ^ (i + (d + 1))
    BY <2>1, <2>3 DEF q
  <2> QED BY <2>1, <2>4 DEF P
<1>3. P \in SUBSET Nat
  OBVIOUS
<1> HIDE DEF P
<1>4. P = Nat
  BY <1>1, <1>2, <1>3, NatInductionSet
<1>5. j - i \in P /\ i + (j - i) = j
  BY <1>4
<1> QED BY <1>5 DEF P

\* Powers of two with a positive exponent are at least 2.
LEMMA PowPositive ==
  ASSUME NEW n \in Nat \ {0}
  PROVE  2 ^ n \in Nat /\ 2 ^ n >= 2
<1> DEFINE z == 0
           p == n - 1
           half == 2 ^ p
<1>1. z \in Nat /\ p \in Nat /\ z <= p /\ p + 1 = n
  OBVIOUS
<1>2. 2 ^ z = 1
  BY PowZero
<1> HIDE DEF z, p
<1>3. 2 ^ z <= half
  BY <1>1, PowMonotone
<1>4. 2 ^ (p + 1) = 2 * half
  BY <1>1, PowNext
<1>5. half \in Nat
  BY <1>1, PowType
<1> HIDE DEF half
<1>6. 2 * half >= 2 /\ 2 * half \in Nat
  BY <1>2, <1>3, <1>5
<1> QED BY <1>1, <1>4, <1>6

\* The first n powers of two add up to the next one less 1.
LEMMA PowSum ==
  ASSUME NEW n \in Nat, NEW f, \A k \in 0 .. n - 1 : f[k] = 2 ^ k
  PROVE  SumOver(f, 0 .. n - 1) = 2 ^ n - 1
<1> DEFINE prefix == [k \in 0 .. n |-> 2 ^ k - 1]
<1>1. prefix[0] = 0
  BY PowType
<1>2. ASSUME NEW k \in 0 .. n - 1
      PROVE  f[k] \in Int /\ prefix[k + 1] = prefix[k] + f[k]
  <2> DEFINE p == 2 ^ k
             q == 2 ^ (k + 1)
  <2>1. k \in Nat /\ k \in 0 .. n /\ k + 1 \in 0 .. n
    OBVIOUS
  <2>2. p \in Nat /\ q = 2 * p /\ f[k] = p
    BY <2>1, PowType, PowNext
  <2>3. prefix[k] = p - 1 /\ prefix[k + 1] = q - 1
    BY <2>1
  <2> HIDE DEF p, q, prefix
  <2> QED BY <2>2, <2>3
<1>3. prefix[n] = 2 ^ n - 1
  OBVIOUS
<1> HIDE DEF prefix
<1> QED BY <1>1, <1>2, <1>3, Telescope

\* A sum of ones counts the members.
LEMMA SumOfOnes ==
  ASSUME NEW S, IsFiniteSet(S), NEW f, \A x \in S : f[x] = 1
  PROVE  SumOver(f, S) = Cardinality(S)
<1> DEFINE F == {T \in SUBSET S : SumOver(f, T) = Cardinality(T)}
<1>1. F \in SUBSET (SUBSET S) /\ {} \in F
  BY SumEmpty, FS_EmptySet
<1>2. ASSUME NEW T \in F, NEW x \in S \ T PROVE T \cup {x} \in F
  <2>0. T \in SUBSET S /\ SumOver(f, T) = Cardinality(T) /\ f[x] = 1 /\ x \notin T
    OBVIOUS
  <2> HIDE DEF F
  <2>1. IsFiniteSet(T)
    BY <2>0, FS_Subset
  <2>2. (\A y \in T : f[y] \in Int) /\ f[x] \in Int
    BY <2>0
  <2>3. SumOver(f, T \cup {x}) = SumOver(f, T) + f[x]
    BY <2>0, <2>1, <2>2, SumAdd
  <2>4. Cardinality(T \cup {x}) = Cardinality(T) + 1
    BY <2>0, <2>1, FS_AddElement
  <2>5. SumOver(f, T \cup {x}) = Cardinality(T \cup {x})
    BY <2>0, <2>3, <2>4
  <2>6. T \cup {x} \in SUBSET S
    BY <2>0
  <2> QED BY <2>5, <2>6 DEF F
<1> HIDE DEF F
<1>3. S \in F
  BY <1>1, <1>2, SetInduction
<1> QED BY <1>3 DEF F

-----------------------------------------------------------------------------
(* Extremes.                                                               *)

\* The values of a function on a finite set are finitely many.
LEMMA FiniteImage ==
  ASSUME NEW S, IsFiniteSet(S), NEW f
  PROVE  IsFiniteSet({f[x] : x \in S})
<1> DEFINE T == {f[x] : x \in S}
           g == [x \in S |-> f[x]]
<1>1. g \in [S -> T] /\ \A y \in T : \E x \in S : g[x] = y
  OBVIOUS
<1> HIDE DEF g, T
<1>2. g \in Surjection(S, T)
  BY <1>1, Fun_IsSurj
<1>3. IsFiniteSet(T)
  BY <1>2, FS_Surjection
<1> QED BY <1>3 DEF T

\* A least member is the minimum, a greatest one the maximum.
LEMMA MinIs ==
  ASSUME NEW S \in SUBSET Int, NEW m \in S, \A y \in S : m <= y
  PROVE  Min(S) = m
<1>1. \A x \in S : (\A y \in S : x <= y) => x = m
  OBVIOUS
<1> QED BY <1>1 DEF Min

\* A member that no other exceeds is the maximum.
LEMMA MaxIs ==
  ASSUME NEW S \in SUBSET Int, NEW m \in S, \A y \in S : m >= y
  PROVE  Max(S) = m
<1>1. \A x \in S : (\A y \in S : x >= y) => x = m
  OBVIOUS
<1> QED BY <1>1 DEF Max

\* A finite set of integers that is not empty has a minimum and a maximum.
LEMMA Extremes ==
  ASSUME NEW S \in SUBSET Int, IsFiniteSet(S), S # {}
  PROVE  /\ Min(S) \in S /\ \A y \in S : Min(S) <= y
         /\ Max(S) \in S /\ \A y \in S : Max(S) >= y
<1> DEFINE Least(T) == \E m \in T : \A y \in T : m <= y
           Greatest(T) == \E m \in T : \A y \in T : m >= y
           F == {T \in SUBSET S : T = {} \/ (Least(T) /\ Greatest(T))}
<1>1. F \in SUBSET (SUBSET S) /\ {} \in F
  OBVIOUS
<1>2. ASSUME NEW T \in F, NEW x \in S \ T PROVE T \cup {x} \in F
  <2>1. CASE T = {}
    BY <2>1
  <2>2. CASE Least(T) /\ Greatest(T)
    <3>1. PICK m \in T : \A y \in T : m <= y
      BY <2>2
    <3>2. PICK n \in T : \A y \in T : n >= y
      BY <2>2
    <3>3. Least(T \cup {x})
      <4>1. CASE x < m
        BY <3>1, <4>1
      <4>2. CASE ~ (x < m)
        BY <3>1, <4>2
      <4> QED BY <4>1, <4>2
    <3>4. Greatest(T \cup {x})
      <4>1. CASE x > n
        BY <3>2, <4>1
      <4>2. CASE ~ (x > n)
        BY <3>2, <4>2
      <4> QED BY <4>1, <4>2
    <3> QED BY <3>3, <3>4
  <2> QED BY <2>1, <2>2
<1> HIDE DEF F
<1>3. S \in F
  BY <1>1, <1>2, SetInduction
<1>4. Least(S) /\ Greatest(S)
  BY <1>3 DEF F
<1>5. PICK m \in S : \A y \in S : m <= y
  BY <1>4
<1>6. PICK n \in S : \A y \in S : n >= y
  BY <1>4
<1>7. Min(S) = m /\ Max(S) = n
  BY <1>5, <1>6, MinIs, MaxIs
<1> QED BY <1>5, <1>6, <1>7
\* One more member changes an extreme only when it lies beyond it.
LEMMA MinMore ==
  ASSUME NEW S \in SUBSET Int, IsFiniteSet(S), S # {}, NEW p \in Int
  PROVE  Min(S \cup {p}) = IF p < Min(S) THEN p ELSE Min(S)
<1>1. Min(S) \in S /\ Min(S) \in Int /\ \A y \in S : Min(S) <= y
  BY Extremes
<1> DEFINE T == S \cup {p}
           m == IF p < Min(S) THEN p ELSE Min(S)
<1>2. T \in SUBSET Int /\ m \in T /\ m \in Int /\ m <= p /\ m <= Min(S)
  BY <1>1
<1>3. \A y \in T : m <= y
  <2> HIDE DEF m
  <2> QED BY <1>1, <1>2
<1> HIDE DEF T, m
<1>4. Min(T) = m
  BY <1>2, <1>3, MinIs
<1> QED BY <1>4 DEF T, m

\* The maximum with one more number.
LEMMA MaxMore ==
  ASSUME NEW S \in SUBSET Int, IsFiniteSet(S), S # {}, NEW p \in Int
  PROVE  Max(S \cup {p}) = IF p > Max(S) THEN p ELSE Max(S)
<1>1. Max(S) \in S /\ Max(S) \in Int /\ \A y \in S : Max(S) >= y
  BY Extremes
<1> DEFINE T == S \cup {p}
           m == IF p > Max(S) THEN p ELSE Max(S)
<1>2. T \in SUBSET Int /\ m \in T /\ m \in Int /\ m >= p /\ m >= Max(S)
  BY <1>1
<1>3. \A y \in T : m >= y
  <2> HIDE DEF m
  <2> QED BY <1>1, <1>2
<1> HIDE DEF T, m
<1>4. Max(T) = m
  BY <1>2, <1>3, MaxIs
<1> QED BY <1>4 DEF T, m

\* C divides W among the members of U, and low (high) holds the extreme of each part.
Divides(C, U, W) == W = UNION Values(C, U)
Minima(low, U, C, f, top) == \A t \in U : low[t] = Min({top} \cup Values(f, C[t]))
Maxima(high, U, C, f, bottom) == \A t \in U : high[t] = Max({bottom} \cup Values(f, C[t]))

\* The minimum of the minima of the parts of a set, a number besides that is no less than
\* any of its members, is the minimum of the set.
LEMMA MinOfParts ==
  ASSUME NEW U, NEW C, NEW W, Divides(C, U, W), IsFiniteSet(W), W # {},
         NEW f, NEW top \in Int, \A i \in W : f[i] \in Int /\ f[i] <= top,
         NEW low, Minima(low, U, C, f, top)
  PROVE  Min({top} \cup Values(low, U)) = Min(Values(f, W))
<1> DEFINE m == Min(Values(f, W))
<1>1. Values(f, W) \in SUBSET Int /\ IsFiniteSet(Values(f, W)) /\ Values(f, W) # {}
  BY FiniteImage DEF Values
<1>2. m \in Values(f, W) /\ m \in Int /\ \A y \in Values(f, W) : m <= y
  BY <1>1, Extremes
<1>3. PICK x \in W : f[x] = m
  BY <1>2 DEF Values
<1>4. m <= top
  BY <1>3
<1>5. ASSUME NEW t \in U
      PROVE  low[t] \in Int /\ m <= low[t] /\ (x \in C[t] => low[t] = m)
  <2> DEFINE part == {top} \cup Values(f, C[t])
  <2>1. C[t] \subseteq W
    BY DEF Divides, Values
  <2>2. \A i \in C[t] : f[i] \in Int /\ m <= f[i]
    BY <1>2, <2>1 DEF Values
  <2>3. part \in SUBSET Int /\ \A y \in part : m <= y
    BY <1>4, <2>2 DEF Values
  <2>4. IsFiniteSet(part) /\ part # {}
    <3>1. IsFiniteSet(C[t])
      BY <2>1, FS_Subset
    <3>2. IsFiniteSet(Values(f, C[t]))
      BY <3>1, FiniteImage DEF Values
    <3>3. part = Values(f, C[t]) \cup {top}
      OBVIOUS
    <3> QED BY <3>2, <3>3, FS_AddElement
  <2>5. low[t] = Min(part)
    BY DEF Minima
  <2>6. x \in C[t] => m \in part
    BY <1>3 DEF Values
  <2> HIDE DEF part, m
  <2>7. Min(part) \in part
    BY <2>3, <2>4, Extremes
  <2>8. m \in part => Min(part) = m
    BY <2>3, MinIs
  <2> QED BY <2>3, <2>5, <2>6, <2>7, <2>8 DEF part
<1> DEFINE all == {top} \cup Values(low, U)
<1>6. all \in SUBSET Int /\ \A y \in all : m <= y
  BY <1>4, <1>5 DEF Values
<1>7. m \in all
  <2>1. PICK t \in U : x \in C[t]
    BY <1>3 DEF Divides, Values
  <2>2. low[t] = m
    BY <1>5, <2>1
  <2> QED BY <2>2 DEF Values
<1> HIDE DEF all, m
<1>8. Min(all) = m
  BY <1>6, <1>7, MinIs
<1> QED BY <1>8 DEF all, m

\* The maximum of the maxima of the parts of a set, a number besides that is no more
\* than any of its members, is the maximum of the set.
LEMMA MaxOfParts ==
  ASSUME NEW U, NEW C, NEW W, Divides(C, U, W), IsFiniteSet(W), W # {},
         NEW f, NEW bottom \in Int, \A i \in W : f[i] \in Int /\ f[i] >= bottom,
         NEW high, Maxima(high, U, C, f, bottom)
  PROVE  Max({bottom} \cup Values(high, U)) = Max(Values(f, W))
<1> DEFINE m == Max(Values(f, W))
<1>1. Values(f, W) \in SUBSET Int /\ IsFiniteSet(Values(f, W)) /\ Values(f, W) # {}
  BY FiniteImage DEF Values
<1>2. m \in Values(f, W) /\ m \in Int /\ \A y \in Values(f, W) : m >= y
  BY <1>1, Extremes
<1>3. PICK x \in W : f[x] = m
  BY <1>2 DEF Values
<1>4. m >= bottom
  BY <1>3
<1>5. ASSUME NEW t \in U
      PROVE  high[t] \in Int /\ m >= high[t] /\ (x \in C[t] => high[t] = m)
  <2> DEFINE part == {bottom} \cup Values(f, C[t])
  <2>1. C[t] \subseteq W
    BY DEF Divides, Values
  <2>2. \A i \in C[t] : f[i] \in Int /\ m >= f[i]
    BY <1>2, <2>1 DEF Values
  <2>3. part \in SUBSET Int /\ \A y \in part : m >= y
    BY <1>4, <2>2 DEF Values
  <2>4. IsFiniteSet(part) /\ part # {}
    <3>1. IsFiniteSet(C[t])
      BY <2>1, FS_Subset
    <3>2. IsFiniteSet(Values(f, C[t]))
      BY <3>1, FiniteImage DEF Values
    <3>3. part = Values(f, C[t]) \cup {bottom}
      OBVIOUS
    <3> QED BY <3>2, <3>3, FS_AddElement
  <2>5. high[t] = Max(part)
    BY DEF Maxima
  <2>6. x \in C[t] => m \in part
    BY <1>3 DEF Values
  <2> HIDE DEF part, m
  <2>7. Max(part) \in part
    BY <2>3, <2>4, Extremes
  <2>8. m \in part => Max(part) = m
    BY <2>3, MaxIs
  <2> QED BY <2>3, <2>5, <2>6, <2>7, <2>8 DEF part
<1> DEFINE all == {bottom} \cup Values(high, U)
<1>6. all \in SUBSET Int /\ \A y \in all : m >= y
  BY <1>4, <1>5 DEF Values
<1>7. m \in all
  <2>1. PICK t \in U : x \in C[t]
    BY <1>3 DEF Divides, Values
  <2>2. high[t] = m
    BY <1>5, <2>1
  <2> QED BY <2>2 DEF Values
<1> HIDE DEF all, m
<1>8. Max(all) = m
  BY <1>6, <1>7, MaxIs
<1> QED BY <1>8 DEF all, m
-----------------------------------------------------------------------------
(* Numbering: how many members of a set of naturals are below one.         *)

Smaller(T, j) == {i \in T : i < j}

\* The members of a finite set are numbered from 0, in their order, without gaps.
LEMMA Numbering ==
  ASSUME NEW T \in SUBSET Nat, IsFiniteSet(T)
  PROVE  /\ \A j \in Nat : IsFiniteSet(Smaller(T, j)) /\ Cardinality(Smaller(T, j)) \in Nat
         /\ \A j \in T : Cardinality(Smaller(T, j)) < Cardinality(T)
         /\ \A i, j \in T : i < j => Cardinality(Smaller(T, i)) < Cardinality(Smaller(T, j))
         /\ \A r \in Nat : r < Cardinality(T) => \E j \in T : Cardinality(Smaller(T, j)) = r
<1>0. \A i \in T : i \in Nat
  OBVIOUS
<1>1. ASSUME NEW j \in Nat
      PROVE  /\ IsFiniteSet(Smaller(T, j)) /\ Cardinality(Smaller(T, j)) \in Nat
             /\ Cardinality(Smaller(T, j)) <= Cardinality(T)
  <2>1. Smaller(T, j) \in SUBSET T
    BY DEF Smaller
  <2> QED BY <2>1, FS_Subset, FS_CardinalityType
<1>2. ASSUME NEW j \in Nat
      PROVE  Cardinality(Smaller(T, j + 1)) =
               IF j \in T THEN Cardinality(Smaller(T, j)) + 1 ELSE Cardinality(Smaller(T, j))
  <2>0. \A i \in T : i < j + 1 <=> i < j \/ i = j
    BY <1>0
  <2>1. j \in T => Smaller(T, j + 1) = Smaller(T, j) \cup {j}
    <3>1. ASSUME j \in T PROVE \A i : i \in Smaller(T, j + 1) <=> i \in Smaller(T, j) \cup {j}
      BY <2>0, <3>1, <1>0 DEF Smaller
    <3> QED BY <3>1
  <2>2. j \notin T => Smaller(T, j + 1) = Smaller(T, j)
    <3>1. ASSUME j \notin T PROVE \A i : i \in Smaller(T, j + 1) <=> i \in Smaller(T, j)
      BY <2>0, <3>1 DEF Smaller
    <3> QED BY <3>1
  <2>3. j \notin Smaller(T, j)
    BY DEF Smaller
  <2>4. Cardinality(Smaller(T, j) \cup {j}) = Cardinality(Smaller(T, j)) + 1
    BY <1>1, <2>3, FS_AddElement
  <2> QED BY <2>1, <2>2, <2>4
<1>3. ASSUME NEW i \in Nat, NEW j \in Nat, i <= j
      PROVE  Cardinality(Smaller(T, i)) <= Cardinality(Smaller(T, j))
  <2>1. Smaller(T, i) \in SUBSET Smaller(T, j)
    <3>1. \A k \in T : k < i => k < j
      BY <1>0, <1>3
    <3> QED BY <3>1 DEF Smaller
  <2>2. IsFiniteSet(Smaller(T, j))
    BY <1>1
  <2> QED BY <2>1, <2>2, FS_Subset
<1>4. ASSUME NEW i \in T, NEW j \in T, i < j
      PROVE  Cardinality(Smaller(T, i)) < Cardinality(Smaller(T, j))
  <2>1. i \in Nat /\ j \in Nat /\ i + 1 \in Nat /\ i + 1 <= j
    BY <1>4
  <2>2. Cardinality(Smaller(T, i + 1)) = Cardinality(Smaller(T, i)) + 1
    BY <1>2, <2>1
  <2>3. Cardinality(Smaller(T, i + 1)) <= Cardinality(Smaller(T, j))
    BY <1>3, <2>1
  <2>4. Cardinality(Smaller(T, i)) \in Nat /\ Cardinality(Smaller(T, j)) \in Nat
    BY <1>1, <2>1
  <2> QED BY <2>2, <2>3, <2>4
<1>5. ASSUME NEW j \in T
      PROVE  Cardinality(Smaller(T, j)) < Cardinality(T)
  <2>1. j \in Nat /\ j + 1 \in Nat
    OBVIOUS
  <2>2. Cardinality(Smaller(T, j + 1)) = Cardinality(Smaller(T, j)) + 1
    BY <1>2, <2>1
  <2>3. Cardinality(Smaller(T, j + 1)) <= Cardinality(T) /\ Cardinality(Smaller(T, j)) \in Nat
    BY <1>1, <2>1
  <2>4. Cardinality(T) \in Nat
    BY FS_CardinalityType
  <2> QED BY <2>2, <2>3, <2>4
<1>6. ASSUME NEW r \in Nat, r < Cardinality(T)
      PROVE  \E j \in T : Cardinality(Smaller(T, j)) = r
  <2> DEFINE P == {n \in Nat : r < Cardinality(Smaller(T, n)) =>
                               \E j \in T : Cardinality(Smaller(T, j)) = r}
  <2>1. 0 \in P
    <3>1. Smaller(T, 0) = {}
      <4>1. \A i \in T : ~(i < 0)
        BY <1>0
      <4> QED BY <4>1 DEF Smaller
    <3> QED BY <3>1, FS_EmptySet
  <2>2. ASSUME NEW n \in P PROVE n + 1 \in P
    <3>1. n \in Nat /\ Cardinality(Smaller(T, n)) \in Nat
      BY <1>1
    <3>2. CASE n \in T /\ r = Cardinality(Smaller(T, n))
      BY <3>1, <3>2
    <3>3. CASE ~(n \in T /\ r = Cardinality(Smaller(T, n)))
      <4>1. r < Cardinality(Smaller(T, n + 1)) => r < Cardinality(Smaller(T, n))
        BY <1>2, <3>1, <3>3
      <4> QED BY <3>1, <4>1
    <3> QED BY <3>2, <3>3
  <2> HIDE DEF P
  <2>3. P = Nat
    <3>1. P \in SUBSET Nat
      BY DEF P
    <3> QED BY <2>1, <2>2, <3>1, NatInductionSet
  <2>4. T # {}
    BY <1>6, FS_EmptySet
  <2>5. PICK m \in T : \A y \in T : m >= y
    <3>1. T \in SUBSET Int
      OBVIOUS
    <3> QED BY <2>4, <3>1, Extremes
  <2>6. Smaller(T, m + 1) = T /\ m + 1 \in Nat
    <3>1. m \in Nat /\ \A y \in T : y < m + 1
      BY <1>0, <2>5
    <3>2. \A i : i \in Smaller(T, m + 1) <=> i \in T
      BY <3>1 DEF Smaller
    <3>3. m + 1 \in Nat
      BY <3>1
    <3> QED BY <3>2, <3>3
  <2> QED BY <1>6, <2>3, <2>6 DEF P
<1> QED BY <1>1, <1>4, <1>5, <1>6


-----------------------------------------------------------------------------
(* Windows: a ring of w slots in which the members of a set of naturals,   *)
(* taken in their order, are written one after the other.                  *)

\* The slot of a member, the members that share a slot, and the w last members.
RingSlot(own, j, w) == Cardinality(Smaller(own, j)) % w
AtSlot(own, i, w) == {k \in own : RingSlot(own, k, w) = i}
Recent(own, w) == {j \in own : Cardinality(own) - Cardinality(Smaller(own, j)) <= w}

\* Every slot of g holds what the latest of its members wrote, or 0.
Wound(g, val, own, w) ==
  \A i \in 0 .. w - 1 :
    g[i] = IF AtSlot(own, i, w) = {} THEN 0 ELSE val[Max(AtSlot(own, i, w))]

\* The last members fill the slots, each its own, and no later member has the slot of one
\* of them.
LEMMA RecentInSlots ==
  ASSUME NEW own \in SUBSET Nat, IsFiniteSet(own), NEW w \in Nat \ {0}, Cardinality(own) >= w
  PROVE  /\ Recent(own, w) \in SUBSET own
         /\ \A j \in Recent(own, w) : \A k \in own : RingSlot(own, k, w) = RingSlot(own, j, w) => k <= j
         /\ \A i, j \in Recent(own, w) : RingSlot(own, i, w) = RingSlot(own, j, w) => i = j
         /\ {RingSlot(own, j, w) : j \in Recent(own, w)} = 0 .. w - 1
<1> DEFINE c == Cardinality(own)
           N(j) == Cardinality(Smaller(own, j))
           last == Recent(own, w)
           slot(j) == RingSlot(own, j, w)
<1>1. last = {j \in own : c - N(j) <= w}
  BY DEF Recent
<1>2. /\ c \in Nat /\ c >= w /\ w \in Nat \ {0}
      /\ \A j \in own : j \in Nat /\ N(j) \in Nat /\ N(j) < c
      /\ \A i, j \in own : i < j => N(i) < N(j)
      /\ \A r \in Nat : r < c => \E j \in own : N(j) = r
  BY Numbering, FS_CardinalityType
<1>3. \A j \in own : slot(j) = N(j) % w
  BY DEF RingSlot
<1> HIDE DEF c, N, last, slot
<1>4. ASSUME NEW j \in last, NEW k \in own, j < k
      PROVE  slot(k) # slot(j)
  <2>1. j \in own /\ c - N(j) <= w
    BY <1>1
  <2>2. N(j) \in Nat /\ N(k) \in Nat /\ N(j) < N(k) /\ N(k) - N(j) < w
    <3>1. N(j) < N(k) /\ N(k) < c
      BY <1>2, <1>4, <2>1
    <3> QED BY <1>2, <2>1, <3>1
  <2> DEFINE a == N(k)
             b == N(j)
  <2> HIDE DEF a, b
  <2>3. a % w # b % w
    <3>1. a \in Nat /\ b \in Nat /\ b < a /\ a - b < w
      BY <2>2 DEF a, b
    <3> QED BY <1>2, <3>1, DistinctRemainders
  <2> QED BY <1>3, <2>1, <2>3 DEF a, b
<1>5. ASSUME NEW s \in 0 .. w - 1
      PROVE  \E j \in last : slot(j) = s
  <2>1. PICK r \in Nat : r < c /\ c - r <= w /\ r % w = s
    BY <1>2, RecentRemainder
  <2>2. PICK j \in own : N(j) = r
    BY <1>2, <2>1
  <2>3. j \in last
    BY <1>1, <2>1, <2>2
  <2> QED BY <1>3, <2>1, <2>2, <2>3
<1>6. last \in SUBSET own
  BY <1>1
<1>7. \A j \in last : \A k \in own : slot(k) = slot(j) => k <= j
  BY <1>2, <1>4, <1>6
<1>8. \A i, j \in last : slot(i) = slot(j) => i = j
  <2> SUFFICES ASSUME NEW i \in last, NEW j \in last, slot(i) = slot(j)
               PROVE  i = j
    OBVIOUS
  <2>1. i <= j /\ j <= i /\ i \in Nat /\ j \in Nat
    BY <1>2, <1>6, <1>7
  <2> QED BY <2>1
<1>9. \A j \in last : slot(j) \in 0 .. w - 1
  <2> SUFFICES ASSUME NEW j \in last PROVE slot(j) \in 0 .. w - 1
    OBVIOUS
  <2> DEFINE a == N(j)
  <2>1. a \in Nat /\ slot(j) = a % w
    BY <1>2, <1>3, <1>6
  <2> HIDE DEF a
  <2> QED BY <1>2, <2>1, ModRange
<1>10. {slot(j) : j \in last} = 0 .. w - 1
  BY <1>5, <1>9
<1> QED BY <1>6, <1>7, <1>8, <1>10 DEF last, slot

\* A member more takes the next slot and leaves the others theirs.
TakesNextSlot(own, x, w) ==
  /\ \A k \in own : RingSlot(own \cup {x}, k, w) = RingSlot(own, k, w)
  /\ RingSlot(own \cup {x}, x, w) = Cardinality(own) % w

\* So it is for a member behind all others.
LEMMA OneMoreMember ==
  ASSUME NEW n \in Nat, NEW own \in SUBSET (1 .. n), NEW w \in Nat \ {0}
  PROVE  /\ IsFiniteSet(own) /\ Cardinality(own) \in Nat /\ n + 1 \notin own
         /\ Cardinality(own \cup {n + 1}) = Cardinality(own) + 1
         /\ TakesNextSlot(own, n + 1, w)
<1>1. IsFiniteSet(own) /\ Cardinality(own) \in Nat
  <2>1. IsFiniteSet(1 .. n)
    BY FS_Interval
  <2>2. IsFiniteSet(own)
    BY <2>1, FS_Subset
  <2> QED BY <2>2, FS_CardinalityType
<1>2. \A k \in own : k \in Nat /\ k < n + 1 /\ ~(n + 1 < k)
  OBVIOUS
<1>3. n + 1 \notin own /\ ~(n + 1 < n + 1)
  BY <1>2
<1>4. Cardinality(own \cup {n + 1}) = Cardinality(own) + 1
  BY <1>1, <1>3, FS_AddElement
<1>5. \A k \in own : Smaller(own \cup {n + 1}, k) = Smaller(own, k)
  BY <1>2 DEF Smaller
<1>6. Smaller(own \cup {n + 1}, n + 1) = own
  BY <1>2, <1>3 DEF Smaller
<1> QED BY <1>1, <1>3, <1>4, <1>5, <1>6 DEF RingSlot, TakesNextSlot

\* Writing one value more, at the slot whose turn it is, keeps the ring wound.
LEMMA WoundMore ==
  ASSUME NEW n \in Nat, NEW own \in SUBSET (1 .. n), NEW w \in Nat \ {0}, NEW val, NEW more,
         \A k \in own : more[k] = val[k], NEW g \in [0 .. w - 1 -> Int], Wound(g, val, own, w),
         NEW head \in 0 .. w - 1, head = Cardinality(own) % w,
         NEW h, h = [g EXCEPT ![head] = more[n + 1]]
  PROVE  Wound(h, more, own \cup {n + 1}, w)
<1> DEFINE own2 == own \cup {n + 1}
           c == Cardinality(own)
<1>1. /\ IsFiniteSet(own) /\ c \in Nat /\ n + 1 \notin own
      /\ \A k \in own : RingSlot(own2, k, w) = RingSlot(own, k, w)
      /\ RingSlot(own2, n + 1, w) = head
  <2>1. IsFiniteSet(own) /\ Cardinality(own) \in Nat /\ n + 1 \notin own
        /\ TakesNextSlot(own, n + 1, w)
    BY OneMoreMember
  <2> QED BY <2>1 DEF TakesNextSlot
<1>2. \A i \in 0 .. w - 1 :
        g[i] = IF AtSlot(own, i, w) = {} THEN 0 ELSE val[Max(AtSlot(own, i, w))]
  BY DEF Wound
<1> HIDE DEF c, own2
<1>6. ASSUME NEW i \in 0 .. w - 1
      PROVE  h[i] = IF AtSlot(own2, i, w) = {} THEN 0 ELSE more[Max(AtSlot(own2, i, w))]
  <2>1. CASE i = head
    <3>1. n + 1 \in AtSlot(own2, i, w)
      BY <1>1, <2>1 DEF AtSlot, own2
    <3>2. Max(AtSlot(own2, i, w)) = n + 1
      <4>1. \A k \in own2 : k \in Int /\ n + 1 >= k
        BY DEF own2
      <4>2. AtSlot(own2, i, w) \in SUBSET Int /\ \A k \in AtSlot(own2, i, w) : n + 1 >= k
        BY <4>1 DEF AtSlot
      <4> QED BY <3>1, <4>2, MaxIs
    <3>3. h[i] = more[n + 1]
      BY <2>1
    <3> QED BY <3>1, <3>2, <3>3
  <2>2. CASE i # head
    <3>1. AtSlot(own2, i, w) = AtSlot(own, i, w)
      BY <1>1, <2>2 DEF AtSlot, own2
    <3>2. h[i] = g[i]
      BY <2>2
    <3>3. CASE AtSlot(own, i, w) = {}
      BY <1>2, <3>1, <3>2, <3>3
    <3>4. CASE AtSlot(own, i, w) # {}
      <4>1. AtSlot(own, i, w) \in SUBSET own
        BY DEF AtSlot
      <4>2. AtSlot(own, i, w) \in SUBSET Int /\ IsFiniteSet(AtSlot(own, i, w))
        <5>1. own \in SUBSET Int
          OBVIOUS
        <5>2. IsFiniteSet(AtSlot(own, i, w))
          BY <1>1, <4>1, FS_Subset
        <5> QED BY <4>1, <5>1, <5>2
      <4>3. Max(AtSlot(own, i, w)) \in own
        BY <3>4, <4>1, <4>2, Extremes
      <4>4. more[Max(AtSlot(own, i, w))] = val[Max(AtSlot(own, i, w))]
        BY <4>3
      <4> QED BY <1>2, <3>1, <3>2, <3>4, <4>4
    <3> QED BY <3>3, <3>4
  <2> QED BY <2>1, <2>2
<1> QED BY <1>6 DEF Wound, own2

\* Nothing is written to a ring of zeros.
LEMMA WoundEmpty ==
  ASSUME NEW w \in Nat \ {0}, NEW val, NEW g, \A i \in 0 .. w - 1 : g[i] = 0
  PROVE  Wound(g, val, {}, w)
<1>1. \A i : AtSlot({}, i, w) = {}
  BY DEF AtSlot
<1> QED BY <1>1 DEF Wound

\* A full ring holds, at the slot of each of the last members, the value of that member.
LEMMA WoundRecent ==
  ASSUME NEW own \in SUBSET Nat, IsFiniteSet(own), NEW w \in Nat \ {0}, Cardinality(own) >= w,
         NEW g, NEW val, Wound(g, val, own, w), NEW j \in Recent(own, w)
  PROVE  RingSlot(own, j, w) \in 0 .. w - 1 /\ g[RingSlot(own, j, w)] = val[j]
<1> DEFINE last == Recent(own, w)
           i == RingSlot(own, j, w)
<1>1. /\ last \in SUBSET own
      /\ \A k \in last : \A l \in own : RingSlot(own, l, w) = RingSlot(own, k, w) => l <= k
      /\ {RingSlot(own, k, w) : k \in last} = 0 .. w - 1
  BY RecentInSlots
<1>2. j \in own /\ i \in 0 .. w - 1
  BY <1>1
<1>3. j \in AtSlot(own, i, w) /\ AtSlot(own, i, w) \in SUBSET Int /\ \A k \in AtSlot(own, i, w) : j >= k
  <2>1. \A k \in own : k \in Nat
    OBVIOUS
  <2>2. \A k \in AtSlot(own, i, w) : k \in own /\ k <= j
    BY <1>1 DEF AtSlot
  <2>3. j \in AtSlot(own, i, w)
    BY <1>2 DEF AtSlot
  <2>4. ASSUME NEW k \in AtSlot(own, i, w) PROVE k \in Int /\ j >= k
    <3>1. k \in own /\ k <= j /\ k \in Nat /\ j \in Nat
      BY <1>2, <2>1, <2>2
    <3> QED BY <3>1
  <2> QED BY <2>3, <2>4
<1>4. Max(AtSlot(own, i, w)) = j
  BY <1>3, MaxIs
<1>5. g[i] = IF AtSlot(own, i, w) = {} THEN 0 ELSE val[Max(AtSlot(own, i, w))]
  BY <1>2 DEF Wound
<1> QED BY <1>2, <1>3, <1>4, <1>5

\* A sum over the slots of a full ring is the sum over the last members.
LEMMA SumOfRecent ==
  ASSUME NEW own \in SUBSET Nat, IsFiniteSet(own), NEW w \in Nat \ {0}, Cardinality(own) >= w,
         NEW g, NEW f,
         \A j \in Recent(own, w) : f[j] \in Int /\ g[RingSlot(own, j, w)] = f[j]
  PROVE  SumOver(g, 0 .. w - 1) = SumOver(f, Recent(own, w))
<1> DEFINE last == Recent(own, w)
           slot == [j \in last |-> RingSlot(own, j, w)]
           slots == 0 .. w - 1
<1>1. /\ last \in SUBSET own
      /\ \A i, j \in last : RingSlot(own, i, w) = RingSlot(own, j, w) => i = j
      /\ {RingSlot(own, j, w) : j \in last} = slots
  BY RecentInSlots
<1>2. IsFiniteSet(last)
  BY <1>1, FS_Subset
<1>3. \A j \in last : slot[j] = RingSlot(own, j, w)
  OBVIOUS
<1>4. Values(slot, last) = slots
  BY <1>1, <1>3 DEF Values
<1> HIDE DEF last, slot, slots
<1>5. /\ \A i, j \in last : slot[i] = slot[j] => i = j
      /\ \A j \in last : f[j] \in Int /\ g[slot[j]] = f[j]
  BY <1>1, <1>3 DEF last
<1>6. SumOver(g, Values(slot, last)) = SumOver(f, last)
  BY <1>2, <1>5, SumReindexed
<1> QED BY <1>4, <1>6 DEF last, slots

-----------------------------------------------------------------------------
(* Sums of squares.                                                        *)

\* A sum grows by every element that joins.
Grows(f, S) == \A T \in SUBSET S : \A x \in S \ T : SumOver(f, T \cup {x}) = SumOver(f, T) + f[x]

\* Sums of integers do.
LEMMA SumGrows ==
  ASSUME NEW S, IsFiniteSet(S), NEW f, \A x \in S : f[x] \in Int
  PROVE  Grows(f, S) /\ \A T \in SUBSET S : SumOver(f, T) \in Int
<1>1. ASSUME NEW T \in SUBSET S PROVE IsFiniteSet(T) /\ SumOver(f, T) \in Int
  <2>1. IsFiniteSet(T)
    BY FS_Subset
  <2> QED BY <2>1, SumType
<1>2. ASSUME NEW T \in SUBSET S, NEW x \in S \ T PROVE SumOver(f, T \cup {x}) = SumOver(f, T) + f[x]
  <2>1. IsFiniteSet(T) /\ x \notin T /\ f[x] \in Int /\ \A y \in T : f[y] \in Int
    BY <1>1
  <2> QED BY <2>1, SumAdd
<1> QED BY <1>1, <1>2 DEF Grows

\* A term of a sum of squared differences, multiplied out.
LEMMA SquaredDifference ==
  ASSUME NEW a \in Int, NEW t \in Int, NEW x \in Int
  PROVE  /\ (a * x - t) * (a * x - t) = (a * a) * (x * x) - (2 * a * t) * x + t * t
         /\ (a * x - t) * (a * x - t) \in Int /\ (a * x - t) * (a * x - t) >= 0
<1>1. (a * x - t) * (a * x - t) = (a * a) * (x * x) - (2 * a * t) * x + t * t
  OBVIOUS
<1> DEFINE d == a * x - t
<1>2. d \in Int
  OBVIOUS
<1> HIDE DEF d
<1>3. d * d \in Int /\ d * d >= 0
  BY <1>2
<1> QED BY <1>1, <1>3 DEF d

\* The squares of the values of f, and their squared differences from t once scaled by a.
Squares(sq, f, S) == \A x \in S : sq[x] = f[x] * f[x]
SquaredDifferences(d, f, S, a, t) == \A x \in S : d[x] = (a * f[x] - t) * (a * f[x] - t)

\* What the differences add up to, by the sum and the sum of the squares.
AddUp(d, sq, f, S, a, t) ==
  SumOver(d, S) = (a * a) * SumOver(sq, S) - (2 * a * t) * SumOver(f, S) + (t * t) * Cardinality(S)

\* The squared differences of scaled values from a number add up to what the sum and the
\* sum of the squares say.
LEMMA SumOfSquares ==
  ASSUME NEW S, IsFiniteSet(S), NEW f, \A x \in S : f[x] \in Int,
         NEW sq, Squares(sq, f, S), NEW a \in Int, NEW t \in Int,
         NEW d, SquaredDifferences(d, f, S, a, t)
  PROVE  AddUp(d, sq, f, S, a, t) /\ SumOver(d, S) >= 0
<1>0. ASSUME NEW x \in S
      PROVE  /\ d[x] \in Int /\ d[x] >= 0 /\ sq[x] \in Int
             /\ d[x] = (a * a) * sq[x] - (2 * a * t) * f[x] + t * t
  <2> DEFINE v == f[x]
  <2>1. v \in Int /\ sq[x] = v * v /\ d[x] = (a * v - t) * (a * v - t)
    BY DEF Squares, SquaredDifferences
  <2> HIDE DEF v
  <2>2. v * v \in Int
    BY <2>1
  <2> QED BY <2>1, <2>2, SquaredDifference DEF v
<1>c. /\ \A x \in S : f[x] \in Int
      /\ \A x \in S : sq[x] \in Int
      /\ \A x \in S : d[x] \in Int
  BY <1>0
<1>a. Grows(f, S) /\ Grows(sq, S) /\ Grows(d, S)
  BY <1>c, SumGrows
<1>b. \A T \in SUBSET S : SumOver(f, T) \in Int /\ SumOver(sq, T) \in Int /\ SumOver(d, T) \in Int
  BY <1>c, SumGrows
<1> DEFINE F == {T \in SUBSET S :
                   /\ SumOver(d, T) = (a * a) * SumOver(sq, T) - (2 * a * t) * SumOver(f, T)
                                      + (t * t) * Cardinality(T)
                   /\ SumOver(d, T) >= 0}
<1>1. F \in SUBSET (SUBSET S) /\ {} \in F
  <2>1. SumOver(d, {}) = 0 /\ SumOver(sq, {}) = 0 /\ SumOver(f, {}) = 0 /\ Cardinality({}) = 0
    BY SumEmpty, FS_EmptySet
  <2> QED BY <2>1
<1>2. ASSUME NEW T \in F, NEW x \in S \ T PROVE T \cup {x} \in F
  <2>0. T \in SUBSET S /\ x \in S /\ x \notin T /\ T \cup {x} \in SUBSET S
        /\ SumOver(d, T) = (a * a) * SumOver(sq, T) - (2 * a * t) * SumOver(f, T)
                           + (t * t) * Cardinality(T)
        /\ SumOver(d, T) >= 0
    OBVIOUS
  <2> HIDE DEF F
  <2>1. IsFiniteSet(T) /\ Cardinality(T) \in Nat /\ Cardinality(T \cup {x}) = Cardinality(T) + 1
    BY <2>0, FS_Subset, FS_CardinalityType, FS_AddElement
  <2>2. f[x] \in Int /\ sq[x] \in Int /\ d[x] \in Int
    BY <1>0, <2>0
  <2>3. /\ SumOver(f, T \cup {x}) = SumOver(f, T) + f[x]
        /\ SumOver(sq, T \cup {x}) = SumOver(sq, T) + sq[x]
        /\ SumOver(d, T \cup {x}) = SumOver(d, T) + d[x]
    BY <1>a, <2>0 DEF Grows
  <2>4. SumOver(f, T) \in Int /\ SumOver(sq, T) \in Int /\ SumOver(d, T) \in Int
    BY <1>b, <2>0
  <2> DEFINE A == a * a
             B == 2 * a * t
             C == t * t
             d0 == SumOver(d, T)
             s0 == SumOver(sq, T)
             f0 == SumOver(f, T)
             c0 == Cardinality(T)
             dx == d[x]
             sx == sq[x]
             fx == f[x]
  <2>5. A \in Int /\ B \in Int /\ C \in Int
    OBVIOUS
  <2>6. /\ d0 = A * s0 - B * f0 + C * c0 /\ d0 >= 0
        /\ dx = A * sx - B * fx + C /\ dx >= 0
        /\ {d0, s0, f0, c0, dx, sx, fx} \subseteq Int
    BY <1>0, <2>0, <2>1, <2>2, <2>4
  <2> HIDE DEF A, B, C, d0, s0, f0, c0, dx, sx, fx
  <2>7. A * (s0 + sx) = A * s0 + A * sx /\ B * (f0 + fx) = B * f0 + B * fx /\ C * (c0 + 1) = C * c0 + C
    BY <2>5, <2>6
  <2> DEFINE p == A * s0
             q == A * sx
             r == B * f0
             u == B * fx
             v == C * c0
  <2>8. {p, q, r, u, v} \subseteq Int
    BY <2>5, <2>6
  <2>9. d0 + dx = (p + q) - (r + u) + (v + C) /\ d0 + dx >= 0
    <3>1. d0 = p - r + v /\ dx = q - u + C
      BY <2>6
    <3> HIDE DEF p, q, r, u, v
    <3> QED BY <2>5, <2>6, <2>8, <3>1
  <2>10. d0 + dx = A * (s0 + sx) - B * (f0 + fx) + C * (c0 + 1)
    BY <2>7, <2>9
  <2> QED BY <2>0, <2>1, <2>3, <2>9, <2>10 DEF F, A, B, C, d0, s0, f0, c0, dx, sx, fx
<1> HIDE DEF F
<1>3. S \in F
  BY <1>1, <1>2, SetInduction
<1> QED BY <1>3 DEF F, AddUp

\* Values between 0 and a bound have a sum between 0 and as many times the bound.
LEMMA SumBounded ==
  ASSUME NEW S, IsFiniteSet(S), NEW f, NEW b \in Nat, \A x \in S : f[x] \in Nat /\ f[x] <= b
  PROVE  SumOver(f, S) \in Nat /\ SumOver(f, S) <= b * Cardinality(S)
<1> DEFINE F == {T \in SUBSET S : SumOver(f, T) \in Nat /\ SumOver(f, T) <= b * Cardinality(T)}
<1>1. F \in SUBSET (SUBSET S) /\ {} \in F
  <2>1. SumOver(f, {}) = 0 /\ Cardinality({}) = 0
    BY SumEmpty, FS_EmptySet
  <2> QED BY <2>1
<1>2. ASSUME NEW T \in F, NEW x \in S \ T PROVE T \cup {x} \in F
  <2>0. /\ T \in SUBSET S /\ x \in S /\ x \notin T /\ T \cup {x} \in SUBSET S
        /\ SumOver(f, T) \in Nat /\ SumOver(f, T) <= b * Cardinality(T)
    OBVIOUS
  <2> HIDE DEF F
  <2>1. IsFiniteSet(T) /\ Cardinality(T) \in Nat /\ Cardinality(T \cup {x}) = Cardinality(T) + 1
    BY <2>0, FS_Subset, FS_CardinalityType, FS_AddElement
  <2>2. (\A y \in T : f[y] \in Int) /\ f[x] \in Int
    BY <2>0
  <2>3. SumOver(f, T \cup {x}) = SumOver(f, T) + f[x]
    BY <2>0, <2>1, <2>2, SumAdd
  <2> DEFINE s0 == SumOver(f, T)
             c0 == Cardinality(T)
             fx == f[x]
  <2>4. s0 \in Nat /\ c0 \in Nat /\ fx \in Nat /\ fx <= b /\ s0 <= b * c0
    BY <2>0, <2>1
  <2> HIDE DEF s0, c0, fx
  <2>5. s0 + fx \in Nat /\ s0 + fx <= b * (c0 + 1)
    BY <2>4
  <2> QED BY <2>0, <2>1, <2>3, <2>5 DEF F, s0, c0, fx
<1> HIDE DEF F
<1>3. S \in F
  BY <1>1, <1>2, SetInduction
<1> QED BY <1>3 DEF F
=============================================================================
