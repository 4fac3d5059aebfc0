-------------------------- MODULE DevidTableProofs --------------------------
(***************************************************************************)
(* The properties of the table of device ids, DevidTable: for any ids, any *)
(* hashes and any size.                                                    *)
(***************************************************************************)
EXTENDS DevidTable, FiniteSetTheorems, WellFoundedInduction, TLAPS

-----------------------------------------------------------------------------
(* Numbers                                                                 *)

\* A set of numbers that is not empty has a least one.
LEMMA LeastNat ==
  ASSUME NEW T \in SUBSET Nat, T # {}
  PROVE  \E x \in T : \A y \in T : x <= y
<1> DEFINE R == {p \in Nat \X Nat : p[1] < p[2]}
<1>1. R = OpToRel(<, Nat)
  BY DEF OpToRel
<1>2. IsWellFoundedOn(R, Nat)
  BY <1>1, NatLessThanWellFounded
<1> HIDE DEF R
<1>3. PICK x \in T : \A y \in T : ~ (<<y, x>> \in R)
  BY <1>2, WFMin
<1>4. ASSUME NEW y \in T PROVE x <= y
  <2>1. x \in Nat /\ y \in Nat /\ <<y, x>> \notin R
    BY <1>3
  <2>2. ~(y < x)
    BY <2>1 DEF R
  <2> QED
    BY <2>1, <2>2
<1> QED
  BY <1>4

\* Min is that number.
LEMMA MinFacts ==
  ASSUME NEW T \in SUBSET Nat, T # {}
  PROVE  Min(T) \in T /\ \A y \in T : Min(T) <= y
  BY LeastNat DEF Min

\* Division with remainder.
LEMMA DivMod ==
  ASSUME NEW x \in Int, NEW n \in Nat \ {0}
  PROVE  /\ x \div n \in Int /\ x % n \in 0..(n - 1)
         /\ x = n * (x \div n) + (x % n)
  OBVIOUS

\* Products are monotonic.
LEMMA Products ==
  ASSUME NEW a \in Nat, NEW b \in Nat, NEW c \in Nat, a <= b
  PROVE  /\ a * c <= b * c /\ c * a <= c * b
         /\ a < b /\ 0 < c => a * c < b * c
         /\ a * c \in Nat /\ b * c \in Nat
<1>1. PICK k \in Nat : b = a + k
  <2>1. b - a \in Nat /\ b = a + (b - a)
    OBVIOUS
  <2> QED
    BY <2>1
<1>2. k * c \in Nat /\ a * c \in Nat /\ c * a = a * c /\ c * b = b * c
  OBVIOUS
<1>3. b * c = a * c + k * c
  BY <1>1
<1>4. ASSUME a < b, 0 < c PROVE k * c > 0
  BY <1>1, <1>4
<1> QED
  BY <1>2, <1>3, <1>4

\* The remainder is the only one.
LEMMA OnlyRemainder ==
  ASSUME NEW n \in Nat \ {0}, NEW q \in Int, NEW t \in 0..(n - 1)
  PROVE  (n * q + t) % n = t
<1> DEFINE x == n * q + t
<1>1. x \in Int /\ x \div n \in Int /\ x % n \in 0..(n - 1)
      /\ x = n * (x \div n) + (x % n)
  <2>1. x \in Int
    OBVIOUS
  <2> HIDE DEF x
  <2> QED
    BY <2>1, DivMod
<1>2. n * (q - (x \div n)) = (x % n) - t
  BY <1>1
<1> DEFINE m == q - (x \div n)
<1>3. m \in Int /\ n * m = (x % n) - t /\ (x % n) - t < n /\ (x % n) - t > -n
  BY <1>1, <1>2
<1> HIDE DEF m, x
<1>4. m = 0
  <2>1. CASE m >= 1
    <3>1. n * m >= n
      BY <1>3, <2>1
    <3> QED
      BY <1>1, <1>3, <3>1
  <2>2. CASE m <= -1
    <3>1. n * m <= -n
      BY <1>3, <2>2
    <3> QED
      BY <1>1, <1>3, <3>1
  <2> QED
    BY <1>3, <2>1, <2>2
<1>5. (x % n) - t = 0
  BY <1>3, <1>4
<1>6. x % n = t
  BY <1>1, <1>5
<1> QED
  BY <1>6 DEF x

\* What the loop of isprime() finds: no odd number below it divides, and when
\* it does not divide either, its square is not below the number.
LEMMA DividerFacts ==
  ASSUME NEW p \in Nat, p >= 3, p % 2 = 1
  PROVE  LET D == Divider(p)
         IN  /\ D \in Nat /\ D >= 3
             /\ D * D >= p \/ p % D = 0
             /\ \A d \in 3..(D - 1) : d % 2 = 1 => p % d # 0
<1> DEFINE S == {d \in 3..(p + 3) : d % 2 = 1 /\ (d * d >= p \/ p % d = 0)}
           D == Divider(p)
<1>1. p * p >= p
  OBVIOUS
<1>2. S \in SUBSET Nat /\ p \in S
  BY <1>1
<1>3. D = Min(S)
  BY DEF Divider
<1> HIDE DEF S
<1>4. D \in S /\ \A y \in S : D <= y
  BY <1>2, <1>3, MinFacts
<1> HIDE DEF D
<1>5. D \in 3..(p + 3) /\ (D * D >= p \/ p % D = 0)
  BY <1>4 DEF S
<1>6. ASSUME NEW d \in 3..(D - 1), d % 2 = 1 PROVE p % d # 0
  <2>1. d \notin S /\ d \in 3..(p + 3)
    BY <1>4, <1>5
  <2> QED
    BY <1>6, <2>1 DEF S
<1>7. /\ D \in Nat /\ D >= 3 /\ (D * D >= p \/ p % D = 0)
      /\ \A d \in 3..(D - 1) : d % 2 = 1 => p % d # 0
  BY <1>5, <1>6
<1> QED
  BY <1>7 DEF D

\* An odd number for which isprime() says yes has no divisor but 1 and itself.
LEMMA NoDivisor ==
  ASSUME NEW p \in Nat, p >= 3, p % 2 = 1, isprime(p), NEW d \in 2..(p - 1)
  PROVE  p % d # 0
<1> SUFFICES ASSUME p % d = 0 PROVE FALSE
  OBVIOUS
<1> DEFINE D == Divider(p)
           e == p \div d
<1>1. /\ D \in Nat /\ D >= 3 /\ (D * D >= p \/ p % D = 0)
      /\ \A x \in 3..(D - 1) : x % 2 = 1 => p % x # 0
  BY DividerFacts
<1>2. p % D # 0
  BY DEF isprime
<1>3. e \in Int /\ p = d * e
  BY DivMod
<1> HIDE DEF D, e
<1>4. e >= 2 /\ e < p
  <2>1. e >= 1
    BY <1>3
  <2>2. e # 1
    BY <1>3
  <2>3. e < d * e
    BY <1>3, <2>1
  <2> QED
    BY <1>3, <2>1, <2>2, <2>3
<1>5. d % 2 = 1 /\ e % 2 = 1
  <2>1. ASSUME NEW x \in Nat, NEW y \in Nat, p = x * y, x % 2 # 1 PROVE FALSE
    <3>1. x = 2 * (x \div 2) /\ x \div 2 \in Int
      BY <2>1
    <3>2. p = 2 * ((x \div 2) * y) + 0
      BY <2>1, <3>1
    <3>3. (x \div 2) * y \in Int
      BY <3>1, <2>1
    <3>4. (2 * ((x \div 2) * y) + 0) % 2 = 0
      BY <3>3, OnlyRemainder
    <3> QED
      BY <3>2, <3>4
  <2>2. p = d * e /\ p = e * d /\ d \in Nat /\ e \in Nat
    BY <1>3, <1>4
  <2> QED
    BY <2>1, <2>2
<1>6. p % e = 0
  <2>1. e \in Nat \ {0} /\ d \in Int /\ 0 \in 0..(e - 1) /\ p = e * d + 0
    BY <1>3, <1>4
  <2>2. (e * d + 0) % e = 0
    BY <2>1, OnlyRemainder
  <2> QED
    BY <2>1, <2>2
<1>7. d >= D /\ e >= D
  <2>1. ASSUME NEW x \in Nat, x >= 2, x % 2 = 1, p % x = 0 PROVE x >= D
    <3>1. x # 2
      BY <2>1
    <3>2. x < D => x \in 3..(D - 1)
      BY <1>1, <2>1, <3>1
    <3>3. ~(x < D)
      BY <1>1, <2>1, <3>2, Zenon
    <3> QED
      BY <1>1, <2>1, <3>3
  <2>2. d \in Nat /\ e \in Nat /\ d >= 2
    BY <1>3, <1>4
  <2> QED
    BY <1>4, <1>5, <1>6, <2>1, <2>2
<1>8. d * e >= D * D /\ (d > D => d * e > D * D)
  <2>1. D \in Nat /\ d \in Nat /\ e \in Nat /\ D <= d /\ D <= e /\ 0 < e
    BY <1>1, <1>3, <1>4, <1>7
  <2>2. D * e <= d * e /\ (D < d => D * e < d * e) /\ D * e \in Nat /\ d * e \in Nat
    BY <2>1, Products
  <2>3. D * D <= D * e /\ D * D \in Nat
    BY <2>1, Products
  <2> QED
    BY <2>1, <2>2, <2>3
<1>9. d = D
  BY <1>1, <1>2, <1>3, <1>7, <1>8
<1> QED
  BY <1>2, <1>9

\* No step count below the size brings the probe back to where it was: the
\* least multiple of the step that the size divides would divide the size.
LEMMA NoReturn ==
  ASSUME NEW p \in Nat, p >= 3, p % 2 = 1, isprime(p),
         NEW h \in 1..(p - 1), NEW j \in 1..(p - 1), NEW m \in Int
  PROVE  j * h # m * p
<1> SUFFICES ASSUME j * h = m * p PROVE FALSE
  OBVIOUS
<1> DEFINE T == {t \in Nat : t > 0 /\ \E z \in Int : t * h = z * p}
<1>1. T \in SUBSET Nat /\ j \in T
  OBVIOUS
<1>2. PICK d \in T : \A y \in T : d <= y
  BY <1>1, LeastNat
<1>3. PICK z \in Int : d * h = z * p
  OBVIOUS
<1>4. d \in Nat /\ d > 0 /\ d < p
  <2>1. d \in Nat /\ d > 0
    OBVIOUS
  <2>2. d <= j
    BY <1>1, <1>2
  <2>3. j \in Nat /\ j < p
    OBVIOUS
  <2> HIDE DEF T
  <2> QED
    BY <2>1, <2>2, <2>3
<1>5. \A y \in Nat : y < d /\ y > 0 => \A w \in Int : y * h # w * p
  BY <1>2, <1>4
<1> HIDE DEF T
<1>6. d # 1
  <2> SUFFICES ASSUME d = 1 PROVE FALSE
    OBVIOUS
  <2>1. h = z * p
    BY <1>3
  <2>2. CASE z >= 1
    <3>1. 1 \in Nat /\ z \in Nat /\ 1 <= z
      BY <2>2
    <3>2. 1 * p <= z * p
      BY <3>1, Products
    <3> QED
      BY <2>1, <3>2
  <2>3. CASE z <= 0
    <3>1. z * p <= 0
      BY <2>3
    <3> QED
      BY <2>1, <3>1
  <2> QED
    BY <2>2, <2>3
<1>7. p % d # 0
  BY <1>4, <1>6, NoDivisor
<1> DEFINE q == p \div d
           t == p % d
<1>8. q \in Int /\ t \in 0..(d - 1) /\ p = d * q + t
  BY <1>4, DivMod
<1>9. t # 0
  BY <1>7
<1> HIDE DEF q, t
<1>10. t * h = (h - z * q) * p
  <2>1. t * h = (p - d * q) * h
    <3>1. d * q \in Int /\ t \in Int
      BY <1>4, <1>8
    <3>2. t = p - d * q
      BY <1>8, <3>1
    <3> QED
      BY <3>2
  <2>2. (p - d * q) * h = p * h - (d * h) * q
    BY <1>4, <1>8
  <2>3. (d * h) * q = (z * q) * p
    BY <1>3, <1>8
  <2> QED
    BY <1>8, <2>1, <2>2, <2>3
<1>11. t \in Nat /\ t < d /\ t > 0 /\ h - z * q \in Int
  <2>1. z * q \in Int
    BY <1>3, <1>8
  <2>2. t \in Nat /\ t < d /\ t > 0
    BY <1>4, <1>8, <1>9
  <2> QED
    BY <2>1, <2>2
<1> QED
  BY <1>5, <1>10, <1>11

-----------------------------------------------------------------------------
(* The table                                                               *)

\* A size FirstPrime gives: odd, without divisors, and at least 5, since
\* isprime() takes 3 for composite.
GoodSize(n) == n \in Nat /\ n >= 5 /\ n % 2 = 1 /\ isprime(n)

\* Every table has such a size.
LEMMA PrimeFacts ==
  ASSUME NEW n \in Nels
  PROVE  GoodSize(FirstPrime(n))
<1> DEFINE S == {p \in n..(2 * n + 3) : p % 2 = 1 /\ isprime(p)}
           p == FirstPrime(n)
<1>1. n \in Nat /\ n >= 2 /\ S \in SUBSET Nat /\ S # {}
  <2>1. n \in Nat /\ n >= 2
    BY TableAssumption
  <2> QED
    BY <2>1, PrimeAssumption
<1>2. p = Min(S)
  BY DEF FirstPrime
<1> HIDE DEF S
<1>3. p \in S
  BY <1>1, <1>2, MinFacts
<1> HIDE DEF p
<1>4. p \in Nat /\ p >= 2 /\ p % 2 = 1 /\ isprime(p)
  BY <1>1, <1>3 DEF S
<1>5. p # 2 /\ p # 4
  BY <1>4
<1>6. p # 3
  <2> SUFFICES ASSUME p = 3 PROVE FALSE
    OBVIOUS
  <2> DEFINE D == Divider(3)
  <2>1. /\ D \in Nat /\ D >= 3
        /\ \A d \in 3..(D - 1) : d % 2 = 1 => 3 % d # 0
    BY DividerFacts
  <2>2. 3 % D # 0
    BY <1>4 DEF isprime
  <2> HIDE DEF D
  <2>3. D # 3
    BY <2>2
  <2>4. 3 \in 3..(D - 1) /\ 3 % 2 = 1
    BY <2>1, <2>3
  <2>5. 3 % 3 # 0
    BY <2>1, <2>4
  <2> QED
    BY <2>5
<1>7. p >= 5
  BY <1>4, <1>5, <1>6
<1> QED
  BY <1>4, <1>7 DEF GoodSize, p

\* The two hashes are in range.
LEMMA HashFacts ==
  ASSUME GoodSize(size), r \in [Strings -> Nat], NEW s \in Strings
  PROVE  Hval(s) \in 1..(size - 1) /\ Hval2(s) \in 1..(size - 2)
<1>1. size \in Nat \ {0} /\ size - 2 \in Nat \ {0} /\ r[s] \in Nat
  BY DEF GoodSize
<1> DEFINE x == IF r[s] = 0 THEN 1 ELSE r[s]
<1>2. x \in Nat
  BY <1>1
<1> HIDE DEF x
<1>3. x % size \in 0..(size - 1)
  BY <1>1, <1>2
<1>4. Hval(s) \in 1..(size - 1)
  BY <1>1, <1>3 DEF Hval, x, GoodSize
<1> DEFINE h == Hval(s)
<1>5. h \in Nat
  BY <1>1, <1>4
<1> HIDE DEF h
<1>6. h % (size - 2) \in 0..((size - 2) - 1)
  BY <1>1, <1>5
<1>7. 1 + (h % (size - 2)) \in 1..(size - 2)
  BY <1>1, <1>6
<1> QED
  BY <1>4, <1>7 DEF Hval2, h

\* One step of the probe stays among the slots, and goes back by the step or,
\* round the end, by the step less the size.
LEMMA BackFacts ==
  ASSUME GoodSize(size), NEW i \in 1..size, NEW h \in 1..(size - 2)
  PROVE  /\ Back(i, h) \in 1..size
         /\ Back(i, h) = i - h \/ Back(i, h) = i - h + size
  BY DEF Back, GoodSize

\* The sequence of probes has a closed form.
LEMMA ProbesClosed ==
  ASSUME GoodSize(size), r \in [Strings -> Nat], NEW s \in Strings
  PROVE  Probes(s) =
           [k \in 0..size |-> 1 + ((Hval(s) - 1 - k * Hval2(s)) % size)]
<1> DEFINE h == Hval(s)
           h2 == Hval2(s)
           f == [k \in 0..size |-> 1 + ((h - 1 - k * h2) % size)]
<1>1. /\ size \in Nat \ {0} /\ h \in 1..(size - 1) /\ h2 \in 1..(size - 2)
  BY HashFacts DEF GoodSize
<1> HIDE DEF h, h2
<1>2. f[0] = h
  <2>1. (h - 1) % size = h - 1
    BY <1>1
  <2>2. h - 1 - 0 * h2 = h - 1 /\ 0 \in 0..size
    BY <1>1
  <2> QED
    BY <1>1, <2>1, <2>2
<1>3. ASSUME NEW k \in 0..size, k # 0 PROVE f[k] = Back(f[k - 1], h2)
  <2> DEFINE y == h - 1 - (k - 1) * h2
             q == y \div size
             t == y % size
  <2>1. y \in Int
    BY <1>1
  <2>2. q \in Int /\ t \in 0..(size - 1) /\ y = size * q + t
    <3> HIDE DEF y
    <3> QED
      BY <1>1, <2>1, DivMod
  <2>3. h - 1 - k * h2 = y - h2
    BY <1>1
  <2>4. f[k] = 1 + ((y - h2) % size)
    BY <2>3
  <2>5. f[k - 1] = 1 + t
    BY <1>1, <1>3
  <2> HIDE DEF q, t, y, f
  <2>6. CASE t >= h2
    <3>1. y - h2 = size * q + (t - h2) /\ t - h2 \in 0..(size - 1)
      BY <1>1, <2>2, <2>6
    <3>2. (size * q + (t - h2)) % size = t - h2
      BY <1>1, <2>2, <3>1, OnlyRemainder
    <3> QED
      BY <1>1, <2>2, <2>4, <2>5, <2>6, <3>1, <3>2 DEF Back
  <2>7. CASE t < h2
    <3>1. y - h2 = size * (q - 1) + (t - h2 + size) /\ t - h2 + size \in 0..(size - 1)
          /\ q - 1 \in Int
      BY <1>1, <2>2, <2>7
    <3>2. (size * (q - 1) + (t - h2 + size)) % size = t - h2 + size
      BY <1>1, <3>1, OnlyRemainder
    <3> QED
      BY <1>1, <2>2, <2>4, <2>5, <2>7, <3>1, <3>2 DEF Back
  <2> QED
    BY <1>1, <2>2, <2>6, <2>7
<1> DEFINE P(g) == g = [k \in 0..size |-> IF k = 0 THEN h ELSE Back(g[k - 1], h2)]
<1>4. P(f)
  <2>1. f = [k \in 0..size |-> f[k]]
    OBVIOUS
  <2> HIDE DEF f
  <2> QED
    BY <1>2, <1>3, <2>1
<1>5. Probes(s) = CHOOSE g : P(g)
  BY DEF Probes, h, h2
<1> HIDE DEF P, f
<1>6. P(Probes(s))
  BY <1>4, <1>5
<1> DEFINE g == Probes(s)
           T == {k \in 0..size : g[k] # f[k]}
<1>7. /\ g[0] = h
      /\ \A k \in 0..size : k # 0 => g[k] = Back(g[k - 1], h2)
      /\ g = [k \in 0..size |-> g[k]]
  <2> HIDE DEF g
  <2>1. g = [k \in 0..size |-> IF k = 0 THEN h ELSE Back(g[k - 1], h2)]
    BY <1>6 DEF P, g
  <2>2. 0 \in 0..size
    BY <1>1
  <2> QED
    BY <2>1, <2>2
<1>8. T = {}
  <2> SUFFICES ASSUME T # {} PROVE FALSE
    OBVIOUS
  <2>1. T \in SUBSET Nat
    BY <1>1
  <2>2. PICK x \in T : \A y \in T : x <= y
    BY <2>1, LeastNat
  <2>3. x \in 0..size /\ g[x] # f[x]
    OBVIOUS
  <2>4. x # 0
    BY <1>2, <1>7, <2>3
  <2>5. x - 1 \in 0..size /\ x - 1 \notin T
    BY <1>1, <2>2, <2>3, <2>4
  <2>6. g[x - 1] = f[x - 1]
    BY <2>5
  <2> QED
    BY <1>3, <1>7, <2>3, <2>4, <2>6
<1>9. f = [k \in 0..size |-> f[k]]
  BY DEF f
<1>10. g = f
  BY <1>7, <1>8, <1>9
<1> QED
  BY <1>10 DEF f, h, h2

\* The probes of an id, one after the other: they begin at its hash, are slots
\* other than 0, no two of the first size are the same, the last is the first
\* again, and every slot is among them.
LEMMA ProbeFacts ==
  ASSUME GoodSize(size), r \in [Strings -> Nat], NEW s \in Strings
  PROVE  LET p == Probes(s)
         IN  /\ p \in [0..size -> 1..size]
             /\ p[0] = Hval(s) /\ p[size] = p[0]
             /\ \A i, j \in 0..(size - 1) : i < j => p[i] # p[j]
             /\ \A i \in 1..size : \E k \in 0..(size - 1) : p[k] = i
<1> DEFINE p == Probes(s)
           h == Hval(s)
           h2 == Hval2(s)
<1>1. size \in Nat \ {0} /\ size >= 5 /\ h \in 1..(size - 1) /\ h2 \in 1..(size - 2)
  BY HashFacts DEF GoodSize
<1>2. p = [k \in 0..size |-> 1 + ((h - 1 - k * h2) % size)]
  BY ProbesClosed
<1> HIDE DEF h, h2, p
<1>3. ASSUME NEW k \in 0..size
      PROVE  p[k] \in 1..size /\ \E m \in Int : p[k] = h - k * h2 - m * size
  <2> DEFINE y == h - 1 - k * h2
             q == y \div size
             t == y % size
  <2>1. y \in Int /\ k * h2 \in Int
    BY <1>1
  <2>2. p[k] = 1 + t
    BY <1>2
  <2>3. h - k * h2 = y + 1
    BY <1>1, <2>1
  <2> HIDE DEF y
  <2>4. q \in Int /\ t \in 0..(size - 1) /\ y = size * q + t
    BY <1>1, <2>1, DivMod
  <2> HIDE DEF q, t
  <2>5. size * q \in Int /\ q * size = size * q
    BY <1>1, <2>4
  <2>6. p[k] = h - k * h2 - q * size
    BY <1>1, <2>1, <2>2, <2>3, <2>4, <2>5
  <2>7. p[k] \in 1..size
    BY <1>1, <2>2, <2>4
  <2> QED
    BY <2>4, <2>6, <2>7, Zenon
<1>4. p \in [0..size -> 1..size]
  BY <1>2, <1>3
<1>5. p[0] = h
  <2>1. (h - 1) % size = h - 1
    BY <1>1
  <2>2. h - 1 - 0 * h2 = h - 1 /\ 0 \in 0..size
    BY <1>1
  <2> QED
    BY <1>1, <1>2, <2>1, <2>2
<1>6. p[size] = h
  <2>1. h - 1 - size * h2 = size * (-h2) + (h - 1)
    BY <1>1
  <2>2. -h2 \in Int /\ h - 1 \in 0..(size - 1) /\ size \in 0..size
    BY <1>1
  <2>3. (size * (-h2) + (h - 1)) % size = h - 1
    BY <1>1, <2>2, OnlyRemainder
  <2>4. p[size] = 1 + ((h - 1 - size * h2) % size)
    BY <1>2, <2>2
  <2> QED
    BY <1>1, <2>1, <2>3, <2>4
<1>7. ASSUME NEW i \in 0..(size - 1), NEW j \in 0..(size - 1), i < j
      PROVE  p[i] # p[j]
  <2> SUFFICES ASSUME p[i] = p[j] PROVE FALSE
    OBVIOUS
  <2>1. i \in 0..size /\ j \in 0..size /\ i \in Int /\ j \in Int
    BY <1>1
  <2>2. PICK m \in Int : p[i] = h - i * h2 - m * size
    BY <1>3, <2>1
  <2>3. PICK n \in Int : p[j] = h - j * h2 - n * size
    BY <1>3, <2>1
  <2>4. (j - i) * h2 = (m - n) * size
    <3> DEFINE a == i * h2
               b == m * size
               c == j * h2
               d == n * size
    <3>1. a \in Int /\ b \in Int /\ c \in Int /\ d \in Int /\ h \in Int
      BY <1>1, <2>1
    <3>a. h - a - b = h - c - d
      BY <2>2, <2>3
    <3>2. c - a = b - d
      <4> HIDE DEF a, b, c, d
      <4> QED
        BY <3>1, <3>a
    <3>3. (j - i) * h2 = j * h2 - i * h2
      BY <1>1, <2>1
    <3>4. (m - n) * size = m * size - n * size
      BY <1>1
    <3> QED
      BY <3>2, <3>3, <3>4
  <2>5. j - i \in 1..(size - 1) /\ m - n \in Int /\ h2 \in 1..(size - 1)
    BY <1>1, <1>7
  <2>6. (j - i) * h2 # (m - n) * size
    <3>1. size \in Nat /\ size >= 3 /\ size % 2 = 1 /\ isprime(size)
      BY <1>1 DEF GoodSize
    <3> DEFINE x == j - i
               y == m - n
    <3>2. x \in 1..(size - 1) /\ y \in Int /\ h2 \in 1..(size - 1)
      BY <2>5
    <3> HIDE DEF x, y
    <3>3. x * h2 # y * size
      BY <3>1, <3>2, NoReturn
    <3> QED
      BY <3>3 DEF x, y
  <2> QED
    BY <2>4, <2>6
<1> DEFINE K == 0..(size - 1)
           f == [k \in K |-> p[k]]
<1>8. \A i \in 1..size : \E k \in K : p[k] = i
  <2>1. IsFiniteSet(K) /\ Cardinality(K) = size
    BY <1>1, FS_Interval
  <2>2. IsFiniteSet(1..size) /\ Cardinality(1..size) = size
    BY <1>1, FS_Interval
  <2>3. K \subseteq 0..size
    BY <1>1
  <2>4. f \in [K -> 1..size]
    BY <1>4, <2>3
  <2>5. ASSUME NEW i \in K, NEW j \in K, f[i] = f[j] PROVE i = j
    <3>1. p[i] = p[j] /\ i \in Int /\ j \in Int
      BY <1>1, <2>5
    <3> QED
      BY <1>7, <3>1
  <2>6. f \in Injection(K, 1..size)
    <3> HIDE DEF K, f
    <3> QED
      BY <2>4, <2>5 DEF Injection, IsInjective
  <2>7. f \in Surjection(K, 1..size)
    <3> HIDE DEF K, f
    <3> QED
      BY <2>1, <2>2, <2>4, <2>6, FS_Injection, FS_Surjection, FS_SurjSameCardinalityImpliesInj
  <2> QED
    BY <2>7 DEF Surjection
<1> QED
  BY <1>4, <1>5, <1>6, <1>7, <1>8 DEF p, h

-----------------------------------------------------------------------------
(* The invariant                                                           *)

Slots == [used : Nat, str : Strings \cup {None}, data : Strings \cup {None}]

TypeOK ==
  /\ r \in [Strings -> Nat] /\ nel \in Nels
  /\ filled \in Nat /\ failures \in Nat /\ building \in BOOLEAN
  /\ building => table # NoTable
  /\ table # NoTable => GoodSize(size) /\ table \in [0..size -> Slots]

\* An unused slot is empty, slot 0 is one, and a string was stored under its
\* own hash.
SlotsKept ==
  /\ table[0].used = 0
  /\ \A i \in 0..size : table[i].used = 0 => table[i] = Empty
  /\ \A i \in 0..size : table[i].str # None =>
       table[i].used = Hval(table[i].str)

\* On the way to slot i the probe of s meets neither an unused slot nor s.
Reaches(s, i) ==
  \E k \in 0..(size - 1) :
    /\ Probes(s)[k] = i
    /\ \A j \in 0..(k - 1) : /\ table[Probes(s)[j]].used # 0
                             /\ table[Probes(s)[j]].str # s

\* Every string can be reached where it is.
PathsKept ==
  \A i \in 1..size : table[i].str # None => Reaches(table[i].str, i)

\* Without a failed allocation the count of entries is right and a hub is
\* stored for the id of its slot.
CountKept ==
  failures = 0 =>
    /\ filled = Cardinality(Used)
    /\ \A i \in 0..size : table[i].data \in {None, table[i].str}

TableInv ==
  /\ TypeOK
  /\ table # NoTable => SlotsKept /\ PathsKept /\ CountKept

\* Where a search ends: the probe reaches that slot without meeting an unused
\* slot or the id before, and the slot is unused, or holds the id, or all
\* slots are used and none holds it.
LEMMA SearchFacts ==
  ASSUME TypeOK, table # NoTable, SlotsKept, NEW s \in Strings
  PROVE  /\ Search(s) \in 1..size
         /\ Reaches(s, Search(s))
         /\ \/ table[Search(s)].used = 0
            \/ Holds(Search(s), s)
            \/ \A i \in 1..size : table[i].used # 0 /\ ~Holds(i, s)
<1> DEFINE p == Probes(s)
           Stop(k) == \/ table[p[k]].used = 0
                      \/ Holds(p[k], s)
                      \/ k > 0 /\ p[k] = p[0]
           stops == {k \in 0..size : Stop(k)}
<1>1. GoodSize(size) /\ r \in [Strings -> Nat] /\ table \in [0..size -> Slots]
  BY DEF TypeOK
<1>2. size \in Nat /\ size >= 5
  BY <1>1 DEF GoodSize
<1>3. /\ p \in [0..size -> 1..size]
      /\ p[0] = Hval(s) /\ p[size] = p[0]
      /\ \A i, j \in 0..(size - 1) : i < j => p[i] # p[j]
      /\ \A i \in 1..size : \E k \in 0..(size - 1) : p[k] = i
  BY <1>1, ProbeFacts
<1>4. Search(s) = p[Min(stops)]
  BY DEF Search
<1> HIDE DEF p
<1>5. stops \in SUBSET Nat /\ size \in stops
  BY <1>2, <1>3
<1> DEFINE m == Min(stops)
<1>6. m \in stops /\ \A y \in stops : m <= y
  <2> HIDE DEF stops
  <2> QED
    BY <1>5, MinFacts
<1> HIDE DEF m
<1>7. m \in 0..size /\ Stop(m)
  BY <1>6
<1>8. \A j \in 0..(m - 1) : ~Stop(j)
  <2> SUFFICES ASSUME NEW j \in 0..(m - 1), Stop(j) PROVE FALSE
    OBVIOUS
  <2>1. j \in 0..size /\ ~(m <= j)
    BY <1>2, <1>7
  <2>2. j \in stops
    BY <2>1
  <2> QED
    BY <1>6, <2>1, <2>2
<1> HIDE DEF stops
<1>9. ASSUME NEW j \in 0..size, ~Stop(j)
      PROVE  table[p[j]].used # 0 /\ table[p[j]].str # s
  <2>1. table[p[j]].used # 0 /\ ~Holds(p[j], s) /\ p[j] \in 0..size
    <3>1. p[j] \in 0..size
      BY <1>2, <1>3
    <3>2. table[p[j]].used # 0 /\ ~Holds(p[j], s)
      BY <1>9
    <3> QED
      BY <3>1, <3>2
  <2>2. table[p[j]].str = s => table[p[j]].used = Hval(s)
    BY <2>1, TableAssumption DEF SlotsKept
  <2> QED
    BY <2>1, <2>2 DEF Holds
<1>10. Search(s) \in 1..size
  BY <1>3, <1>4, <1>7 DEF m
<1>11. CASE m # size
  <2>1. m \in 0..(size - 1)
    BY <1>2, <1>7, <1>11
  <2>2. Reaches(s, Search(s))
    <3>1. \A j \in 0..(m - 1) : j \in 0..size
      BY <1>2, <2>1
    <3>2. \A j \in 0..(m - 1) : table[p[j]].used # 0 /\ table[p[j]].str # s
      <4> HIDE DEF Stop
      <4> QED
        BY <1>8, <1>9, <3>1
    <3> QED
      BY <1>4, <2>1, <3>2 DEF Reaches, p, m
  <2>3. ~(m > 0 /\ p[m] = p[0])
    BY <1>2, <1>3, <2>1
  <2>4. table[p[m]].used = 0 \/ Holds(p[m], s)
    BY <1>7, <2>3
  <2> QED
    BY <1>4, <1>10, <2>2, <2>4 DEF m
<1>12. CASE m = size
  <2>1. p[m] = p[0] /\ 0 \in 0..(size - 1)
    BY <1>2, <1>3, <1>12
  <2>2. Reaches(s, Search(s))
    <3>1. \A j \in 0..(0 - 1) : FALSE
      OBVIOUS
    <3>2. Search(s) = p[0]
      BY <1>4, <2>1 DEF m
    <3> QED
      BY <2>1, <3>1, <3>2 DEF Reaches, p
  <2>3. ASSUME NEW i \in 1..size PROVE table[i].used # 0 /\ ~Holds(i, s)
    <3>1. PICK k \in 0..(size - 1) : p[k] = i
      BY <1>3
    <3>2. ~Stop(k)
      BY <1>8, <1>12
    <3> QED
      BY <3>1, <3>2
  <2> QED
    BY <1>10, <2>2, <2>3
<1> QED
  BY <1>11, <1>12

\* A string that can be reached where it is, is found there.
LEMMA FoundThere ==
  ASSUME TypeOK, table # NoTable, SlotsKept,
         NEW i \in 1..size, NEW s \in Strings, table[i].str = s, Reaches(s, i)
  PROVE  Search(s) = i
<1> DEFINE p == Probes(s)
           Stop(k) == \/ table[p[k]].used = 0
                      \/ Holds(p[k], s)
                      \/ k > 0 /\ p[k] = p[0]
           stops == {k \in 0..size : Stop(k)}
<1>1. GoodSize(size) /\ r \in [Strings -> Nat] /\ table \in [0..size -> Slots]
  BY DEF TypeOK
<1>2. size \in Nat /\ size >= 5
  BY <1>1 DEF GoodSize
<1>3. /\ p \in [0..size -> 1..size]
      /\ \A x, y \in 0..(size - 1) : x < y => p[x] # p[y]
  BY <1>1, ProbeFacts
<1>4. PICK k \in 0..(size - 1) :
        /\ p[k] = i
        /\ \A j \in 0..(k - 1) : table[p[j]].used # 0 /\ table[p[j]].str # s
  BY DEF Reaches
<1>5. Search(s) = p[Min(stops)]
  BY DEF Search
<1> HIDE DEF p
<1>6. Holds(p[k], s)
  BY <1>2, <1>4, TableAssumption DEF Holds, SlotsKept
<1>7. stops \in SUBSET Nat /\ k \in stops
  BY <1>2, <1>6
<1> DEFINE m == Min(stops)
<1>8. m \in stops /\ \A y \in stops : m <= y
  <2> HIDE DEF stops
  <2> QED
    BY <1>7, MinFacts
<1> HIDE DEF m
<1>9. m \in 0..size /\ Stop(m) /\ m <= k
  BY <1>7, <1>8
<1>10. m = k
  <2> SUFFICES ASSUME m < k PROVE FALSE
    BY <1>2, <1>9
  <2>1. m \in 0..(k - 1) /\ m \in 0..(size - 1) /\ 0 \in 0..(size - 1)
    BY <1>2, <1>9
  <2>2. table[p[m]].used # 0 /\ table[p[m]].str # s
    BY <1>4, <2>1
  <2>3. m > 0 => p[0] # p[m]
    BY <1>3, <2>1
  <2> QED
    BY <1>9, <2>2, <2>3 DEF Holds
<1> QED
  BY <1>4, <1>5, <1>10 DEF m

\* The hashes and the probes depend on the size and the hash function only.
LEMMA SameProbes ==
  ASSUME size' = size, r' = r, NEW s \in Strings
  PROVE  Hval(s)' = Hval(s) /\ Probes(s)' = Probes(s)
<1>1. Hval(s)' = Hval(s)
  BY DEF Hval
<1>2. Hval2(s)' = Hval2(s)
  BY <1>1 DEF Hval2
<1>3. \A x, y : Back(x, y)' = Back(x, y)
  BY DEF Back
<1> QED
  BY <1>1, <1>2, <1>3 DEF Probes

\* A step gives the slot where the search for s ended to s, or to nobody when
\* the allocation failed.
Claims(s, str) ==
  LET i == Search(s)
  IN  /\ table # NoTable /\ table' \in [0..size -> Slots]
      /\ table'[i].used = Hval(s) /\ table'[i].str = str
      /\ \A j \in 0..size : j # i => table'[j] = table[j]
      /\ UNCHANGED <<r, nel, size, building>>

\* Such a step keeps every string reachable, and no slot of another string is
\* lost from its way.
LEMMA ClaimKeeps ==
  ASSUME TypeOK, SlotsKept, PathsKept, NEW s \in Strings,
         NEW str \in {s, None}, Claims(s, str)
  PROVE  SlotsKept' /\ PathsKept'
<1> DEFINE i == Search(s)
<1>1. /\ table # NoTable /\ table' \in [0..size -> Slots]
      /\ table'[i].used = Hval(s) /\ table'[i].str = str
      /\ \A j \in 0..size : j # i => table'[j] = table[j]
      /\ r' = r /\ size' = size
  BY DEF Claims
<1>2. /\ i \in 1..size /\ Reaches(s, i)
  BY <1>1, SearchFacts
<1>3. GoodSize(size) /\ size \in Nat /\ size >= 5 /\ r \in [Strings -> Nat]
      /\ table \in [0..size -> Slots]
  BY <1>1 DEF TypeOK, GoodSize
<1>4. \A t \in Strings : Hval(t)' = Hval(t) /\ Probes(t)' = Probes(t)
  BY <1>1, SameProbes
<1>5. \A t \in Strings : Hval(t) \in 1..size /\ Hval(t) # 0
  <2> SUFFICES ASSUME NEW t \in Strings PROVE Hval(t) \in 1..size /\ Hval(t) # 0
    OBVIOUS
  <2>1. Hval(t) \in 1..(size - 1)
    BY <1>3, HashFacts
  <2> QED
    BY <1>3, <2>1
<1>6. \A t \in Strings : Probes(t) \in [0..size -> 1..size]
  BY <1>3, ProbeFacts
<1> HIDE DEF i
<1>7. \A j \in 0..size : table[j].str \in Strings \cup {None}
                        /\ table'[j].str \in Strings \cup {None}
  BY <1>1, <1>3 DEF Slots
<1>8. SlotsKept'
  <2>1. table'[0].used = 0
    <3>1. 0 # i /\ 0 \in 0..size
      BY <1>2, <1>3
    <3> QED
      BY <1>1, <3>1 DEF SlotsKept
  <2>2. ASSUME NEW j \in 0..size, table'[j].used = 0 PROVE table'[j] = Empty
    <3>1. j # i
      BY <1>1, <1>5, <2>2
    <3> QED
      BY <1>1, <2>2, <3>1 DEF SlotsKept
  <2>3. ASSUME NEW j \in 0..size, table'[j].str # None
        PROVE  table'[j].used = Hval(table[j].str)'
    <3>1. table'[j].used = Hval(table'[j].str)
      <4>1. CASE j = i
        BY <1>1, <2>3, <4>1
      <4>2. CASE j # i
        BY <1>1, <2>3, <4>2 DEF SlotsKept
      <4> QED
        BY <4>1, <4>2
    <3>2. Hval(table'[j].str) = Hval(table[j].str)'
      BY <1>1 DEF Hval
    <3> QED
      BY <3>1, <3>2
  <2> QED
    BY <1>1, <2>1, <2>2, <2>3 DEF SlotsKept, Empty
<1>9. ASSUME NEW j \in 1..size, NEW t \in Strings, table'[j].str = t
      PROVE  Reaches(t, j)'
  <2>1. j \in 0..size
    OBVIOUS
  <2>2. Reaches(t, j)
    <3>1. CASE j = i
      BY <1>1, <1>2, <1>9, <3>1, TableAssumption
    <3>2. CASE j # i
      BY <1>1, <1>9, <2>1, <3>2, TableAssumption DEF PathsKept
    <3> QED
      BY <3>1, <3>2
  <2>3. j # i => t # s
    <3> SUFFICES ASSUME j # i, t = s PROVE FALSE
      OBVIOUS
    <3>1. table[j].str = s
      BY <1>1, <1>9, <2>1
    <3>2. Search(s) = j
      BY <1>1, <2>2, <3>1, FoundThere
    <3> QED
      BY <3>2 DEF i
  <2>4. PICK k \in 0..(size - 1) :
          /\ Probes(t)[k] = j
          /\ \A x \in 0..(k - 1) : table[Probes(t)[x]].used # 0
                                  /\ table[Probes(t)[x]].str # t
    BY <2>2 DEF Reaches
  <2>5. ASSUME NEW x \in 0..(k - 1)
        PROVE  table'[Probes(t)[x]].used # 0 /\ table'[Probes(t)[x]].str # t
    <3> DEFINE y == Probes(t)[x]
    <3>1. y \in 0..size /\ y # j /\ x \in 0..(size - 1)
      <4>1. x \in 0..(size - 1) /\ x < k /\ x \in 0..size
        BY <1>3, <2>4
      <4>2. y \in 0..size
        <5>1. Probes(t) \in [0..size -> 1..size]
          BY <1>6
        <5>2. y \in 1..size
          BY <4>1, <5>1
        <5> QED
          BY <1>3, <5>2
      <4>3. y # j
        BY <1>3, <2>4, <4>1, ProbeFacts
      <4> QED
        BY <4>1, <4>2, <4>3
    <3>2. table[y].used # 0 /\ table[y].str # t
      BY <2>4
    <3> HIDE DEF y
    <3>3. table'[y].used # 0 /\ table'[y].str # t
      <4>1. CASE y = i
        BY <1>1, <1>5, <2>3, <3>1, <4>1, TableAssumption
      <4>2. CASE y # i
        BY <1>1, <3>1, <3>2, <4>2
      <4> QED
        BY <4>1, <4>2
    <3> QED
      BY <3>3 DEF y
  <2> QED
    BY <1>1, <1>4, <2>4, <2>5 DEF Reaches
<1>10. PathsKept'
  <2>1. \A j \in 1..size : j \in 0..size
    OBVIOUS
  <2>2. \A j \in 1..size : table'[j].str # None => table'[j].str \in Strings
    BY <1>7, <2>1
  <2>3. \A j \in 1..size : table'[j].str # None => Reaches(table[j].str, j)'
    BY <1>9, <2>2
  <2> QED
    BY <1>1, <2>3 DEF PathsKept
<1> QED
  BY <1>8, <1>10

\* The used slots are among the slots but 0; when they are all of them there
\* are as many as the size says.
LEMMA UsedFacts ==
  ASSUME TypeOK, table # NoTable, SlotsKept
  PROVE  /\ Used \subseteq 1..size /\ IsFiniteSet(Used)
         /\ (\A i \in 1..size : table[i].used # 0) =>
              Used = 1..size /\ Cardinality(Used) = size
<1>1. size \in Nat /\ size >= 5 /\ DOMAIN table = 0..size
  BY DEF TypeOK, GoodSize
<1>2. Used \subseteq 1..size
  <2> SUFFICES ASSUME NEW i \in Used PROVE i \in 1..size
    OBVIOUS
  <2>1. i \in 0..size /\ table[i].used # 0
    BY <1>1 DEF Used
  <2>2. i # 0
    BY <2>1 DEF SlotsKept
  <2> QED
    BY <1>1, <2>1, <2>2
<1>3. IsFiniteSet(1..size) /\ Cardinality(1..size) = size
  BY <1>1, FS_Interval
<1>4. IsFiniteSet(Used)
  BY <1>2, <1>3, FS_Subset
<1>5. ASSUME \A i \in 1..size : table[i].used # 0 PROVE Used = 1..size
  <2>1. \A i \in 1..size : i \in 0..size
    BY <1>1
  <2>2. 1..size \subseteq Used
    BY <1>1, <1>5, <2>1 DEF Used
  <2> QED
    BY <1>2, <2>2
<1> QED
  BY <1>2, <1>3, <1>4, <1>5

\* The entry of slot i of a table T is assigned, its data, and both.
SetEntry(T, i, h, x) == [T EXCEPT ![i].used = h, ![i].str = x]
SetData(T, i, x) == [T EXCEPT ![i].data = x]
SetSlot(T, i, h, x, y) == [T EXCEPT ![i] = [used |-> h, str |-> x, data |-> y]]

\* Assignments to the fields of a slot.
LEMMA SlotUpdates ==
  ASSUME NEW D, NEW T \in [D -> Slots], NEW i \in D
  PROVE  /\ \A h, x : SetEntry(T, i, h, x) = SetSlot(T, i, h, x, T[i].data)
         /\ \A x : SetData(T, i, x) = SetSlot(T, i, T[i].used, T[i].str, x)
<1> SUFFICES ASSUME NEW h, NEW x
             PROVE  /\ SetEntry(T, i, h, x) = SetSlot(T, i, h, x, T[i].data)
                    /\ SetData(T, i, x) = SetSlot(T, i, T[i].used, T[i].str, x)
  BY Zenon
<1>1. T[i] \in Slots
  OBVIOUS
<1>2. T[i] = [used |-> T[i].used, str |-> T[i].str, data |-> T[i].data]
  BY <1>1 DEF Slots
<1>3. [T[i] EXCEPT !.data = x] = [used |-> T[i].used, str |-> T[i].str, data |-> x]
  BY <1>2
<1>4. [T EXCEPT ![i].data = x] = [T EXCEPT ![i] = [T[i] EXCEPT !.data = x]]
  OBVIOUS
<1> DEFINE U == [T EXCEPT ![i].used = h]
<1>5. U = [T EXCEPT ![i] = [T[i] EXCEPT !.used = h]]
  OBVIOUS
<1>6. [T[i] EXCEPT !.used = h] = [used |-> h, str |-> T[i].str, data |-> T[i].data]
  BY <1>2
<1>7. U[i] = [used |-> h, str |-> T[i].str, data |-> T[i].data]
  BY <1>5, <1>6
<1>8. [U EXCEPT ![i].str = x] = [U EXCEPT ![i] = [U[i] EXCEPT !.str = x]]
  OBVIOUS
<1>9. [U[i] EXCEPT !.str = x] = [used |-> h, str |-> x, data |-> T[i].data]
  <2> HIDE DEF U
  <2> QED
    BY <1>7
<1>10. [U EXCEPT ![i] = [used |-> h, str |-> x, data |-> T[i].data]] =
         [T EXCEPT ![i] = [used |-> h, str |-> x, data |-> T[i].data]]
  BY <1>5
<1> QED
  BY <1>3, <1>4, <1>8, <1>9, <1>10 DEF SetEntry, SetData, SetSlot

\* The second of them for a table of this size.
LEMMA DataUpdate ==
  ASSUME NEW n, NEW T \in [0..n -> Slots], NEW i \in 0..n, NEW x
  PROVE  SetData(T, i, x) = SetSlot(T, i, T[i].used, T[i].str, x)
  BY SlotUpdates, Zenon

\* A step that changes nothing, except that the hubs may be done.
LEMMA NoStep ==
  ASSUME TableInv, UNCHANGED <<r, nel, size, filled, table, failures>>,
         building' \in {building, FALSE}
  PROVE  TableInv'
<1>1. TypeOK'
  <2>1. TypeOK
    BY DEF TableInv
  <2>2. building' \in BOOLEAN /\ (building' => building)
    <3>1. building \in BOOLEAN
      BY <2>1 DEF TypeOK
    <3>2. CASE building' = building
      BY <3>1, <3>2
    <3>3. CASE building' = FALSE
      BY <3>3
    <3> QED
      BY <3>2, <3>3
  <2> QED
    BY <2>1, <2>2 DEF TypeOK
<1>2. SlotsKept => SlotsKept'
  BY DEF SlotsKept, Hval
<1>3. Used' = Used
  BY DEF Used
<1>4. CountKept => CountKept'
  BY <1>3 DEF CountKept
<1>5. table # NoTable /\ PathsKept => PathsKept'
  <2> SUFFICES ASSUME table # NoTable, PathsKept,
                      NEW i \in 1..size, table[i].str # None
               PROVE  Reaches(table[i].str, i)'
    BY DEF PathsKept
  <2>1. table[i].str \in Strings
    <3>1. table \in [0..size -> Slots] /\ i \in 0..size
      BY DEF TableInv, TypeOK
    <3> QED
      BY <3>1 DEF Slots
  <2> DEFINE t == table[i].str
  <2>2. Reaches(t, i)
    BY DEF PathsKept
  <2>3. Probes(t)' = Probes(t)
    BY DEF Probes, Hval, Hval2, Back
  <2> QED
    BY <2>2, <2>3 DEF Reaches
<1> QED
  BY <1>1, <1>2, <1>4, <1>5 DEF TableInv

\* A call of htab_hash, with or without the hub stored at the index returned.
LEMMA HashStep ==
  ASSUME TableInv, table # NoTable, NEW s \in Strings,
         NEW outcome \in HtabHash(s), Apply(outcome),
         \/ table' = outcome.table
         \/ /\ outcome.idx # 0
            /\ table' = [outcome.table EXCEPT ![outcome.idx].data = s]
  PROVE  TableInv'
<1> DEFINE i == Search(s)
           claimed(str) == [table EXCEPT ![i].used = Hval(s), ![i].str = str]
<1>1. TypeOK /\ SlotsKept /\ PathsKept /\ CountKept
  BY DEF TableInv
<1>2. /\ filled \in Nat /\ failures \in Nat /\ GoodSize(size)
      /\ size \in Nat /\ size >= 5 /\ table \in [0..size -> Slots]
      /\ r \in [Strings -> Nat] /\ nel \in Nels
  BY <1>1 DEF TypeOK, GoodSize
<1>3. /\ failures' = failures + outcome.failed /\ filled' = outcome.filled
      /\ UNCHANGED <<r, nel, size, building>>
  BY DEF Apply
<1>4. /\ i \in 1..size /\ i \in 0..size /\ i # 0
      /\ table[i].used = 0 \/ Holds(i, s)
         \/ \A x \in 1..size : table[x].used # 0 /\ ~Holds(x, s)
  BY <1>1, <1>2, SearchFacts
<1>5. Hval(s) \in 1..(size - 1) /\ Hval(s) # 0 /\ Hval(s) \in Nat
  BY <1>2, HashFacts
<1>6. /\ table[i] \in Slots
      /\ table[i].str \in Strings \cup {None} /\ table[i].data \in Strings \cup {None}
  BY <1>2, <1>4 DEF Slots
<1>7. \/ outcome = Kept(0)
      \/ Holds(i, s) /\ outcome = Kept(i)
      \/ ~Holds(i, s) /\ ~(filled >= size)
         /\ outcome \in {[idx |-> i, table |-> claimed(s), filled |-> filled + 1,
                          failed |-> 0],
                         [idx |-> 0, table |-> claimed(None), filled |-> filled,
                          failed |-> 1]}
  BY DEF HtabHash
<1> HIDE DEF i
<1>8. ASSUME NEW str \in {s, None}, NEW dt \in Strings \cup {None},
             table' = [table EXCEPT ![i] = [used |-> Hval(s), str |-> str, data |-> dt]],
             failures' \in Nat, filled' \in Nat
      PROVE  /\ TypeOK' /\ SlotsKept' /\ PathsKept'
             /\ table'[i] = [used |-> Hval(s), str |-> str, data |-> dt]
             /\ \A j \in 0..size : j # i => table'[j] = table[j]
             /\ DOMAIN table' = 0..size
  <2>1. [used |-> Hval(s), str |-> str, data |-> dt] \in Slots
    BY <1>5 DEF Slots
  <2>2. /\ table' \in [0..size -> Slots]
        /\ table'[i] = [used |-> Hval(s), str |-> str, data |-> dt]
        /\ \A j \in 0..size : j # i => table'[j] = table[j]
    BY <1>2, <1>4, <1>8, <2>1
  <2>3. Claims(s, str)
    BY <1>3, <2>2 DEF Claims, i
  <2>4. SlotsKept' /\ PathsKept'
    BY <1>1, <2>3, ClaimKeeps
  <2>5. table' # NoTable
    <3>1. DOMAIN table' = 0..size /\ DOMAIN NoTable = {}
      BY <2>2 DEF NoTable
    <3>2. 0 \in 0..size
      BY <1>2
    <3> QED
      BY <3>1, <3>2
  <2>6. TypeOK'
    BY <1>1, <1>2, <1>3, <1>8, <2>2, <2>5 DEF TypeOK, GoodSize
  <2> QED
    BY <2>2, <2>4, <2>6
<1>9. CASE outcome = Kept(0)
  <2>1. outcome.idx = 0 /\ outcome.table = table /\ outcome.filled = filled
        /\ outcome.failed = 0
    BY <1>9 DEF Kept
  <2>2. UNCHANGED <<r, nel, size, filled, table, building, failures>>
    BY <1>2, <1>3, <2>1
  <2> QED
    BY <2>2, NoStep DEF vars
<1>10. CASE Holds(i, s) /\ outcome = Kept(i)
  <2>1. outcome.idx = i /\ outcome.table = table /\ outcome.filled = filled
        /\ outcome.failed = 0
    BY <1>10 DEF Kept
  <2>2. PICK dt \in {table[i].data, s} :
          table' = [table EXCEPT ![i] = [used |-> Hval(s), str |-> s, data |-> dt]]
    <3>1. table[i] = [used |-> Hval(s), str |-> s, data |-> table[i].data]
      BY <1>6, <1>10 DEF Holds, Slots
    <3>2. table = [table EXCEPT ![i] = table[i]]
      BY <1>2, <1>4
    <3>3. [table EXCEPT ![i].data = s] =
            [table EXCEPT ![i] = [used |-> Hval(s), str |-> s, data |-> s]]
      <4>1. table[i].used = Hval(s) /\ table[i].str = s
        BY <1>10 DEF Holds
      <4>2. [table EXCEPT ![i].data = s] = [table EXCEPT
              ![i] = [used |-> table[i].used, str |-> table[i].str, data |-> s]]
        <5>1. table \in [0..size -> Slots] /\ i \in 0..size
          BY <1>2, <1>4
        <5>2. SetData(table, i, s) = SetSlot(table, i, table[i].used, table[i].str, s)
          BY <5>1, DataUpdate, ZenonT(60)
        <5> QED
          BY <5>2 DEF SetData, SetSlot
      <4> QED
        BY <4>1, <4>2
    <3> QED
      BY <2>1, <3>1, <3>2, <3>3
  <2>3. failures' = failures /\ filled' = filled
    BY <1>2, <1>3, <2>1
  <2>4. /\ TypeOK' /\ SlotsKept' /\ PathsKept'
        /\ table'[i] = [used |-> Hval(s), str |-> s, data |-> dt]
        /\ \A j \in 0..size : j # i => table'[j] = table[j]
        /\ DOMAIN table' = 0..size
    <3>1. s \in {s, None} /\ dt \in Strings \cup {None}
      BY <1>6, <2>2
    <3> QED
      BY <1>2, <1>8, <2>2, <2>3, <3>1
  <2>5. CountKept'
    <3>1. Used' = Used
      <4>1. \A j \in 0..size : table'[j].used = table[j].used
        BY <1>10, <2>4 DEF Holds
      <4> QED
        BY <1>2, <2>4, <4>1 DEF Used
    <3>2. ASSUME failures = 0, NEW j \in 0..size
          PROVE  table'[j].data \in {None, table'[j].str}
      <4>1. table[j].data \in {None, table[j].str}
        BY <1>1, <3>2 DEF CountKept
      <4>2. CASE j = i
        BY <1>10, <2>2, <2>4, <4>1, <4>2 DEF Holds
      <4>3. CASE j # i
        BY <2>4, <4>1, <4>3
      <4> QED
        BY <4>2, <4>3
    <3> QED
      BY <1>1, <1>3, <2>3, <3>1, <3>2 DEF CountKept
  <2> QED
    BY <2>4, <2>5 DEF TableInv
<1>11. CASE /\ ~Holds(i, s) /\ ~(filled >= size)
            /\ outcome = [idx |-> i, table |-> claimed(s), filled |-> filled + 1,
                          failed |-> 0]
  <2>1. outcome.idx = i /\ outcome.table = claimed(s) /\ outcome.filled = filled + 1
        /\ outcome.failed = 0
    BY <1>11
  <2>2. PICK dt \in {table[i].data, s} :
          table' = [table EXCEPT ![i] = [used |-> Hval(s), str |-> s, data |-> dt]]
    <3>0. SetEntry(table, i, Hval(s), s) =
            SetSlot(table, i, Hval(s), s, table[i].data)
      BY <1>2, <1>4, SlotUpdates, Zenon
    <3>1. claimed(s) =
            [table EXCEPT ![i] = [used |-> Hval(s), str |-> s, data |-> table[i].data]]
      BY <3>0 DEF SetEntry, SetSlot
    <3>2. [claimed(s) EXCEPT ![i].data = s] =
            [table EXCEPT ![i] = [used |-> Hval(s), str |-> s, data |-> s]]
      <4> DEFINE U == claimed(s)
      <4>1. U = [table EXCEPT
                   ![i] = [used |-> Hval(s), str |-> s, data |-> table[i].data]]
        BY <3>1
      <4> HIDE DEF U
      <4>2. [used |-> Hval(s), str |-> s, data |-> table[i].data] \in Slots
        BY <1>5, <1>6 DEF Slots
      <4>3. U \in [0..size -> Slots] /\ U[i].used = Hval(s) /\ U[i].str = s
        BY <1>2, <1>4, <4>1, <4>2
      <4>4. [U EXCEPT ![i].data = s] =
              [U EXCEPT ![i] = [used |-> Hval(s), str |-> s, data |-> s]]
        <5>1. U \in [0..size -> Slots] /\ i \in 0..size
          BY <1>4, <4>3
        <5>2. SetData(U, i, s) = SetSlot(U, i, U[i].used, U[i].str, s)
          BY <5>1, DataUpdate, ZenonT(60)
        <5> QED
          BY <4>3, <5>2 DEF SetData, SetSlot
      <4>5. [U EXCEPT ![i].data = s] =
              [table EXCEPT ![i] = [used |-> Hval(s), str |-> s, data |-> s]]
        BY <1>2, <4>1, <4>4
      <4> QED
        BY <4>5 DEF U
    <3> QED
      BY <2>1, <3>1, <3>2
  <2>3. failures' = failures /\ filled' = filled + 1
    BY <1>2, <1>3, <2>1
  <2>4. /\ TypeOK' /\ SlotsKept' /\ PathsKept'
        /\ table'[i] = [used |-> Hval(s), str |-> s, data |-> dt]
        /\ \A j \in 0..size : j # i => table'[j] = table[j]
        /\ DOMAIN table' = 0..size
    <3>1. s \in {s, None} /\ dt \in Strings \cup {None}
      BY <1>6, <2>2
    <3>2. failures' \in Nat /\ filled' \in Nat
      BY <1>2, <2>3
    <3> QED
      BY <1>8, <2>2, <3>1, <3>2
  <2>5. ASSUME failures = 0 PROVE CountKept'
    <3>1. /\ filled = Cardinality(Used)
          /\ \A j \in 0..size : table[j].data \in {None, table[j].str}
      BY <1>1, <2>5 DEF CountKept
    <3>2. table[i].used = 0
      <4> SUFFICES ASSUME table[i].used # 0 PROVE FALSE
        OBVIOUS
      <4>1. \A x \in 1..size : table[x].used # 0
        BY <1>4, <1>11
      <4>2. Cardinality(Used) = size
        BY <1>1, <4>1, UsedFacts
      <4> QED
        BY <1>2, <1>11, <3>1, <4>2
    <3>3. Used' = Used \cup {i} /\ i \notin Used
      <4>1. \A j \in 0..size : j # i => (table'[j].used # 0 <=> table[j].used # 0)
        BY <2>4
      <4>2. table'[i].used # 0
        BY <1>5, <2>4
      <4> QED
        BY <1>2, <1>4, <2>4, <3>2, <4>1, <4>2 DEF Used
    <3>4. Cardinality(Used') = Cardinality(Used) + 1
      <4>1. IsFiniteSet(Used)
        BY <1>1, UsedFacts
      <4> QED
        BY <3>3, <4>1, FS_AddElement
    <3>5. ASSUME NEW j \in 0..size PROVE table'[j].data \in {None, table'[j].str}
      <4>1. CASE j = i
        <5>1. table[i].data = None
          BY <1>1, <1>4, <3>2 DEF SlotsKept, Empty
        <5> QED
          BY <2>2, <2>4, <4>1, <5>1
      <4>2. CASE j # i
        BY <2>4, <3>1, <4>2
      <4> QED
        BY <4>1, <4>2
    <3> QED
      BY <1>3, <2>3, <3>1, <3>4, <3>5 DEF CountKept
  <2>6. failures # 0 => CountKept'
    BY <2>3 DEF CountKept
  <2> QED
    BY <2>4, <2>5, <2>6 DEF TableInv
<1>12. CASE outcome = [idx |-> 0, table |-> claimed(None), filled |-> filled,
                       failed |-> 1]
  <2>1. outcome.idx = 0 /\ outcome.table = claimed(None) /\ outcome.filled = filled
        /\ outcome.failed = 1
    BY <1>12
  <2>2. table' = [table EXCEPT
                    ![i] = [used |-> Hval(s), str |-> None, data |-> table[i].data]]
    <3>0. SetEntry(table, i, Hval(s), None) =
            SetSlot(table, i, Hval(s), None, table[i].data)
      BY <1>2, <1>4, SlotUpdates, Zenon
    <3>1. claimed(None) = [table EXCEPT
            ![i] = [used |-> Hval(s), str |-> None, data |-> table[i].data]]
      BY <3>0 DEF SetEntry, SetSlot
    <3> QED
      BY <2>1, <3>1
  <2>3. failures' = failures + 1 /\ filled' = filled
    BY <1>3, <2>1
  <2>4. TypeOK' /\ SlotsKept' /\ PathsKept'
    <3>1. None \in {s, None} /\ failures' \in Nat /\ filled' \in Nat
      BY <1>2, <2>3
    <3> QED
      BY <1>6, <1>8, <2>2, <3>1
  <2>5. CountKept'
    BY <1>2, <2>3 DEF CountKept
  <2> QED
    BY <2>4, <2>5 DEF TableInv
<1> QED
  BY <1>7, <1>9, <1>10, <1>11, <1>12

\* htab_create leaves an empty table or none.
LEMMA CreateKeeps ==
  ASSUME TableInv, Create
  PROVE  TableInv'
<1>1. /\ r' = r /\ nel' = nel /\ r \in [Strings -> Nat] /\ nel \in Nels
      /\ size' = FirstPrime(nel) /\ filled' = 0 /\ failures' = 0
      /\ table' = [i \in 0..size' |-> Empty] \/ table' = NoTable
      /\ building' = (table' # NoTable)
  BY DEF TableInv, TypeOK, Create
<1>2. GoodSize(size') /\ size' \in Nat
  BY <1>1, PrimeFacts DEF GoodSize
<1>3. Empty \in Slots /\ Empty.used = 0 /\ Empty.str = None /\ Empty.data = None
  BY DEF Empty, Slots
<1>4. CASE table' = NoTable
  BY <1>1, <1>4 DEF TableInv, TypeOK, NoTable
<1>5. CASE table' = [i \in 0..size' |-> Empty]
  <2>1. /\ table' \in [0..size' -> Slots]
        /\ \A i \in 0..size' : table'[i] = Empty
        /\ DOMAIN table' = 0..size'
    BY <1>3, <1>5
  <2>2. TypeOK'
    BY <1>1, <1>2, <2>1 DEF TypeOK
  <2>3. SlotsKept'
    BY <1>2, <1>3, <2>1 DEF SlotsKept, Empty
  <2>4. PathsKept'
    <3>1. \A i \in 1..size' : i \in 0..size'
      BY <1>2
    <3> QED
      BY <1>3, <2>1, <3>1 DEF PathsKept
  <2>5. CountKept'
    <3>1. Used' = {}
      BY <1>3, <2>1 DEF Used
    <3> QED
      BY <1>1, <1>3, <2>1, <3>1, FS_EmptySet DEF CountKept
  <2> QED
    BY <2>2, <2>3, <2>4, <2>5 DEF TableInv
<1> QED
  BY <1>1, <1>4, <1>5

\* What htab_hash relies on holds in every state.
THEOREM TableInvariant == Spec => []TableInv
<1>1. Init => TableInv
  <2> SUFFICES ASSUME Init PROVE TableInv
    OBVIOUS
  <2>1. r \in [Strings -> Nat]
    BY TableAssumption DEF Init
  <2> QED
    BY <2>1 DEF Init, TableInv, TypeOK, NoTable
<1>2. TableInv /\ [Next]_vars => TableInv'
  <2> SUFFICES ASSUME TableInv, [Next]_vars PROVE TableInv'
    OBVIOUS
  <2>1. CASE Create
    BY <2>1, CreateKeeps
  <2>2. CASE EndHubs
    BY <2>2, NoStep DEF EndHubs
  <2>3. CASE Destroy
    BY <2>3 DEF Destroy, TableInv, TypeOK, NoTable
  <2>4. ASSUME NEW s \in Strings, AddChild(s) PROVE TableInv'
    <3>1. table # NoTable
      BY <2>4 DEF AddChild, TableInv, TypeOK
    <3>2. PICK outcome \in HtabHash(s) :
            /\ Apply(outcome)
            /\ table' = IF outcome.idx # 0
                          THEN [outcome.table EXCEPT ![outcome.idx].data = s]
                          ELSE outcome.table
      BY <2>4 DEF AddChild
    <3>3. \/ table' = outcome.table
          \/ /\ outcome.idx # 0
             /\ table' = [outcome.table EXCEPT ![outcome.idx].data = s]
      BY <3>2
    <3> QED
      BY <3>1, <3>2, <3>3, HashStep
  <2>5. ASSUME NEW s \in Strings, Lookup(s) PROVE TableInv'
    <3>1. PICK outcome \in HtabHash(s) : Apply(outcome) /\ table' = outcome.table
      BY <2>5 DEF Lookup
    <3>2. CASE table # NoTable
      BY <3>1, <3>2, HashStep
    <3>3. CASE table = NoTable
      <4>1. outcome = Kept(0)
        BY <3>1, <3>3 DEF HtabHash
      <4>2. failures \in Nat
        BY DEF TableInv, TypeOK
      <4>3. UNCHANGED vars
        BY <3>1, <4>1, <4>2 DEF Kept, Apply, vars
      <4> QED
        BY <4>3, NoStep DEF vars
    <3> QED
      BY <3>2, <3>3
  <2>6. CASE UNCHANGED vars
    BY <2>6, NoStep DEF vars
  <2> QED
    BY <2>1, <2>2, <2>3, <2>4, <2>5, <2>6 DEF Next
<1> QED
  BY <1>1, <1>2, PTL DEF Spec

\* For any ids, hashes and size: what is in the table is found again where it
\* is, and without a failed allocation no slot leads to another device's hub.
THEOREM FoundAtItsPlace == Spec => []FoundAgain
<1>1. TableInv => FoundAgain
  <2> SUFFICES ASSUME TableInv PROVE FoundAgain
    OBVIOUS
  <2>1. CASE table = NoTable
    <3>1. DOMAIN table = {}
      BY <2>1 DEF NoTable
    <3> QED
      BY <3>1 DEF FoundAgain, Used
  <2>2. CASE table # NoTable
    <3>1. TypeOK /\ SlotsKept /\ PathsKept /\ CountKept
      BY <2>2 DEF TableInv
    <3>2. table \in [0..size -> Slots] /\ DOMAIN table = 0..size
      BY <2>2, <3>1 DEF TypeOK
    <3>3. ASSUME NEW i \in Used, table[i].str # None PROVE Search(table[i].str) = i
      <4>1. i \in 1..size
        BY <2>2, <3>1, UsedFacts
      <4>2. i \in 0..size /\ table[i] \in Slots
        BY <3>2 DEF Used
      <4>3. table[i].str \in Strings
        BY <3>3, <4>2 DEF Slots
      <4>4. Reaches(table[i].str, i)
        BY <3>1, <3>3, <4>1 DEF PathsKept
      <4> QED
        BY <2>2, <3>1, <4>1, <4>3, <4>4, FoundThere
    <3> QED
      BY <3>1, <3>2, <3>3 DEF FoundAgain, CountKept
  <2> QED
    BY <2>1, <2>2
<1> QED
  BY <1>1, TableInvariant, PTL

\* For any ids, hashes and size: the probe visits every slot before it gives
\* up, and the count htab_hash compares with the size is right.
THEOREM EverySlotVisited == Spec => []NoSlotMissed
<1>1. TableInv => NoSlotMissed
  <2> SUFFICES ASSUME TableInv, table # NoTable, failures = 0
               PROVE  /\ filled = Cardinality(Used)
                      /\ \A s \in Strings :
                           LET i == Search(s)
                           IN  table[i].used # 0 /\ ~Holds(i, s) => Used = 1..size
    BY DEF NoSlotMissed
  <2>1. TypeOK /\ SlotsKept /\ PathsKept /\ CountKept
    BY DEF TableInv
  <2>2. ASSUME NEW s \in Strings, table[Search(s)].used # 0, ~Holds(Search(s), s)
        PROVE  Used = 1..size
    <3>1. \A i \in 1..size : table[i].used # 0
      BY <2>1, <2>2, SearchFacts
    <3> QED
      BY <2>1, <3>1, UsedFacts
  <2> QED
    BY <2>1, <2>2 DEF CountKept
<1> QED
  BY <1>1, TableInvariant, PTL

=============================================================================
