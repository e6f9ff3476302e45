---------------------------- MODULE Colour_proofs ----------------------------
(***************************************************************************)
(* jscolor's arithmetic: what its fractions are worth and how far they     *)
(* reach, and that a colour of whole numbers is the same after it was      *)
(* taken apart into hue, saturation and value and put together again.  A   *)
(* fraction is compared by what it is worth, n / d, for which it need not  *)
(* be in lowest terms; the sextant of the hue decides where the levels go. *)
(***************************************************************************)
EXTENDS Colour, WellFoundedInduction, TLAPS

-----------------------------------------------------------------------------
(* The greatest common divisor *)

LEMMA LeastOf ==
  ASSUME NEW T, T \subseteq Nat, T # {}
  PROVE  \E m \in T : \A k \in T : m <= k
<1>1. IsWellFoundedOn(OpToRel(<, Nat), Nat)
  BY NatLessThanWellFounded
<1>2. PICK m \in T : \A k \in T : ~(<<k, m>> \in OpToRel(<, Nat))
  BY <1>1, WFMin
<1>3. \A k \in T : ~(k < m)
  BY <1>2 DEF OpToRel
<1> QED
  BY <1>3

LEMMA Remainder ==
  ASSUME NEW a \in Nat, NEW b \in Positive
  PROVE  /\ a \div b \in Nat /\ a % b \in Nat /\ a % b < b
         /\ a = b * (a \div b) + (a % b)
BY DEF Positive

LEMMA Signs ==
  ASSUME NEW g \in Positive, NEW x \in Int, g * x >= 0
  PROVE  x >= 0
BY DEF Positive

Divides(g, n) == \E x \in Nat : n = g * x

Common(p) == {g \in Positive : Divides(g, p[1]) /\ Divides(g, p[2])}

LEMMA CommonStep ==
  ASSUME NEW a \in Nat, NEW b \in Positive
  PROVE  Common(<<a, b>>) = Common(<<b, a % b>>)
<1> DEFINE q == a \div b
           r == a % b
<1>1. q \in Nat /\ r \in Nat /\ a = b * q + r
  BY Remainder
<1> HIDE DEF q, r
<1>2. ASSUME NEW g \in Positive, Divides(g, a), Divides(g, b)
      PROVE  Divides(g, r)
  <2>1. PICK x \in Nat, y \in Nat : a = g * x /\ b = g * y
    BY <1>2 DEF Divides
  <2>2. y * q \in Int /\ x - y * q \in Int
    BY <1>1
  <2>3. b * q = g * (y * q)
    BY <1>1, <2>1 DEF Positive
  <2>4. r = g * (x - y * q)
    BY <1>1, <2>1, <2>2, <2>3 DEF Positive
  <2>5. x - y * q >= 0
    BY <1>1, <2>2, <2>4, Signs
  <2> QED
    BY <2>2, <2>4, <2>5 DEF Divides
<1>3. ASSUME NEW g \in Positive, Divides(g, b), Divides(g, r)
      PROVE  Divides(g, a)
  <2>1. PICK y \in Nat, z \in Nat : b = g * y /\ r = g * z
    BY <1>3 DEF Divides
  <2>2. y * q \in Nat /\ y * q + z \in Nat
    BY <1>1
  <2>3. b * q = g * (y * q)
    BY <1>1, <2>1 DEF Positive
  <2>4. a = g * (y * q + z)
    BY <1>1, <2>1, <2>2, <2>3 DEF Positive
  <2> QED
    BY <2>2, <2>4 DEF Divides
<1> QED
  BY <1>2, <1>3 DEF Common, r

Greatest(S) == CHOOSE g \in S : \A k \in S : k <= g

LEMMA CommonZero ==
  ASSUME NEW a \in Positive
  PROVE  Greatest(Common(<<a, 0>>)) = a
<1>1. Divides(a, a) /\ Divides(a, 0)
  BY DEF Divides, Positive
<1>2. a \in Common(<<a, 0>>)
  BY <1>1 DEF Common
<1>3. ASSUME NEW k \in Common(<<a, 0>>)
      PROVE  k <= a
  <2>1. PICK x \in Nat : k \in Positive /\ a = k * x
    BY <1>3 DEF Common, Divides
  <2>2. x # 0
    BY <2>1 DEF Positive
  <2> QED
    BY <2>1, <2>2 DEF Positive
<1>4. Common(<<a, 0>>) \subseteq Nat
  BY DEF Common, Positive
<1> DEFINE g == Greatest(Common(<<a, 0>>))
<1>5. g \in Common(<<a, 0>>) /\ \A k \in Common(<<a, 0>>) : k <= g
  BY <1>2, <1>3 DEF Greatest
<1>6. a <= g /\ g <= a
  BY <1>2, <1>3, <1>5
<1> QED
  BY <1>2, <1>4, <1>5, <1>6

\* There is a function as Gcd is defined: the greatest common divisor.
LEMMA GcdDefined ==
  Gcd = [p \in Nat \X Nat |->
          IF p[2] = 0 THEN p[1] ELSE Gcd[<<p[2], p[1] % p[2]>>]]
<1> DEFINE P(g) == g = [p \in Nat \X Nat |->
                         IF p[2] = 0 THEN p[1] ELSE g[<<p[2], p[1] % p[2]>>]]
           f == [p \in Nat \X Nat |-> IF p = <<0, 0>> THEN 0 ELSE Greatest(Common(p))]
<1>1. ASSUME NEW a \in Nat, NEW b \in Nat
      PROVE  f[<<a, b>>] = IF b = 0 THEN a ELSE f[<<b, a % b>>]
  <2>1. CASE b = 0
    BY <2>1, CommonZero DEF Positive
  <2>2. CASE b # 0
    <3>1. b \in Positive /\ a % b \in Nat
      BY <2>2, Remainder DEF Positive
    <3> QED
      BY <2>2, <3>1, CommonStep
  <2> QED
    BY <2>1, <2>2
<1>2. P(f)
  <2> DEFINE e(p) == IF p[2] = 0 THEN p[1] ELSE f[<<p[2], p[1] % p[2]>>]
  <2>1. \A p \in Nat \X Nat : f[p] = e(p)
    BY <1>1
  <2>2. f = [p \in Nat \X Nat |-> f[p]]
    OBVIOUS
  <2> HIDE DEF f
  <2> QED
    BY <2>1, <2>2
<1>3. \E g : P(g)
  BY <1>2, Zenon
<1>4. P(CHOOSE g : P(g))
  BY <1>3, Zenon
<1>5. Gcd = CHOOSE g : P(g)
  BY DEF Gcd
<1> HIDE DEF P, f
<1>6. P(Gcd)
  BY <1>4, <1>5, Zenon
<1> QED
  BY <1>6 DEF P

LEMMA GcdStep ==
  ASSUME NEW a \in Nat, NEW b \in Nat
  PROVE  Gcd[<<a, b>>] = IF b = 0 THEN a ELSE Gcd[<<b, a % b>>]
BY GcdDefined

\* Gcd divides both.
LEMMA GcdDivides ==
  ASSUME NEW a \in Nat, NEW b \in Nat, <<a, b>> # <<0, 0>>
  PROVE  Gcd[<<a, b>>] \in Common(<<a, b>>)
<1> DEFINE T == {n \in Nat : \E m \in Nat : /\ <<m, n>> # <<0, 0>>
                                            /\ Gcd[<<m, n>>] \notin Common(<<m, n>>)}
<1>1. ASSUME T # {} PROVE FALSE
  <2>1. PICK n \in T : \A k \in T : n <= k
    BY <1>1, LeastOf
  <2>2. PICK m \in Nat : /\ <<m, n>> # <<0, 0>>
                         /\ Gcd[<<m, n>>] \notin Common(<<m, n>>)
    BY <2>1
  <2>3. n # 0
    <3>1. ASSUME n = 0 PROVE FALSE
      <4>1. m \in Positive /\ Gcd[<<m, 0>>] = m
        BY <2>2, <3>1, GcdStep DEF Positive
      <4>2. Divides(m, m) /\ Divides(m, 0)
        BY <4>1 DEF Divides, Positive
      <4> QED
        BY <2>2, <3>1, <4>1, <4>2 DEF Common
    <3> QED
      BY <3>1
  <2>4. n \in Positive /\ m % n \in Nat /\ m % n < n
    BY <2>3, Remainder DEF Positive
  <2>5. Gcd[<<n, m % n>>] \notin Common(<<n, m % n>>)
    BY <2>2, <2>3, <2>4, GcdStep, CommonStep
  <2>6. m % n \in T
    BY <2>3, <2>4, <2>5
  <2>7. n <= m % n
    BY <2>1, <2>6
  <2> QED
    BY <2>4, <2>7 DEF Positive
<1>2. ASSUME Gcd[<<a, b>>] \notin Common(<<a, b>>) PROVE b \in T
  BY <1>2
<1> HIDE DEF T
<1> QED
  BY <1>1, <1>2
-----------------------------------------------------------------------------
(* Fractions *)

\* p is worth n / d.
Worth(p, n, d) == p \in Fraction /\ p[1] * d = n * p[2]

LEMMA Cancel ==
  ASSUME NEW x \in Int, NEW y \in Int, NEW k \in Positive, x * k = y * k
  PROVE  x = y
BY DEF Positive

LEMMA Exact ==
  ASSUME NEW g \in Positive, NEW x \in Int
  PROVE  (g * x) \div g = x
BY DEF Positive

LEMMA AbsDivided ==
  ASSUME NEW g \in Positive, NEW n \in Int, Divides(g, Abs(n))
  PROVE  \E x \in Int : n = g * x
<1>1. PICK y \in Nat : Abs(n) = g * y
  BY DEF Divides
<1>2. n = g * y \/ n = g * (-y)
  BY <1>1 DEF Abs, Positive
<1> QED
  BY <1>2

\* Reducing a fraction does not change its worth.
LEMMA Reduced ==
  ASSUME NEW n \in Int, NEW d \in Positive
  PROVE  Worth(Q(n, d), n, d)
<1> DEFINE g == Gcd[<<Abs(n), d>>]
<1>1. Abs(n) \in Nat /\ d \in Nat /\ d # 0
  BY DEF Abs, Positive
<1>2. g \in Common(<<Abs(n), d>>)
  BY <1>1, GcdDivides
<1>3. Q(n, d) = <<n \div g, d \div g>>
  BY DEF Q
<1> HIDE DEF g
<1>4. g \in Positive /\ Divides(g, Abs(n)) /\ Divides(g, d)
  BY <1>2, ZenonT(60) DEF Common
<1>5. (\E x \in Int : n = g * x) /\ \E y \in Nat : d = g * y
  <2>1. \E x \in Int : n = g * x
    BY <1>4, AbsDivided, ZenonT(60)
  <2>2. \E y \in Nat : d = g * y
    BY <1>4 DEF Divides
  <2> QED
    BY <2>1, <2>2
<1>6. PICK x \in Int, y \in Nat : n = g * x /\ d = g * y
  BY <1>5
<1>7. n \div g = x /\ d \div g = y
  BY <1>4, <1>6, Exact
<1>8. y \in Positive
  BY <1>4, <1>6 DEF Positive
<1>9. x * (g * y) = (g * x) * y
  BY <1>4 DEF Positive
<1> QED
  BY <1>3, <1>6, <1>7, <1>8, <1>9 DEF Worth, Fraction

LEMMA NumberWorth ==
  ASSUME NEW n \in Int
  PROVE  Worth(Number(n), n, 1)
BY DEF Number, Worth, Fraction, Positive

\* Every fraction is worth what it says.
LEMMA ItsWorth ==
  ASSUME NEW p \in Fraction
  PROVE  p[1] \in Int /\ p[2] \in Positive /\ Worth(p, p[1], p[2])
BY DEF Worth, Fraction

\* What is worth as much as a number n / d is worth that.
LEMMA SameWorth ==
  ASSUME NEW p \in Fraction, NEW a \in Int, NEW b \in Positive, Worth(p, a, b),
         NEW c \in Int, NEW d \in Positive, a * d = c * b
  PROVE  Worth(p, c, d)
<1>1. p[1] \in Int /\ p[2] \in Positive /\ p[1] * b = a * p[2]
  BY ItsWorth DEF Worth
<1>2. (p[1] * d) * b = (c * p[2]) * b
  <2>1. (p[1] * d) * b = (p[1] * b) * d
    BY <1>1 DEF Positive
  <2>2. (a * p[2]) * d = (a * d) * p[2]
    BY <1>1 DEF Positive
  <2>3. (c * b) * p[2] = (c * p[2]) * b
    BY <1>1 DEF Positive
  <2> QED
    BY <1>1, <2>1, <2>2, <2>3
<1>3. p[1] * d \in Int /\ c * p[2] \in Int
  BY <1>1 DEF Positive
<1>4. p[1] * d = c * p[2]
  BY <1>2, <1>3, Cancel
<1> QED
  BY <1>4 DEF Worth

LEMMA Products ==
  ASSUME NEW x \in Int, NEW y \in Int, NEW z \in Int, NEW w \in Int
  PROVE  x * y \in Int /\ (x * y) * (z * w) = (x * z) * (y * w)
OBVIOUS

LEMMA Denominators ==
  ASSUME NEW x \in Positive, NEW y \in Positive
  PROVE  x * y \in Positive
BY DEF Positive

LEMMA TimesWorth ==
  ASSUME NEW p \in Fraction, NEW a \in Int, NEW b \in Positive, Worth(p, a, b),
         NEW q \in Fraction, NEW c \in Int, NEW d \in Positive, Worth(q, c, d)
  PROVE  Worth(Times(p, q), a * c, b * d)
<1>1. /\ p[1] \in Int /\ p[2] \in Positive /\ p[1] * b = a * p[2]
      /\ q[1] \in Int /\ q[2] \in Positive /\ q[1] * d = c * q[2]
  BY ItsWorth DEF Worth
<1> DEFINE n == p[1] * q[1]
           e == p[2] * q[2]
<1>2. n \in Int /\ e \in Positive /\ a * c \in Int /\ b * d \in Positive
  BY <1>1, Denominators
<1>3. Worth(Times(p, q), n, e)
  BY <1>2, Reduced DEF Times
<1>4. n * (b * d) = (a * c) * e
  <2>1. n * (b * d) = (p[1] * b) * (q[1] * d)
    BY <1>1, Products DEF Positive
  <2>2. (a * c) * e = (a * p[2]) * (c * q[2])
    BY <1>1, Products DEF Positive
  <2> QED
    BY <1>1, <2>1, <2>2
<1> HIDE DEF n, e
<1> QED
  BY <1>2, <1>3, <1>4, SameWorth DEF Worth

\* Sums and differences.
LEMMA AddedWorth ==
  ASSUME NEW p \in Fraction, NEW a \in Int, NEW b \in Positive, Worth(p, a, b),
         NEW q \in Fraction, NEW c \in Int, NEW d \in Positive, Worth(q, c, d)
  PROVE  /\ Worth(Plus(p, q), a * d + c * b, b * d)
         /\ Worth(Minus(p, q), a * d - c * b, b * d)
<1>1. /\ p[1] \in Int /\ p[2] \in Positive /\ p[1] * b = a * p[2]
      /\ q[1] \in Int /\ q[2] \in Positive /\ q[1] * d = c * q[2]
  BY ItsWorth DEF Worth
<1> DEFINE x == p[1] * q[2]
           y == q[1] * p[2]
           e == p[2] * q[2]
<1>2. /\ x \in Int /\ y \in Int /\ x + y \in Int /\ x - y \in Int
      /\ e \in Positive /\ b * d \in Positive
      /\ a * d \in Int /\ c * b \in Int
      /\ a * d + c * b \in Int /\ a * d - c * b \in Int
  BY <1>1, Denominators DEF Positive
<1>3. Worth(Plus(p, q), x + y, e) /\ Worth(Minus(p, q), x - y, e)
  BY <1>2, Reduced DEF Plus, Minus
<1>4. x * (b * d) = (a * d) * e
  <2>1. x * (b * d) = (p[1] * b) * (q[2] * d)
    BY <1>1, Products DEF Positive
  <2>2. (a * d) * e = (a * p[2]) * (d * q[2])
    BY <1>1, Products DEF Positive
  <2> QED
    BY <1>1, <2>1, <2>2 DEF Positive
<1>5. y * (b * d) = (c * b) * e
  <2>1. y * (b * d) = (q[1] * d) * (p[2] * b)
    BY <1>1 DEF Positive
  <2>2. (c * b) * e = (c * q[2]) * (b * p[2])
    BY <1>1 DEF Positive
  <2> QED
    BY <1>1, <2>1, <2>2 DEF Positive
<1> HIDE DEF x, y, e
<1>6. /\ (x + y) * (b * d) = (a * d + c * b) * e
      /\ (x - y) * (b * d) = (a * d - c * b) * e
  BY <1>2, <1>4, <1>5 DEF Positive
<1>7. Plus(p, q) \in Fraction /\ Minus(p, q) \in Fraction
  BY <1>3 DEF Worth
<1> QED
  BY <1>2, <1>3, <1>6, <1>7, SameWorth

LEMMA SameSign ==
  ASSUME NEW x \in Int, NEW y \in Int, NEW b \in Positive, NEW d \in Positive,
         x * d = y * b
  PROVE  (x > 0 <=> y > 0) /\ (x = 0 <=> y = 0) /\ (x < 0 <=> y < 0)
BY DEF Positive

LEMMA OverWorth ==
  ASSUME NEW p \in Fraction, NEW a \in Int, NEW b \in Positive, Worth(p, a, b),
         NEW q \in Fraction, NEW c \in Positive, NEW d \in Positive, Worth(q, c, d)
  PROVE  Worth(Over(p, q), a * d, b * c)
<1>1. /\ p[1] \in Int /\ p[2] \in Positive /\ p[1] * b = a * p[2]
      /\ q[1] \in Int /\ q[2] \in Positive /\ q[1] * d = c * q[2]
  BY ItsWorth DEF Worth
<1>2. q[1] \in Positive
  BY <1>1, SameSign DEF Positive
<1> DEFINE n == p[1] * q[2]
           e == p[2] * q[1]
<1>3. n \in Int /\ e \in Positive /\ a * d \in Int /\ b * c \in Positive
  BY <1>1, <1>2, Denominators DEF Positive
<1>4. Worth(Over(p, q), n, e)
  BY <1>2, <1>3, Reduced DEF Over, Positive
<1>5. n * (b * c) = (a * d) * e
  <2>1. n * (b * c) = (p[1] * b) * (q[2] * c)
    BY <1>1, Products DEF Positive
  <2>2. (a * d) * e = (a * p[2]) * (d * q[1])
    BY <1>1, Products DEF Positive
  <2> QED
    BY <1>1, <2>1, <2>2 DEF Positive
<1> HIDE DEF n, e
<1> QED
  BY <1>3, <1>4, <1>5, SameWorth DEF Worth

LEMMA Ordered ==
  ASSUME NEW x \in Int, NEW y \in Int, NEW k \in Positive
  PROVE  x * k <= y * k <=> x <= y
BY DEF Positive

LEMMA LeqWorth ==
  ASSUME NEW p \in Fraction, NEW a \in Int, NEW b \in Positive, Worth(p, a, b),
         NEW q \in Fraction, NEW c \in Int, NEW d \in Positive, Worth(q, c, d)
  PROVE  Leq(p, q) <=> a * d <= c * b
<1>1. /\ p[1] \in Int /\ p[2] \in Positive /\ p[1] * b = a * p[2]
      /\ q[1] \in Int /\ q[2] \in Positive /\ q[1] * d = c * q[2]
  BY ItsWorth DEF Worth
<1> DEFINE x == p[1] * q[2]
           y == q[1] * p[2]
           u == a * d
           v == c * b
           e == p[2] * q[2]
           f == b * d
<1>2. /\ x \in Int /\ y \in Int /\ u \in Int /\ v \in Int
      /\ e \in Positive /\ f \in Positive
  BY <1>1, Denominators DEF Positive
<1>3. x * f = u * e
  <2>1. x * f = (p[1] * b) * (q[2] * d)
    BY <1>1, Products DEF Positive
  <2>2. u * e = (a * p[2]) * (d * q[2])
    BY <1>1, Products DEF Positive
  <2> QED
    BY <1>1, <2>1, <2>2 DEF Positive
<1>4. y * f = v * e
  <2>1. y * f = (q[1] * d) * (p[2] * b)
    BY <1>1 DEF Positive
  <2>2. v * e = (c * q[2]) * (b * p[2])
    BY <1>1 DEF Positive
  <2> QED
    BY <1>1, <2>1, <2>2 DEF Positive
<1>5. Leq(p, q) <=> x <= y
  BY DEF Leq
<1> HIDE DEF x, y, u, v, e, f
<1>6. (x <= y <=> x * f <= y * f) /\ (u <= v <=> u * e <= v * e)
  BY <1>2, Ordered
<1> QED
  BY <1>3, <1>4, <1>5, <1>6 DEF u, v

-----------------------------------------------------------------------------
(* How far they reach *)

NotLess(p)   == p \in Fraction /\ p[1] >= 0
AtMost(p, k) == p \in Fraction /\ p[1] <= k * p[2]
Within(p, k) == NotLess(p) /\ AtMost(p, k)

LEMMA WithinLeq ==
  ASSUME NEW p \in Fraction, NEW k \in Nat
  PROVE  /\ Leq(Number(0), p) <=> NotLess(p)
         /\ Leq(p, Number(k)) <=> AtMost(p, k)
BY DEF Leq, Number, NotLess, AtMost, Fraction, Positive

LEMMA WithinWorth ==
  ASSUME NEW p \in Fraction, NEW n \in Int, NEW d \in Positive, Worth(p, n, d),
         NEW k \in Nat
  PROVE  Within(p, k) <=> 0 <= n /\ n <= k * d
<1>1. p[1] \in Int /\ p[2] \in Positive /\ p[1] * d = n * p[2]
  BY ItsWorth DEF Worth
<1>2. 0 <= p[1] <=> 0 <= n
  BY <1>1, SameSign
<1>3. k * p[2] \in Int /\ k * d \in Int /\ (k * p[2]) * d = (k * d) * p[2]
  BY <1>1 DEF Positive
<1>4. /\ p[1] * d <= (k * p[2]) * d <=> p[1] <= k * p[2]
      /\ n * p[2] <= (k * d) * p[2] <=> n <= k * d
  BY <1>1, <1>3, Ordered
<1> QED
  BY <1>1, <1>2, <1>3, <1>4 DEF Within, NotLess, AtMost

LEMMA Transitive ==
  ASSUME NEW p \in Fraction, NEW q \in Fraction, Leq(p, q), NEW k \in Nat
  PROVE  (NotLess(p) => NotLess(q)) /\ (AtMost(q, k) => AtMost(p, k))
<1>1. /\ p[1] \in Int /\ p[2] \in Positive
      /\ q[1] \in Int /\ q[2] \in Positive
      /\ p[1] * q[2] <= q[1] * p[2]
  BY DEF Leq, Fraction
<1>2. NotLess(p) => NotLess(q)
  BY <1>1 DEF NotLess, Positive
<1>3. ASSUME AtMost(q, k) PROVE AtMost(p, k)
  <2>1. /\ k * p[2] \in Int /\ k * q[2] \in Int
        /\ (k * q[2]) * p[2] = (k * p[2]) * q[2]
        /\ q[1] * p[2] \in Int /\ (k * p[2]) * q[2] \in Int
        /\ p[1] * q[2] \in Int
    BY <1>1 DEF Positive
  <2>2. q[1] * p[2] <= (k * q[2]) * p[2]
    BY <1>1, <1>3, <2>1, Ordered DEF AtMost
  <2>3. p[1] * q[2] <= (k * p[2]) * q[2]
    BY <1>1, <2>1, <2>2
  <2>4. p[1] <= k * p[2]
    BY <1>1, <2>1, <2>3, Ordered
  <2> QED
    BY <2>4 DEF AtMost
<1> QED
  BY <1>2, <1>3

LEMMA Total ==
  ASSUME NEW p \in Fraction, NEW q \in Fraction
  PROVE  Leq(p, q) \/ Leq(q, p)
BY DEF Leq, Fraction, Positive

LEMMA LeastIs ==
  ASSUME NEW p \in Fraction, NEW q \in Fraction, NEW k \in Nat
  PROVE  /\ Least(p, q) \in Fraction
         /\ NotLess(p) /\ NotLess(q) => NotLess(Least(p, q))
         /\ AtMost(p, k) \/ AtMost(q, k) => AtMost(Least(p, q), k)
BY Total, Transitive DEF Least

LEMMA MostIs ==
  ASSUME NEW p \in Fraction, NEW q \in Fraction, NEW k \in Nat
  PROVE  /\ Most(p, q) \in Fraction
         /\ NotLess(p) \/ NotLess(q) => NotLess(Most(p, q))
         /\ AtMost(p, k) /\ AtMost(q, k) => AtMost(Most(p, q), k)
BY Total, Transitive DEF Most

\* What is more than p and q is not less than they.
LEMMA MostBounds ==
  ASSUME NEW p \in Fraction, NEW q \in Fraction, NEW k \in Nat,
         AtMost(Most(p, q), k)
  PROVE  AtMost(p, k) /\ AtMost(q, k)
BY Total, Transitive DEF Most

LEMMA NumberReach ==
  ASSUME NEW k \in Nat, NEW m \in Nat, m <= k
  PROVE  Number(m) \in Fraction /\ Within(Number(m), k)
BY DEF Number, Within, NotLess, AtMost, Fraction, Positive

LEMMA ClipReaches ==
  ASSUME NEW k \in Nat, NEW p \in Fraction
  PROVE  Within(Clip(Number(0), Number(k), p), k)
<1>1. /\ Number(0) \in Fraction /\ Within(Number(0), k)
      /\ Number(k) \in Fraction /\ Within(Number(k), k)
  BY NumberReach
<1>2. Least(Number(k), p) \in Fraction /\ AtMost(Least(Number(k), p), k)
  BY <1>1, LeastIs DEF Within
<1> QED
  BY <1>1, <1>2, MostIs DEF Clip, Within

\* Sums, products and the like are fractions.
LEMMA Fractions ==
  ASSUME NEW p \in Fraction, NEW q \in Fraction
  PROVE  /\ Plus(p, q) \in Fraction /\ Minus(p, q) \in Fraction
         /\ Times(p, q) \in Fraction
         /\ q[1] # 0 => Over(p, q) \in Fraction
<1>1. /\ p[1] \in Int /\ p[2] \in Positive /\ Worth(p, p[1], p[2])
      /\ q[1] \in Int /\ q[2] \in Positive /\ Worth(q, q[1], q[2])
  BY ItsWorth
<1>2. CASE q[1] > 0
  <2>1. q[1] \in Positive
    BY <1>1, <1>2 DEF Positive
  <2> QED
    BY <1>1, <2>1, AddedWorth, TimesWorth, OverWorth DEF Worth
<1>3. CASE ~(q[1] > 0)
  <2>1. ASSUME q[1] # 0 PROVE Over(p, q) \in Fraction
    <3>1. -q[1] \in Positive /\ -p[1] \in Int
      BY <1>1, <1>3, <2>1 DEF Positive
    <3>2. (-p[1]) * q[2] \in Int /\ p[2] * (-q[1]) \in Positive
      BY <1>1, <3>1, Denominators DEF Positive
    <3>3. Over(p, q) = Q((-p[1]) * q[2], p[2] * (-q[1]))
      BY <1>3 DEF Over
    <3> QED
      BY <3>2, <3>3, Reduced DEF Worth
  <2> QED
    BY <1>1, <2>1, AddedWorth, TimesWorth DEF Worth
<1> QED
  BY <1>2, <1>3

LEMMA Scaled ==
  ASSUME NEW p, NEW j \in Nat, NEW k \in Nat, Within(p, j),
         NEW a \in Positive, NEW b \in Positive, j * a = k * b
  PROVE  Within(Times(p, <<a, b>>), k)
<1>1. p \in Fraction /\ <<a, b>> \in Fraction /\ Worth(<<a, b>>, a, b) /\ a \in Int
  BY DEF Within, NotLess, Fraction, Worth, Positive
<1>2. p[1] \in Int /\ p[2] \in Positive /\ Worth(p, p[1], p[2])
  BY <1>1, ItsWorth
<1>3. Worth(Times(p, <<a, b>>), p[1] * a, p[2] * b)
  BY <1>1, <1>2, TimesWorth
<1>4. 0 <= p[1] /\ p[1] <= j * p[2]
  BY DEF Within, NotLess, AtMost
<1>5. /\ p[1] * a \in Int /\ p[2] * b \in Positive /\ 0 <= p[1] * a
      /\ j * p[2] \in Int
  BY <1>2, <1>4 DEF Positive
<1>6. p[1] * a <= k * (p[2] * b)
  <2>1. p[1] * a <= (j * p[2]) * a
    BY <1>1, <1>2, <1>4, <1>5, Ordered
  <2>2. (j * p[2]) * a = (j * a) * p[2] /\ (k * b) * p[2] = k * (p[2] * b)
    BY <1>2 DEF Positive
  <2> QED
    BY <2>1, <2>2
<1> QED
  BY <1>3, <1>5, <1>6, WithinWorth DEF Worth

LEMMA Shrunk ==
  ASSUME NEW p, NEW q, NEW j \in Nat, Within(p, j), Within(q, 1)
  PROVE  Within(Times(p, q), j)
<1>1. p \in Fraction /\ q \in Fraction
  BY DEF Within, NotLess
<1>2. /\ p[1] \in Int /\ p[2] \in Positive /\ Worth(p, p[1], p[2])
      /\ q[1] \in Int /\ q[2] \in Positive /\ Worth(q, q[1], q[2])
  BY <1>1, ItsWorth
<1>3. Worth(Times(p, q), p[1] * q[1], p[2] * q[2])
  BY <1>1, <1>2, TimesWorth
<1>4. /\ 0 <= p[1] /\ p[1] <= j * p[2]
      /\ 0 <= q[1] /\ q[1] <= q[2]
  BY <1>2 DEF Within, NotLess, AtMost, Positive
<1>5. /\ p[1] * q[1] \in Int /\ p[2] * q[2] \in Positive /\ 0 <= p[1] * q[1]
      /\ j * p[2] \in Int
  BY <1>2, <1>4, Denominators DEF Positive
<1>6. p[1] * q[1] <= j * (p[2] * q[2])
  <2>1. p[1] * q[1] <= p[1] * q[2]
    BY <1>2, <1>4 DEF Positive
  <2>2. p[1] * q[2] <= (j * p[2]) * q[2]
    BY <1>2, <1>4, <1>5, Ordered
  <2>3. (j * p[2]) * q[2] = j * (p[2] * q[2])
    BY <1>2 DEF Positive
  <2>4. p[1] * q[2] \in Int /\ (j * p[2]) * q[2] \in Int
    BY <1>2, <1>5 DEF Positive
  <2> QED
    BY <1>5, <2>1, <2>2, <2>3, <2>4
<1> QED
  BY <1>3, <1>5, <1>6, WithinWorth DEF Worth

\* The difference of p and the integer n.
LEMMA Differences ==
  ASSUME NEW p \in Fraction, NEW n \in Int
  PROVE  /\ Worth(Minus(p, Number(n)), p[1] - n * p[2], p[2])
         /\ Worth(Minus(Number(n), p), n * p[2] - p[1], p[2])
<1>1. p[1] \in Int /\ p[2] \in Positive /\ Worth(p, p[1], p[2])
  BY ItsWorth
<1>2. Number(n) \in Fraction /\ Worth(Number(n), n, 1) /\ 1 \in Positive
  BY NumberWorth DEF Worth, Positive
<1>3. /\ Worth(Minus(p, Number(n)), p[1] * 1 - n * p[2], p[2] * 1)
      /\ Worth(Minus(Number(n), p), n * p[2] - p[1] * 1, 1 * p[2])
  BY <1>1, <1>2, AddedWorth
<1>4. p[1] * 1 = p[1] /\ p[2] * 1 = p[2] /\ 1 * p[2] = p[2]
  BY <1>1 DEF Positive
<1> QED
  BY <1>3, <1>4

LEMMA Rest ==
  ASSUME NEW p, Within(p, 1)
  PROVE  Within(Minus(Number(1), p), 1)
<1>1. p \in Fraction /\ 0 <= p[1] /\ p[1] <= 1 * p[2]
  BY DEF Within, NotLess, AtMost
<1>2. p[1] \in Int /\ p[2] \in Positive
  BY <1>1, ItsWorth
<1>3. Worth(Minus(Number(1), p), 1 * p[2] - p[1], p[2])
  BY <1>1, Differences
<1>4. /\ 1 * p[2] - p[1] \in Int /\ 0 <= 1 * p[2] - p[1]
      /\ 1 * p[2] - p[1] <= 1 * p[2]
  BY <1>1, <1>2 DEF Positive
<1> QED
  BY <1>2, <1>3, <1>4, WithinWorth DEF Worth

LEMMA Floored ==
  ASSUME NEW x \in Int, NEW y \in Positive
  PROVE  /\ x \div y \in Int
         /\ (x \div y) * y <= x /\ x < (x \div y) * y + y
BY DEF Positive

LEMMA FloorIs ==
  ASSUME NEW x \in Int, NEW y \in Positive, NEW i \in Int,
         i * y <= x, x < i * y + y
  PROVE  x \div y = i
<1> DEFINE k == x \div y
<1>1. k \in Int /\ k * y <= x /\ x < k * y + y
  BY Floored
<1> HIDE DEF k
<1>2. k * y \in Int /\ i * y \in Int
  BY <1>1 DEF Positive
<1>3. (k + 1) * y = k * y + y /\ (i + 1) * y = i * y + y
  BY <1>1 DEF Positive
<1>4. ~((k + 1) * y <= i * y) /\ ~((i + 1) * y <= k * y)
  BY <1>1, <1>2, <1>3 DEF Positive
<1>5. ~(k + 1 <= i) /\ ~(i + 1 <= k)
  BY <1>1, <1>4, Ordered
<1> QED
  BY <1>1, <1>5 DEF k

LEMMA RoundReaches ==
  ASSUME NEW p, NEW k \in Nat, Within(p, k)
  PROVE  Round(p) \in 0 .. k
<1>1. p \in Fraction /\ 0 <= p[1] /\ p[1] <= k * p[2]
  BY DEF Within, NotLess, AtMost
<1>2. p[1] \in Int /\ p[2] \in Positive
  BY <1>1, ItsWorth
<1> DEFINE x == 2 * p[1] + p[2]
           y == 2 * p[2]
           r == x \div y
<1>3. x \in Int /\ y \in Positive /\ k * p[2] \in Int
  BY <1>2 DEF Positive
<1>4. r \in Int /\ r * y <= x /\ x < r * y + y
  BY <1>3, Floored
<1>5. 0 < x /\ x < (k + 1) * y
  BY <1>1, <1>2 DEF Positive
<1>6. Round(p) = r
  BY DEF Round
<1> HIDE DEF x, y, r
<1>7. (r + 1) * y = r * y + y /\ r * y \in Int /\ (k + 1) * y \in Int
  BY <1>3, <1>4 DEF Positive
<1>8. ~((k + 1) * y <= r * y) /\ ~((r + 1) * y <= 0 * y)
  BY <1>3, <1>4, <1>5, <1>7 DEF Positive
<1>9. ~(k + 1 <= r) /\ ~(r + 1 <= 0)
  BY <1>3, <1>4, <1>8, Ordered
<1> QED
  BY <1>4, <1>6, <1>9

-----------------------------------------------------------------------------
(* The conversions *)

\* Colours as they should be.
InHSV(hsv) == Within(hsv[1], 360) /\ Within(hsv[2], 100) /\ Within(hsv[3], 100)
InRGB(c)   == \A i \in 1 .. 3 : Within(c[i], 255)

\* How far a hue is from the nearest of the six where one component is full.
LEMMA Between ==
  ASSUME NEW h \in Fraction
  PROVE  LET i == Floor(h) IN
           /\ i \in Int
           /\ Within(Minus(h, Number(i)), 1)
           /\ Within(Minus(Number(i + 1), h), 1)
<1> DEFINE i == Floor(h)
<1>1. h[1] \in Int /\ h[2] \in Positive
  BY ItsWorth
<1>2. i \in Int /\ i * h[2] <= h[1] /\ h[1] < i * h[2] + h[2]
  BY <1>1, Floored DEF Floor
<1> HIDE DEF i
<1>3. /\ Worth(Minus(h, Number(i)), h[1] - i * h[2], h[2])
      /\ Worth(Minus(Number(i + 1), h), (i + 1) * h[2] - h[1], h[2])
  BY <1>2, Differences
<1>4. (i + 1) * h[2] = i * h[2] + h[2] /\ i * h[2] \in Int /\ 1 * h[2] = h[2]
  BY <1>1, <1>2 DEF Positive
<1>5. /\ h[1] - i * h[2] \in Int /\ 0 <= h[1] - i * h[2]
      /\ h[1] - i * h[2] <= 1 * h[2]
      /\ (i + 1) * h[2] - h[1] \in Int /\ 0 <= (i + 1) * h[2] - h[1]
      /\ (i + 1) * h[2] - h[1] <= 1 * h[2]
  BY <1>1, <1>2, <1>4 DEF Positive
<1>6. /\ Minus(h, Number(i)) \in Fraction
      /\ Minus(Number(i + 1), h) \in Fraction
  BY <1>3 DEF Worth
<1>7. Within(Minus(h, Number(i)), 1) /\ Within(Minus(Number(i + 1), h), 1)
  BY <1>1, <1>3, <1>5, <1>6, WithinWorth
<1> QED
  BY <1>2, <1>7 DEF i

LEMMA Ratios ==
  ASSUME NEW a \in Positive, NEW b \in Positive
  PROVE  <<a, b>> \in Fraction /\ Worth(<<a, b>>, a, b)
BY DEF Fraction, Worth, Positive

\* Whatever the hue, saturation and value, the colour is one of 0 to 255.
LEMMA RGBReaches ==
  ASSUME NEW hsv, InHSV(hsv)
  PROVE  InRGB(HSV_RGB(hsv))
<1> DEFINE u == Times(hsv[3], <<51, 20>>)
           h == Times(hsv[1], <<1, 60>>)
           s == Times(hsv[2], <<1, 100>>)
           i == Floor(h)
           f == IF i % 2 = 1 THEN Minus(h, Number(i))
                ELSE Minus(Number(i + 1), h)
           m == Times(u, Minus(Number(1), s))
           n == Times(u, Minus(Number(1), Times(s, f)))
           six == << <<u, n, m>>, <<n, u, m>>, <<m, u, n>>,
                     <<m, n, u>>, <<n, m, u>>, <<u, m, n>> >>
<1>1. Within(u, 255)
  BY Scaled DEF InHSV, Positive
<1>2. Within(s, 1)
  BY Scaled DEF InHSV, Positive
<1>3. h \in Fraction
  <2>1. hsv[1] \in Fraction
    BY DEF InHSV, Within, NotLess
  <2> QED
    BY <2>1, Ratios, Fractions DEF Positive
<1>4. HSV_RGB(hsv) = six[(i % 6) + 1]
  BY DEF HSV_RGB
<1>5. i \in Int /\ Within(f, 1)
  <2> HIDE DEF h
  <2> QED
    BY <1>3, Between
<1> HIDE DEF u, s, i, f
<1>6. Within(m, 255)
  BY <1>1, <1>2, Rest, Shrunk
<1>7. Within(n, 255)
  BY <1>1, <1>2, <1>5, Rest, Shrunk
<1> HIDE DEF m, n
<1>8. (i % 6) + 1 \in 1 .. 6
  BY <1>5
<1>9. \A k \in 1 .. 6 : InRGB(six[k])
  BY <1>1, <1>6, <1>7 DEF InRGB
<1> QED
  BY <1>4, <1>8, <1>9

\* The parts of a colour: hue, saturation and value can be computed.
LEMMA HSVFractions ==
  ASSUME NEW c, InRGB(c)
  PROVE  \A i \in 1 .. 3 : RGB_HSV(c)[i] \in Fraction
<1> DEFINE n == Least(Least(c[1], c[2]), c[3])
           v == Most(Most(c[1], c[2]), c[3])
           m == Minus(v, n)
           h == IF c[1] = n THEN Plus(Number(3), Over(Minus(c[3], c[2]), m))
                ELSE IF c[2] = n THEN Plus(Number(5), Over(Minus(c[1], c[3]), m))
                ELSE Plus(Number(1), Over(Minus(c[2], c[1]), m))
<1>1. /\ c[1] \in Fraction /\ c[2] \in Fraction /\ c[3] \in Fraction
      /\ NotLess(c[1]) /\ NotLess(c[2]) /\ NotLess(c[3])
  BY DEF InRGB, Within, NotLess
<1>2. n \in Fraction /\ v \in Fraction /\ NotLess(n) /\ NotLess(v)
  <2>1. Least(c[1], c[2]) \in Fraction /\ NotLess(Least(c[1], c[2]))
    BY <1>1, LeastIs
  <2>2. Most(c[1], c[2]) \in Fraction /\ NotLess(Most(c[1], c[2]))
    BY <1>1, MostIs
  <2> QED
    BY <1>1, <2>1, <2>2, LeastIs, MostIs
<1>3. ASSUME v[1] = 0 PROVE n[1] = 0
  <2>1. v[2] \in Positive /\ AtMost(v, 0)
    BY <1>2, <1>3, ItsWorth DEF AtMost, Positive
  <2>2. AtMost(c[3], 0)
    <3>1. Most(c[1], c[2]) \in Fraction
      BY <1>1, MostIs
    <3> HIDE DEF n, m, h
    <3> QED
      BY <1>1, <2>1, <3>1, MostBounds
  <2>3. AtMost(n, 0)
    BY <1>1, <2>2, LeastIs
  <2>4. n[1] \in Int /\ n[2] \in Positive /\ n[1] <= 0 * n[2] /\ n[1] >= 0
    BY <1>2, <2>3, ItsWorth DEF AtMost, NotLess
  <2> QED
    BY <2>4 DEF Positive
<1>4. m \in Fraction
  BY <1>2, Fractions
<1>5. ASSUME v[1] = 0 PROVE m[1] = 0
  <2>1. n[1] = 0
    BY <1>3, <1>5
  <2>2. /\ Worth(v, 0, v[2]) /\ v[2] \in Positive
        /\ Worth(n, 0, n[2]) /\ n[2] \in Positive
    BY <1>2, <1>5, <2>1, ItsWorth
  <2>3. Worth(m, 0 * n[2] - 0 * v[2], v[2] * n[2])
    BY <1>2, <2>2, AddedWorth
  <2>4. v[2] * n[2] \in Positive /\ 0 * n[2] - 0 * v[2] = 0
    BY <2>2, Denominators DEF Positive
  <2>5. m[1] \in Int /\ m[2] \in Positive /\ m[1] * (v[2] * n[2]) = 0 * m[2]
    BY <1>4, <2>3, <2>4, ItsWorth DEF Worth
  <2> QED
    BY <2>4, <2>5, SameSign
<1>6. Number(0) \in Fraction /\ NoHue \in Fraction /\ Number(60) \in Fraction
      /\ Number(100) \in Fraction
      /\ Number(1) \in Fraction /\ Number(3) \in Fraction /\ Number(5) \in Fraction
  BY DEF Number, NoHue, Fraction, Positive
<1>7. Times(v, <<20, 51>>) \in Fraction
  BY <1>2, Ratios, Fractions DEF Positive
<1>8. CASE m[1] = 0
  <2>1. RGB_HSV(c) = <<NoHue, Number(0), Times(v, <<20, 51>>)>>
    BY <1>8 DEF RGB_HSV
  <2> QED
    BY <1>6, <1>7, <2>1
<1>9. CASE m[1] # 0
  <2>1. RGB_HSV(c) = <<Times(Number(60), IF h = Number(6) THEN Number(0) ELSE h),
                       Times(Number(100), Over(m, v)), Times(v, <<20, 51>>)>>
    BY <1>9 DEF RGB_HSV
  <2>2. h \in Fraction
    <3> HIDE DEF n, m
    <3>1. /\ Over(Minus(c[3], c[2]), m) \in Fraction
          /\ Over(Minus(c[1], c[3]), m) \in Fraction
          /\ Over(Minus(c[2], c[1]), m) \in Fraction
      BY <1>1, <1>4, <1>9, Fractions
    <3> QED
      BY <1>6, <3>1, Fractions
  <2>3. Over(m, v) \in Fraction
    <3> HIDE DEF m, v
    <3> QED
      BY <1>2, <1>4, <1>5, <1>9, Fractions
  <2> HIDE DEF h, m, v
  <2>4. /\ Times(Number(60), IF h = Number(6) THEN Number(0) ELSE h) \in Fraction
        /\ Times(Number(100), Over(m, v)) \in Fraction
    BY <1>6, <2>2, <2>3, Fractions
  <2> QED
    BY <1>7, <2>1, <2>4 DEF v
<1> QED
  BY <1>8, <1>9

LEMMA LimitsReach ==
  ASSUME NEW lim, LimitsOK(lim)
  PROVE  /\ Within(lim.minS, 100) /\ Within(lim.minV, 100)
         /\ lim.maxS \in Fraction /\ lim.maxV \in Fraction
BY WithinLeq DEF LimitsOK, Within

LEMMA LeastOfThree ==
  ASSUME NEW p \in Fraction, NEW q \in Fraction
  PROVE  LET r == Least(Least(Number(100), p), q) IN r \in Fraction /\ AtMost(r, 100)
<1>1. Number(100) \in Fraction /\ Within(Number(100), 100)
  BY NumberReach
<1>2. Least(Number(100), p) \in Fraction /\ AtMost(Least(Number(100), p), 100)
  BY <1>1, LeastIs DEF Within
<1> QED
  BY <1>2, LeastIs

\* Brought into range, either way.
LEMMA LimitReaches ==
  ASSUME NEW min, NEW max \in Fraction, NEW p \in Fraction, Within(min, 100)
  PROVE  LET r == Least(Least(Number(100), max), p) IN
           /\ Within(Most(Most(Number(0), r), min), 100)
           /\ Within(Most(Most(Number(0), min), r), 100)
<1> DEFINE r == Least(Least(Number(100), max), p)
<1>1. r \in Fraction /\ AtMost(r, 100)
  BY LeastOfThree
<1> HIDE DEF r
<1>2. /\ Number(0) \in Fraction /\ NotLess(Number(0)) /\ AtMost(Number(0), 100)
      /\ min \in Fraction /\ NotLess(min) /\ AtMost(min, 100)
  BY NumberReach DEF Within, NotLess
<1>3. /\ Most(Number(0), r) \in Fraction /\ NotLess(Most(Number(0), r))
      /\ AtMost(Most(Number(0), r), 100)
      /\ Most(Number(0), min) \in Fraction /\ NotLess(Most(Number(0), min))
      /\ AtMost(Most(Number(0), min), 100)
  BY <1>1, <1>2, MostIs
<1>4. /\ Within(Most(Most(Number(0), r), min), 100)
      /\ Within(Most(Most(Number(0), min), r), 100)
  BY <1>1, <1>2, <1>3, MostIs DEF Within
<1> QED
  BY <1>4 DEF r

\* Whatever is asked of a picker, its colour stays in range.
LEMMA FromHSVReaches ==
  ASSUME NEW lim, LimitsOK(lim), NEW hsv, InHSV(hsv),
         NEW h \in Fraction \cup {Keep}, NEW s \in Fraction \cup {Keep},
         NEW v \in Fraction \cup {Keep}
  PROVE  InHSV(fromHSV(lim, hsv, h, s, v))
<1> DEFINE new == fromHSV(lim, hsv, h, s, v)
<1>1. Within(new[1], 360)
  BY ClipReaches DEF InHSV, fromHSV
<1> DEFINE s1 == Most(Most(Number(0), Least(Least(Number(100), lim.maxS), s)), lim.minS)
           v1 == Most(Most(Number(0), Least(Least(Number(100), lim.maxV), v)), lim.minV)
<1>4. /\ new[2] = IF s = Keep THEN hsv[2] ELSE s1
      /\ new[3] = IF v = Keep THEN hsv[3] ELSE v1
  BY DEF fromHSV
<1>5. /\ s # Keep => Within(s1, 100)
      /\ v # Keep => Within(v1, 100)
  BY LimitReaches, LimitsReach, ZenonT(60)
<1> HIDE DEF s1, v1, new
<1>2. Within(new[2], 100)
  BY <1>4, <1>5 DEF InHSV
<1>3. Within(new[3], 100)
  BY <1>4, <1>5 DEF InHSV
<1>6. InHSV(new)
  BY <1>1, <1>2, <1>3 DEF InHSV
<1> QED
  BY <1>6 DEF new

LEMMA FromRGBReaches ==
  ASSUME NEW lim, LimitsOK(lim), NEW hsv, InHSV(hsv),
         NEW c, \A i \in 1 .. 3 : c[i] \in Fraction
  PROVE  InHSV(fromRGB(lim, hsv, c))
<1> DEFINE clipped == [i \in 1 .. 3 |-> Clip(Number(0), Number(255), c[i])]
           part == RGB_HSV(clipped)
           new == fromRGB(lim, hsv, c)
<1>1. InRGB(clipped)
  BY ClipReaches DEF InRGB
<1> HIDE DEF clipped
<1>2. part[1] \in Fraction /\ part[2] \in Fraction /\ part[3] \in Fraction
  BY <1>1, HSVFractions
<1>3. new = <<IF part[1] = NoHue THEN hsv[1] ELSE Clip(Number(0), Number(360), part[1]),
              IF part[3] = Number(0) THEN hsv[2]
              ELSE Most(Most(Number(0), lim.minS),
                        Least(Least(Number(100), lim.maxS), part[2])),
              Most(Most(Number(0), lim.minV),
                   Least(Least(Number(100), lim.maxV), part[3]))>>
  BY DEF fromRGB, clipped
<1> HIDE DEF part, new
<1>4. Within(new[1], 360)
  BY <1>2, <1>3, ClipReaches DEF InHSV
<1> DEFINE s1 == Most(Most(Number(0), lim.minS),
                      Least(Least(Number(100), lim.maxS), part[2]))
           v1 == Most(Most(Number(0), lim.minV),
                      Least(Least(Number(100), lim.maxV), part[3]))
<1>8. Within(s1, 100) /\ Within(v1, 100)
  BY <1>2, LimitReaches, LimitsReach, ZenonT(60)
<1>9. new[2] \in {hsv[2], s1} /\ new[3] = v1
  BY <1>3
<1> HIDE DEF s1, v1
<1>5. Within(new[2], 100)
  BY <1>8, <1>9 DEF InHSV
<1>6. Within(new[3], 100)
  BY <1>8, <1>9
<1>7. InHSV(new)
  BY <1>4, <1>5, <1>6 DEF InHSV
<1> QED
  BY <1>7 DEF new

-----------------------------------------------------------------------------
(* There and back again *)

\* Worth n / d, for numbers as they should be.
LEMMA RoundIs ==
  ASSUME NEW p, NEW k \in Int, Worth(p, k, 1)
  PROVE  Round(p) = k
<1>1. p[1] \in Int /\ p[2] \in Positive /\ p[1] = k * p[2]
  BY ItsWorth DEF Worth
<1> DEFINE y == 2 * p[2]
<1>2. y \in Positive /\ 2 * p[1] + p[2] = k * y + p[2]
  BY <1>1 DEF Positive
<1>3. k * y <= k * y + p[2] /\ k * y + p[2] < k * y + y
  BY <1>1, <1>2 DEF Positive
<1>4. k * y + p[2] \in Int
  BY <1>1, <1>2 DEF Positive
<1>5. Round(p) = (k * y + p[2]) \div y
  BY <1>2 DEF Round
<1> HIDE DEF y
<1> QED
  BY <1>2, <1>3, <1>4, <1>5, FloorIs

\* Whole numbers are compared as they are.
LEMMA NumberOrder ==
  ASSUME NEW a \in Int, NEW b \in Int
  PROVE  /\ Least(Number(a), Number(b)) = Number(IF a <= b THEN a ELSE b)
         /\ Most(Number(a), Number(b)) = Number(IF a <= b THEN b ELSE a)
         /\ Number(a) = Number(b) <=> a = b
BY DEF Leq, Number, Least, Most

LEMMA NumberClip ==
  ASSUME NEW k \in Nat, NEW a \in 0 .. k
  PROVE  Clip(Number(0), Number(k), Number(a)) = Number(a)
<1>1. Least(Number(k), Number(a)) = Number(a)
  BY NumberOrder
<1>2. Most(Number(0), Number(a)) = Number(a)
  BY NumberOrder
<1> QED
  BY <1>1, <1>2 DEF Clip

\* What is in range is worth the same when it was brought into it.
LEMMA ClipSame ==
  ASSUME NEW p, NEW n \in Int, NEW d \in Positive, Worth(p, n, d),
         NEW k \in Nat, 0 <= n, n <= k * d
  PROVE  Worth(Clip(Number(0), Number(k), p), n, d)
<1>1. p \in Fraction /\ Within(p, k)
  BY WithinWorth DEF Worth
<1>2. p[1] \in Int /\ p[2] \in Positive /\ p[1] * d = n * p[2]
  BY <1>1, ItsWorth DEF Worth
<1>3. Number(k) \in Fraction /\ Within(Number(k), k) /\ Number(0) \in Fraction
  BY NumberReach
<1> DEFINE q == Least(Number(k), p)
<1>4. Worth(q, n, d)
  <2>1. CASE Leq(Number(k), p)
    <3>1. k * p[2] <= p[1] * 1
      BY <2>1 DEF Leq, Number
    <3>2. p[1] <= k * p[2]
      BY <1>1 DEF Within, AtMost
    <3>3. k * p[2] \in Int /\ k * d \in Int /\ p[1] = k * p[2]
      BY <1>2, <3>1, <3>2 DEF Positive
    <3>4. (k * d) * p[2] = n * p[2]
      BY <1>2, <3>3 DEF Positive
    <3>5. k * d = n
      BY <1>2, <3>3, <3>4, Cancel
    <3>6. Number(k)[1] * d = n * Number(k)[2]
      BY <3>5 DEF Number
    <3> QED
      BY <1>3, <2>1, <3>6 DEF Worth, Least
  <2>2. CASE ~Leq(Number(k), p)
    BY <2>2 DEF Least
  <2> QED
    BY <2>1, <2>2
<1>5. q \in Fraction /\ NotLess(q)
  BY <1>1, <1>3, LeastIs DEF Within
<1> HIDE DEF q
<1>6. Leq(Number(0), q)
  BY <1>5, WithinLeq
<1> QED
  BY <1>4, <1>6 DEF Clip, Most, q

\* What is left of v if a share e / v of it is taken away.
LEMMA Remains ==
  ASSUME NEW v \in Positive, NEW e \in Int, NEW u, Worth(u, v, 1),
         NEW q, Worth(q, e, v)
  PROVE  Worth(Times(u, Minus(Number(1), q)), v - e, 1)
<1> DEFINE r == Minus(Number(1), q)
<1>1. /\ v \in Int /\ u \in Fraction /\ q \in Fraction /\ Number(1) \in Fraction
      /\ Worth(Number(1), 1, 1) /\ 1 \in Positive
  BY NumberWorth DEF Worth, Positive
<1>2. Worth(r, 1 * v - e * 1, 1 * v)
  BY <1>1, AddedWorth
<1>3. 1 * v - e * 1 = v - e /\ 1 * v = v /\ v - e \in Int
  BY <1>1
<1>4. r \in Fraction /\ Worth(r, v - e, v)
  BY <1>2, <1>3 DEF Worth
<1> HIDE DEF r
<1>5. Worth(Times(u, r), v * (v - e), 1 * v)
  BY <1>1, <1>3, <1>4, TimesWorth
<1>6. v * (v - e) \in Int /\ (v * (v - e)) * 1 = (v - e) * (1 * v)
  BY <1>1, <1>3
<1>7. Times(u, r) \in Fraction
  BY <1>5 DEF Worth
<1>8. Worth(Times(u, r), v - e, 1)
  BY <1>1, <1>3, <1>5, <1>6, <1>7, SameWorth
<1> QED
  BY <1>8 DEF r

\* Hue i + e / m of six: the component between the least and the most.
LEMMA Floors ==
  ASSUME NEW m \in Positive, NEW i \in Int, NEW e \in Int, 0 <= e, e < m,
         NEW h, Worth(h, i * m + e, m)
  PROVE  Floor(h) = i
<1>1. /\ h \in Fraction /\ h[1] \in Int /\ h[2] \in Positive
      /\ h[1] * m = (i * m + e) * h[2]
  BY ItsWorth DEF Worth
<1>2. /\ i * h[2] \in Int /\ e * h[2] \in Int /\ i * h[2] + h[2] \in Int
      /\ (i * h[2]) * m \in Int /\ m * h[2] \in Int
      /\ (i * m + e) * h[2] = (i * h[2]) * m + e * h[2]
      /\ (i * h[2] + h[2]) * m = (i * h[2]) * m + m * h[2]
  BY <1>1 DEF Positive
<1>3. 0 <= e * h[2] /\ ~(m * h[2] <= e * h[2])
  <2>1. 0 * h[2] <= e * h[2] /\ ~(m * h[2] <= e * h[2])
    BY <1>1, Ordered DEF Positive
  <2> QED
    BY <1>1, <2>1 DEF Positive
<1>4. (i * h[2]) * m <= h[1] * m /\ ~((i * h[2] + h[2]) * m <= h[1] * m)
  BY <1>1, <1>2, <1>3
<1>5. i * h[2] <= h[1] /\ ~(i * h[2] + h[2] <= h[1])
  BY <1>1, <1>2, <1>4, Ordered
<1>6. h[1] < i * h[2] + h[2]
  BY <1>1, <1>2, <1>5
<1> QED
  BY <1>1, <1>5, <1>6, FloorIs DEF Floor

\* The same colours, of levels 0 to 255 and hue i + e / m.
Levels(v, m, i, e) ==
  LET n == v - (IF i % 2 = 1 THEN e ELSE m - e)
  IN  << <<v, n, v - m>>, <<n, v, v - m>>, <<v - m, v, n>>,
         <<v - m, n, v>>, <<n, v - m, v>>, <<v, v - m, n>> >>[(i % 6) + 1]

\* The share f of the way from hue i, or to i + 1, is what is mixed.
LEMMA Shares ==
  ASSUME NEW m \in Positive, NEW i \in Int, NEW e \in Int,
         NEW h, Worth(h, i * m + e, m)
  PROVE  /\ Worth(Minus(h, Number(i)), e, m)
         /\ Worth(Minus(Number(i + 1), h), m - e, m)
<1> DEFINE k == i * m + e
<1>1. m \in Int /\ k \in Int /\ h \in Fraction
  BY DEF Worth, Positive
<1>2. /\ Number(i) \in Fraction /\ Worth(Number(i), i, 1)
      /\ Number(i + 1) \in Fraction /\ Worth(Number(i + 1), i + 1, 1)
      /\ 1 \in Positive /\ i + 1 \in Int
  BY NumberWorth DEF Worth, Positive
<1>3. k * 1 - i * m = e /\ (i + 1) * m - k * 1 = m - e /\ m * 1 = m /\ 1 * m = m
  BY <1>1
<1> HIDE DEF k
<1>4. Worth(Minus(h, Number(i)), k * 1 - i * m, m * 1)
  BY <1>1, <1>2, AddedWorth DEF k
<1>5. Worth(Minus(Number(i + 1), h), (i + 1) * m - k * 1, 1 * m)
  BY <1>1, <1>2, AddedWorth DEF k
<1> QED
  BY <1>3, <1>4, <1>5

LEMMA Mixed ==
  ASSUME NEW v \in Positive, NEW m \in Positive,
         NEW s, Worth(s, m, v), NEW f, NEW e \in Int, Worth(f, e, m)
  PROVE  Worth(Times(s, f), e, v)
<1>1. /\ m \in Int /\ v \in Int /\ s \in Fraction /\ f \in Fraction
      /\ m * e \in Int /\ v * m \in Positive
      /\ (m * e) * v = e * (v * m)
  BY Denominators DEF Worth, Positive
<1>2. Worth(Times(s, f), m * e, v * m)
  BY <1>1, TimesWorth
<1>3. Times(s, f) \in Fraction
  BY <1>2 DEF Worth
<1> QED
  BY <1>1, <1>2, <1>3, SameWorth

\* A colour of that hue, saturation m / v and value v has these levels.
LEMMA Assembled ==
  ASSUME NEW v \in Positive, NEW m \in Positive, NEW i \in Int,
         NEW e \in Int, 0 <= e, e < m, NEW hsv,
         Worth(Times(hsv[3], <<51, 20>>), v, 1),
         Worth(Times(hsv[2], <<1, 100>>), m, v),
         Worth(Times(hsv[1], <<1, 60>>), i * m + e, m)
  PROVE  \A j \in 1 .. 3 : Worth(HSV_RGB(hsv)[j], Levels(v, m, i, e)[j], 1)
<1> DEFINE u == Times(hsv[3], <<51, 20>>)
           h == Times(hsv[1], <<1, 60>>)
           s == Times(hsv[2], <<1, 100>>)
           k == Floor(h)
           f == IF k % 2 = 1 THEN Minus(h, Number(k))
                ELSE Minus(Number(k + 1), h)
           mm == Times(u, Minus(Number(1), s))
           nn == Times(u, Minus(Number(1), Times(s, f)))
           six == << <<u, nn, mm>>, <<nn, u, mm>>, <<mm, u, nn>>,
                     <<mm, nn, u>>, <<nn, mm, u>>, <<u, mm, nn>> >>
           d == IF i % 2 = 1 THEN e ELSE m - e
           n == v - d
           levels == << <<v, n, v - m>>, <<n, v, v - m>>, <<v - m, v, n>>,
                        <<v - m, n, v>>, <<n, v - m, v>>, <<v, v - m, n>> >>
<1>1. HSV_RGB(hsv) = six[(k % 6) + 1]
  BY DEF HSV_RGB
<1>2. Levels(v, m, i, e) = levels[(i % 6) + 1]
  BY DEF Levels
<1>3. Worth(u, v, 1) /\ Worth(s, m, v) /\ Worth(h, i * m + e, m)
  OBVIOUS
<1> HIDE DEF u, h, s
<1>4. k = i
  BY <1>3, Floors
<1>5. Worth(f, d, m) /\ d \in Int
  <2>1. /\ Worth(Minus(h, Number(i)), e, m)
        /\ Worth(Minus(Number(i + 1), h), m - e, m)
    BY <1>3, Shares
  <2>2. d \in Int
    BY DEF Positive
  <2> HIDE DEF k
  <2> QED
    BY <1>4, <2>1, <2>2
<1> HIDE DEF k, f, d
<1>6. Worth(nn, n, 1)
  <2>1. Worth(Times(s, f), d, v)
    BY <1>3, <1>5, Mixed
  <2> QED
    BY <1>3, <1>5, <2>1, Remains
<1>7. Worth(mm, v - m, 1)
  BY <1>3, Remains DEF Positive
<1> HIDE DEF nn, mm, n
<1>8. \A j \in 1 .. 6 : \A l \in 1 .. 3 : Worth(six[j][l], levels[j][l], 1)
  BY <1>3, <1>6, <1>7
<1>9. (i % 6) + 1 \in 1 .. 6
  OBVIOUS
<1> QED
  BY <1>1, <1>2, <1>4, <1>8, <1>9

\* The least n and the most v of three levels, which are not all the same.
Extremes(r, g, b, n, v) ==
  /\ r \in 0 .. 255 /\ g \in 0 .. 255 /\ b \in 0 .. 255
  /\ n \in {r, g, b} /\ n <= r /\ n <= g /\ n <= b
  /\ v \in {r, g, b} /\ r <= v /\ g <= v /\ b <= v
  /\ n < v

LEMMA Extremal ==
  ASSUME NEW r \in 0 .. 255, NEW g \in 0 .. 255, NEW b \in 0 .. 255,
         ~(r = g /\ g = b)
  PROVE  \E n, v \in 0 .. 255 : Extremes(r, g, b, n, v)
<1>1. PICK n \in {r, g, b} : n <= r /\ n <= g /\ n <= b
  OBVIOUS
<1>2. PICK v \in {r, g, b} : r <= v /\ g <= v /\ b <= v
  OBVIOUS
<1>3. n < v
  BY <1>1, <1>2
<1>4. Extremes(r, g, b, n, v) /\ n \in 0 .. 255 /\ v \in 0 .. 255
  BY <1>1, <1>2, <1>3 DEF Extremes
<1> QED
  BY <1>4

\* m times the hue of six that RGB_HSV computes.
HueTimes(r, g, b, n, m) ==
  IF r = n THEN 3 * m + (b - g)
  ELSE IF g = n THEN 5 * m + (r - b) ELSE 1 * m + (g - r)

\* In each sextant the levels are put together as they were taken apart.
LEMMA Sextants ==
  ASSUME NEW r, NEW g, NEW b, NEW n, NEW v, Extremes(r, g, b, n, v),
         NEW m, m = v - n, NEW k, k = HueTimes(r, g, b, n, m)
  PROVE  /\ \E i \in 0 .. 6 : \E e \in 0 .. m - 1 :
              k = i * m + e /\ Levels(v, m, i, e) = <<r, g, b>>
         /\ k = 6 * m => Levels(v, m, 0, 0) = <<r, g, b>>
         /\ 0 <= k /\ k <= 6 * m
<1>1. /\ r \in Int /\ g \in Int /\ b \in Int /\ n \in Int /\ v \in Int
      /\ m \in Int /\ 0 < m
  BY DEF Extremes
<1>2. CASE r = n /\ g <= b /\ b - g < m
  <2>1. v = b /\ k = 3 * m + (b - g) /\ b - g \in 0 .. m - 1
    BY <1>1, <1>2 DEF Extremes, HueTimes
  <2>2. Levels(v, m, 3, b - g) = <<r, g, b>>
    BY <1>1, <1>2, <2>1 DEF Levels
  <2> QED
    BY <1>1, <2>1, <2>2
<1>3. CASE r = n /\ g <= b /\ ~(b - g < m)
  <2>1. v = b /\ g = n /\ k = 4 * m + 0 /\ 0 \in 0 .. m - 1
    BY <1>1, <1>3 DEF Extremes, HueTimes
  <2>2. Levels(v, m, 4, 0) = <<r, g, b>>
    BY <1>1, <1>3, <2>1 DEF Levels
  <2> QED
    BY <1>1, <2>1, <2>2
<1>4. CASE r = n /\ b < g
  <2>1. v = g /\ k = 2 * m + (m - (g - b)) /\ m - (g - b) \in 0 .. m - 1
    BY <1>1, <1>4 DEF Extremes, HueTimes
  <2>2. Levels(v, m, 2, m - (g - b)) = <<r, g, b>>
    BY <1>1, <1>4, <2>1 DEF Levels
  <2> QED
    BY <1>1, <2>1, <2>2
<1>5. CASE r # n /\ g = n /\ b <= r /\ r - b < m
  <2>1. v = r /\ k = 5 * m + (r - b) /\ r - b \in 0 .. m - 1
    BY <1>1, <1>5 DEF Extremes, HueTimes
  <2>2. Levels(v, m, 5, r - b) = <<r, g, b>>
    BY <1>1, <1>5, <2>1 DEF Levels
  <2> QED
    BY <1>1, <2>1, <2>2
<1>6. CASE r # n /\ g = n /\ b <= r /\ ~(r - b < m)
  <2>1. v = r /\ b = n /\ k = 6 * m + 0 /\ 0 \in 0 .. m - 1
    BY <1>1, <1>6 DEF Extremes, HueTimes
  <2>2. Levels(v, m, 6, 0) = <<r, g, b>> /\ Levels(v, m, 0, 0) = <<r, g, b>>
    BY <1>1, <1>6, <2>1 DEF Levels
  <2> QED
    BY <1>1, <2>1, <2>2
<1>7. CASE r # n /\ g = n /\ r < b
  <2>1. v = b /\ k = 4 * m + (m - (b - r)) /\ m - (b - r) \in 0 .. m - 1
    BY <1>1, <1>7 DEF Extremes, HueTimes
  <2>2. Levels(v, m, 4, m - (b - r)) = <<r, g, b>>
    BY <1>1, <1>7, <2>1 DEF Levels
  <2> QED
    BY <1>1, <2>1, <2>2
<1>8. CASE r # n /\ g # n /\ r <= g
  <2>1. v = g /\ b = n /\ k = 1 * m + (g - r) /\ g - r \in 0 .. m - 1
    BY <1>1, <1>8 DEF Extremes, HueTimes
  <2>2. Levels(v, m, 1, g - r) = <<r, g, b>>
    BY <1>1, <1>8, <2>1 DEF Levels
  <2> QED
    BY <1>1, <2>1, <2>2
<1>9. CASE r # n /\ g # n /\ g < r
  <2>1. v = r /\ b = n /\ k = 0 * m + (m - (r - g)) /\ m - (r - g) \in 0 .. m - 1
    BY <1>1, <1>9 DEF Extremes, HueTimes
  <2>2. Levels(v, m, 0, m - (r - g)) = <<r, g, b>>
    BY <1>1, <1>9, <2>1 DEF Levels
  <2> QED
    BY <1>1, <2>1, <2>2
<1>10. 0 <= k /\ k <= 6 * m
  BY <1>1 DEF Extremes, HueTimes
<1> QED
  BY <1>1, <1>2, <1>3, <1>4, <1>5, <1>6, <1>7, <1>8, <1>9, <1>10

\* A base and a difference over m.
LEMMA HueWorth ==
  ASSUME NEW a \in Int, NEW b \in Int, NEW base \in Int, NEW m \in Positive,
         NEW p, Worth(p, m, 1)
  PROVE  Worth(Plus(Number(base), Over(Minus(Number(a), Number(b)), p)),
               base * m + (a - b), m)
<1> DEFINE d == Minus(Number(a), Number(b))
           o == Over(d, p)
<1>1. /\ Number(a) \in Fraction /\ Worth(Number(a), a, 1)
      /\ Number(b) \in Fraction /\ Worth(Number(b), b, 1)
      /\ Number(base) \in Fraction /\ Worth(Number(base), base, 1)
      /\ 1 \in Positive /\ p \in Fraction /\ m \in Int
  BY NumberWorth DEF Worth, Positive
<1>2. Worth(d, a * 1 - b * 1, 1 * 1)
  BY <1>1, AddedWorth
<1>3. a * 1 - b * 1 = a - b /\ 1 * 1 = 1 /\ a - b \in Int
  OBVIOUS
<1>4. Worth(d, a - b, 1) /\ d \in Fraction
  BY <1>2, <1>3 DEF Worth
<1> HIDE DEF d
<1>5. Worth(o, (a - b) * 1, 1 * m)
  BY <1>1, <1>3, <1>4, OverWorth
<1>6. (a - b) * 1 = a - b /\ 1 * m = m
  BY <1>1
<1>7. Worth(o, a - b, m) /\ o \in Fraction
  BY <1>5, <1>6 DEF Worth
<1> HIDE DEF o
<1>8. Worth(Plus(Number(base), o), base * m + (a - b) * 1, 1 * m)
  BY <1>1, <1>3, <1>7, AddedWorth
<1> QED
  BY <1>6, <1>8 DEF o, d

\* What hue, saturation and value are worth when three levels are taken apart.
LEMMA Dissected ==
  ASSUME NEW r, NEW g, NEW b, NEW n, NEW v, Extremes(r, g, b, n, v),
         NEW m, m = v - n,
         NEW c, c[1] = Number(r), c[2] = Number(g), c[3] = Number(b)
  PROVE  LET new == RGB_HSV(c) IN
           /\ \E i \in 0 .. 6 : \E e \in 0 .. m - 1 :
                /\ Worth(new[1], 60 * (i * m + e), m)
                /\ i * m + e <= 6 * m
                /\ Levels(v, m, i, e) = <<r, g, b>>
           /\ Worth(new[2], 100 * m, v)
           /\ Worth(new[3], v * 20, 51)
<1> DEFINE N == Least(Least(c[1], c[2]), c[3])
           V == Most(Most(c[1], c[2]), c[3])
           M == Minus(V, N)
           H == IF c[1] = N THEN Plus(Number(3), Over(Minus(c[3], c[2]), M))
                ELSE IF c[2] = N THEN Plus(Number(5), Over(Minus(c[1], c[3]), M))
                ELSE Plus(Number(1), Over(Minus(c[2], c[1]), M))
           G == IF H = Number(6) THEN Number(0) ELSE H
           k == HueTimes(r, g, b, n, m)
<1>1. /\ r \in Int /\ g \in Int /\ b \in Int /\ n \in Int /\ v \in Positive
      /\ m \in Positive /\ v \in Int /\ m \in Int
  BY DEF Extremes, Positive
<1>2. N = Number(n) /\ V = Number(v)
  <2>1. /\ Least(c[1], c[2]) = Number(IF r <= g THEN r ELSE g)
        /\ Most(c[1], c[2]) = Number(IF r <= g THEN g ELSE r)
    BY <1>1, NumberOrder
  <2> DEFINE x == IF r <= g THEN r ELSE g
             y == IF r <= g THEN g ELSE r
  <2>2. x \in Int /\ y \in Int /\ (IF x <= b THEN x ELSE b) = n
        /\ (IF y <= b THEN b ELSE y) = v
    BY <1>1 DEF Extremes
  <2>3. N = Least(Number(x), Number(b)) /\ V = Most(Number(y), Number(b))
    BY <2>1
  <2> HIDE DEF x, y, N, V
  <2> QED
    BY <1>1, <2>2, <2>3, NumberOrder
<1>3. RGB_HSV(c) = IF M[1] = 0 THEN <<NoHue, Number(0), Times(V, <<20, 51>>)>>
                   ELSE <<Times(Number(60), G), Times(Number(100), Over(M, V)),
                          Times(V, <<20, 51>>)>>
  BY DEF RGB_HSV
<1>4. /\ Number(v) \in Fraction /\ Worth(Number(v), v, 1)
      /\ Number(n) \in Fraction /\ Worth(Number(n), n, 1) /\ 1 \in Positive
  BY <1>1, NumberWorth DEF Worth, Positive
<1>5. (c[1] = N <=> r = n) /\ (c[2] = N <=> g = n)
  BY <1>1, <1>2, NumberOrder
<1> HIDE DEF N, V
<1>6. Worth(M, m, 1)
  <2>1. Worth(M, v * 1 - n * 1, 1 * 1)
    BY <1>1, <1>2, <1>4, AddedWorth
  <2>2. v * 1 - n * 1 = m /\ 1 * 1 = 1
    BY <1>1
  <2> QED
    BY <2>1, <2>2
<1> HIDE DEF M
<1>7. M \in Fraction /\ M[1] # 0
  <2>1. M \in Fraction /\ M[1] * 1 = m * M[2]
    BY <1>6 DEF Worth
  <2> QED
    BY <1>1, <2>1 DEF Fraction, Positive
<1>8. Worth(H, k, m)
  BY <1>1, <1>5, <1>6, HueWorth DEF HueTimes
<1>9. k \in Int
  BY <1>1 DEF HueTimes
<1> HIDE DEF H, k
<1>10. PICK i \in 0 .. 6, e \in 0 .. m - 1 :
         /\ Worth(G, i * m + e, m) /\ i * m + e <= 6 * m
         /\ Levels(v, m, i, e) = <<r, g, b>>
  <2>0. /\ \E i \in 0 .. 6 : \E e \in 0 .. m - 1 :
             k = i * m + e /\ Levels(v, m, i, e) = <<r, g, b>>
        /\ k = 6 * m => Levels(v, m, 0, 0) = <<r, g, b>>
        /\ k <= 6 * m
    BY Sextants DEF k
  <2>1. CASE H = Number(6)
    <3>1. 6 * m = k * 1
      BY <1>8, <2>1 DEF Worth, Number
    <3>2. Levels(v, m, 0, 0) = <<r, g, b>>
      BY <1>1, <1>9, <2>0, <3>1
    <3>3. Number(0) \in Fraction /\ 0 * m + 0 = 0 /\ 0 <= 6 * m /\ 0 \in 0 .. m - 1
      BY <1>1, NumberReach DEF Positive
    <3>4. Worth(Number(0), 0 * m + 0, m)
      BY <1>1, <3>3 DEF Worth, Number
    <3> QED
      BY <2>1, <3>2, <3>3, <3>4
  <2>2. CASE H # Number(6)
    BY <1>8, <2>0, <2>2
  <2> QED
    BY <2>1, <2>2
<1>11. /\ Number(60) \in Fraction /\ Worth(Number(60), 60, 1)
       /\ Number(100) \in Fraction /\ Worth(Number(100), 100, 1)
       /\ <<20, 51>> \in Fraction /\ Worth(<<20, 51>>, 20, 51) /\ 51 \in Positive
  BY NumberWorth, Ratios DEF Worth, Positive
<1> HIDE DEF G
<1>12. Worth(Times(Number(60), G), 60 * (i * m + e), m)
  <2>1. G \in Fraction /\ i * m + e \in Int
    BY <1>1, <1>10 DEF Worth
  <2>2. Worth(Times(Number(60), G), 60 * (i * m + e), 1 * m)
    BY <1>1, <1>4, <1>10, <1>11, <2>1, TimesWorth
  <2> QED
    BY <1>1, <2>2
<1>13. Worth(Times(Number(100), Over(M, V)), 100 * m, v)
  <2>1. Worth(Over(M, V), m * 1, 1 * v)
    BY <1>1, <1>2, <1>4, <1>6, <1>7, OverWorth
  <2>2. Worth(Over(M, V), m, v) /\ Over(M, V) \in Fraction
    BY <1>1, <2>1 DEF Worth
  <2>3. Worth(Times(Number(100), Over(M, V)), 100 * m, 1 * v)
    BY <1>1, <1>4, <1>11, <2>2, TimesWorth
  <2> QED
    BY <1>1, <2>3
<1>14. Worth(Times(V, <<20, 51>>), v * 20, 51)
  <2>1. Worth(Times(V, <<20, 51>>), v * 20, 1 * 51)
    BY <1>1, <1>2, <1>4, <1>11, TimesWorth
  <2> QED
    BY <2>1
<1>15. RGB_HSV(c) = <<Times(Number(60), G), Times(Number(100), Over(M, V)),
                      Times(V, <<20, 51>>)>>
  BY <1>3, <1>7
<1> QED
  BY <1>10, <1>12, <1>13, <1>14, <1>15

\* Without colour nothing is taken away, from black nothing can be.
LEMMA Untouched ==
  ASSUME NEW v \in Nat, NEW u, Worth(u, v, 1), NEW q \in Fraction,
         v = 0 \/ Worth(q, 0, 1)
  PROVE  Worth(Times(u, Minus(Number(1), q)), v, 1)
<1> DEFINE r == Minus(Number(1), q)
<1>1. /\ Number(1) \in Fraction /\ Worth(Number(1), 1, 1) /\ 1 \in Positive
      /\ u \in Fraction /\ v \in Int
  BY NumberWorth DEF Worth, Positive
<1>2. CASE v = 0
  <2>1. r \in Fraction
    BY <1>1, Fractions
  <2>2. r[1] \in Int /\ r[2] \in Positive /\ Worth(r, r[1], r[2])
    BY <2>1, ItsWorth
  <2> HIDE DEF r
  <2>3. Worth(Times(u, r), 0 * r[1], 1 * r[2])
    BY <1>1, <1>2, <2>1, <2>2, TimesWorth
  <2>4. 0 * r[1] = 0 /\ 1 * r[2] = r[2] /\ 0 * 1 = 0 * r[2]
    BY <2>2 DEF Positive
  <2>5. Times(u, r) \in Fraction
    BY <2>3 DEF Worth
  <2>6. Worth(Times(u, r), 0, 1)
    BY <1>1, <2>2, <2>3, <2>4, <2>5, SameWorth
  <2> QED
    BY <1>2, <2>6 DEF r
<1>3. CASE Worth(q, 0, 1)
  <2>1. Worth(r, 1 * 1 - 0 * 1, 1 * 1)
    BY <1>1, <1>3, AddedWorth
  <2>2. Worth(r, 1, 1) /\ r \in Fraction
    BY <2>1 DEF Worth
  <2> HIDE DEF r
  <2>3. Worth(Times(u, r), v * 1, 1 * 1)
    BY <1>1, <2>2, TimesWorth
  <2>4. v * 1 = v
    OBVIOUS
  <2> QED
    BY <2>3, <2>4 DEF r
<1> QED
  BY <1>2, <1>3

\* Grey, and black.
LEMMA Greys ==
  ASSUME NEW v \in Nat, NEW hsv, InHSV(hsv),
         Worth(Times(hsv[3], <<51, 20>>), v, 1),
         v = 0 \/ Worth(Times(hsv[2], <<1, 100>>), 0, 1)
  PROVE  \A j \in 1 .. 3 : Worth(HSV_RGB(hsv)[j], v, 1)
<1> DEFINE u == Times(hsv[3], <<51, 20>>)
           h == Times(hsv[1], <<1, 60>>)
           s == Times(hsv[2], <<1, 100>>)
           k == Floor(h)
           f == IF k % 2 = 1 THEN Minus(h, Number(k))
                ELSE Minus(Number(k + 1), h)
           m == Times(u, Minus(Number(1), s))
           n == Times(u, Minus(Number(1), Times(s, f)))
           six == << <<u, n, m>>, <<n, u, m>>, <<m, u, n>>,
                     <<m, n, u>>, <<n, m, u>>, <<u, m, n>> >>
<1>1. HSV_RGB(hsv) = six[(k % 6) + 1]
  BY DEF HSV_RGB
<1>2. h \in Fraction /\ s \in Fraction
  <2>1. hsv[1] \in Fraction /\ hsv[2] \in Fraction
    BY DEF InHSV, Within, NotLess
  <2>2. <<1, 60>> \in Fraction /\ <<1, 100>> \in Fraction
    BY Ratios DEF Positive
  <2> QED
    BY <2>1, <2>2, Fractions
<1>3. Worth(u, v, 1) /\ (v = 0 \/ Worth(s, 0, 1))
  OBVIOUS
<1> HIDE DEF u, h, s
<1>4. k \in Int /\ f \in Fraction
  BY <1>2, Between DEF Within, NotLess
<1> HIDE DEF k, f
<1>5. Worth(m, v, 1)
  BY <1>2, <1>3, Untouched
<1>6. Worth(n, v, 1)
  <2>1. Times(s, f) \in Fraction
    BY <1>2, <1>4, Fractions
  <2>2. ASSUME Worth(s, 0, 1) PROVE Worth(Times(s, f), 0, 1)
    <3>1. f[1] \in Int /\ f[2] \in Positive /\ Worth(f, f[1], f[2])
      BY <1>4, ItsWorth
    <3>2. 1 \in Positive
      BY DEF Positive
    <3>3. Worth(Times(s, f), 0 * f[1], 1 * f[2])
      BY <1>2, <1>4, <2>2, <3>1, <3>2, TimesWorth
    <3>4. 0 * f[1] = 0 /\ 1 * f[2] = f[2] /\ 0 * 1 = 0 * f[2]
      BY <3>1 DEF Positive
    <3> QED
      BY <2>1, <3>1, <3>2, <3>3, <3>4, SameWorth
  <2> QED
    BY <1>3, <2>1, <2>2, Untouched
<1> HIDE DEF m, n
<1>7. \A i \in 1 .. 6 : \A j \in 1 .. 3 : Worth(six[i][j], v, 1)
  BY <1>3, <1>5, <1>6
<1>8. (k % 6) + 1 \in 1 .. 6
  BY <1>4
<1> QED
  BY <1>1, <1>7, <1>8

\* What fromRGB makes of parts that are in range, for a picker without limits.
LEMMA NoLimit ==
  ASSUME NEW p \in Fraction
  PROVE  Most(Most(Number(0), NoLimits.minS),
              Least(Least(Number(100), NoLimits.maxS), p))
           = Clip(Number(0), Number(100), p)
         /\ Most(Most(Number(0), NoLimits.minV),
                 Least(Least(Number(100), NoLimits.maxV), p))
              = Clip(Number(0), Number(100), p)
<1>1. Most(Number(0), Number(0)) = Number(0) /\ Least(Number(100), Number(100)) = Number(100)
  BY NumberOrder
<1>2. /\ NoLimits.minS = Number(0) /\ NoLimits.maxS = Number(100)
      /\ NoLimits.minV = Number(0) /\ NoLimits.maxV = Number(100)
  BY DEF NoLimits
<1> QED
  BY <1>1, <1>2 DEF Clip

LEMMA NoLimitsOK == LimitsOK(NoLimits)
<1>1. /\ Number(0) \in Fraction /\ Within(Number(0), 100)
      /\ Number(100) \in Fraction /\ Within(Number(100), 100)
  BY NumberReach
<1> QED
  BY <1>1, WithinLeq DEF LimitsOK, NoLimits, Within

\* Times one fraction and divided by another.
LEMMA Rescaled ==
  ASSUME NEW p, NEW n \in Int, NEW d \in Positive, Worth(p, n, d),
         NEW a \in Positive, NEW b \in Positive,
         NEW x \in Int, NEW y \in Positive, (n * a) * y = x * (d * b)
  PROVE  Worth(Times(p, <<a, b>>), x, y)
<1>1. /\ p \in Fraction /\ a \in Int /\ <<a, b>> \in Fraction /\ Worth(<<a, b>>, a, b)
      /\ n * a \in Int /\ d * b \in Positive
  BY Ratios, Denominators DEF Worth, Positive
<1>2. Worth(Times(p, <<a, b>>), n * a, d * b)
  BY <1>1, TimesWorth
<1>3. Times(p, <<a, b>>) \in Fraction
  BY <1>2 DEF Worth
<1> QED
  BY <1>1, <1>2, <1>3, SameWorth

\* Whatever the colour was, one of whole numbers is put together as it was taken
\* apart.
LEMMA Returns ==
  ASSUME NEW hsv, InHSV(hsv), NEW a \in [1 .. 3 -> 0 .. 255],
         NEW c, \A j \in 1 .. 3 : c[j] = Number(a[j])
  PROVE  \A j \in 1 .. 3 : Worth(HSV_RGB(fromRGB(NoLimits, hsv, c))[j], a[j], 1)
<1> DEFINE r == a[1]
           g == a[2]
           b == a[3]
           clipped == [j \in 1 .. 3 |-> Clip(Number(0), Number(255), c[j])]
           new == RGB_HSV(clipped)
           got == fromRGB(NoLimits, hsv, c)
<1>1. r \in 0 .. 255 /\ g \in 0 .. 255 /\ b \in 0 .. 255
  OBVIOUS
<1>2. clipped[1] = Number(r) /\ clipped[2] = Number(g) /\ clipped[3] = Number(b)
  BY <1>1, NumberClip
<1>3. InHSV(got)
  <2>1. \A j \in 1 .. 3 : c[j] \in Fraction
    BY NumberWorth DEF Worth
  <2> QED
    BY <2>1, NoLimitsOK, FromRGBReaches
<1>4. \A j \in 1 .. 3 : new[j] \in Fraction
  <2>1. \A j \in 1 .. 3 : c[j] \in Fraction
    BY NumberWorth DEF Worth
  <2>2. InRGB(clipped)
    BY <2>1, ClipReaches DEF InRGB
  <2> HIDE DEF clipped
  <2> QED
    BY <2>2, HSVFractions
<1>5. /\ got[1] = IF new[1] = NoHue THEN hsv[1] ELSE Clip(Number(0), Number(360), new[1])
      /\ got[2] = IF new[3] = Number(0) THEN hsv[2]
                  ELSE Clip(Number(0), Number(100), new[2])
      /\ got[3] = Clip(Number(0), Number(100), new[3])
  <2>1. got = <<IF new[1] = NoHue THEN hsv[1] ELSE Clip(Number(0), Number(360), new[1]),
                IF new[3] = Number(0) THEN hsv[2]
                ELSE Most(Most(Number(0), NoLimits.minS),
                          Least(Least(Number(100), NoLimits.maxS), new[2])),
                Most(Most(Number(0), NoLimits.minV),
                     Least(Least(Number(100), NoLimits.maxV), new[3]))>>
    BY DEF fromRGB
  <2> HIDE DEF got, new
  <2> QED
    BY <1>4, <2>1, NoLimit
<1> HIDE DEF clipped, got
<1>6. CASE r = g /\ g = b
  <2>1. new = <<NoHue, Number(0), Times(Number(r), <<20, 51>>)>>
    <3> DEFINE N == Least(Least(clipped[1], clipped[2]), clipped[3])
               V == Most(Most(clipped[1], clipped[2]), clipped[3])
               M == Minus(V, N)
    <3>1. N = Number(r) /\ V = Number(r)
      BY <1>2, <1>6 DEF Least, Most
    <3>2. Number(r) \in Fraction /\ Worth(Number(r), r, 1) /\ 1 \in Positive
      BY <1>1, NumberWorth DEF Worth, Positive
    <3>3. Worth(M, r * 1 - r * 1, 1 * 1)
      BY <1>1, <3>1, <3>2, AddedWorth
    <3>4. r * 1 - r * 1 = 0 /\ 1 * 1 = 1
      BY <1>1
    <3>5. M \in Fraction /\ M[1] * 1 = 0 * M[2]
      BY <3>3, <3>4 DEF Worth
    <3>6. M[1] = 0
      BY <3>5 DEF Fraction, Positive
    <3> QED
      BY <3>1, <3>6 DEF RGB_HSV
  <2> HIDE DEF new
  <2>2. Worth(new[3], r * 20, 51)
    <3>1. Worth(Number(r), r, 1) /\ r \in Int
      BY <1>1, NumberWorth
    <3>2. (r * 20) * 51 = (r * 20) * (1 * 51) /\ r * 20 \in Int
      BY <1>1
    <3>3. 1 \in Positive /\ 20 \in Positive /\ 51 \in Positive
      BY DEF Positive
    <3> QED
      BY <2>1, <3>1, <3>2, <3>3, Rescaled
  <2>3. Worth(got[3], r * 20, 51)
    <3>1. r * 20 \in Int /\ 51 \in Positive /\ 0 <= r * 20 /\ r * 20 <= 100 * 51
      BY <1>1 DEF Positive
    <3> QED
      BY <1>5, <2>2, <3>1, ClipSame
  <2>4. Worth(Times(got[3], <<51, 20>>), r, 1)
    <3>1. ((r * 20) * 51) * 1 = r * (51 * 20) /\ r * 20 \in Int /\ r \in Int
      BY <1>1
    <3>2. 1 \in Positive /\ 20 \in Positive /\ 51 \in Positive
      BY DEF Positive
    <3> QED
      BY <2>3, <3>1, <3>2, Rescaled
  <2>5. r = 0 \/ Worth(Times(got[2], <<1, 100>>), 0, 1)
    <3>1. ASSUME r # 0 PROVE new[3] # Number(0)
      <4>1. ASSUME new[3] = Number(0) PROVE 0 * 51 = (r * 20) * 1
        BY <2>2, <4>1 DEF Worth, Number
      <4> QED
        BY <1>1, <3>1, <4>1
    <3>2. new[2] = Number(0)
      BY <2>1
    <3>3. Worth(Number(0), 0, 1) /\ 1 \in Positive /\ 100 \in Positive
      BY NumberWorth DEF Positive
    <3>4. Worth(Clip(Number(0), Number(100), new[2]), 0, 1)
      BY <3>2, <3>3, ClipSame
    <3>5. (0 * 1) * 1 = 0 * (1 * 100)
      OBVIOUS
    <3>6. Worth(Times(Clip(Number(0), Number(100), new[2]), <<1, 100>>), 0, 1)
      BY <3>3, <3>4, <3>5, Rescaled
    <3> QED
      BY <1>5, <3>1, <3>6
  <2> QED
    BY <1>1, <1>3, <1>6, <2>4, <2>5, Greys DEF got
<1>7. CASE ~(r = g /\ g = b)
  <2>1. PICK n \in 0 .. 255, v \in 0 .. 255 : Extremes(r, g, b, n, v)
    BY <1>1, <1>7, Extremal, ZenonT(60)
  <2> DEFINE m == v - n
  <2>2. m \in Positive /\ v \in Positive /\ m <= v /\ m \in Int /\ v \in Int
    BY <2>1 DEF Extremes, Positive
  <2>3. /\ \E i \in 0 .. 6 : \E e \in 0 .. m - 1 :
             /\ Worth(new[1], 60 * (i * m + e), m)
             /\ i * m + e <= 6 * m
             /\ Levels(v, m, i, e) = <<r, g, b>>
        /\ Worth(new[2], 100 * m, v) /\ Worth(new[3], v * 20, 51)
    BY <1>2, <2>1, Dissected
  <2> HIDE DEF new, m
  <2>4. PICK i \in 0 .. 6, e \in 0 .. m - 1 :
          /\ Worth(new[1], 60 * (i * m + e), m)
          /\ i * m + e <= 6 * m
          /\ Levels(v, m, i, e) = <<r, g, b>>
    BY <2>3
  <2> DEFINE k == i * m + e
  <2>5. k \in Int /\ 0 <= k /\ k <= 6 * m /\ 60 * k \in Int /\ 0 <= e /\ e < m
        /\ e \in Int /\ i \in Int
    BY <2>2, <2>4 DEF Positive
  <2>6. Worth(new[1], 60 * k, m)
    BY <2>4
  <2> HIDE DEF k
  <2>7. new[1] # NoHue
    <3>1. ASSUME new[1] = NoHue PROVE (-1) * m = (60 * k) * 1
      BY <2>6, <3>1 DEF Worth, NoHue
    <3> QED
      BY <2>2, <2>5, <3>1 DEF Positive
  <2>8. new[3] # Number(0)
    <3>1. ASSUME new[3] = Number(0) PROVE 0 * 51 = (v * 20) * 1
      BY <2>3, <3>1 DEF Worth, Number
    <3> QED
      BY <2>2, <3>1 DEF Positive
  <2>9. Worth(got[1], 60 * k, m)
    <3>1. 0 <= 60 * k /\ 60 * k <= 360 * m
      BY <2>2, <2>5
    <3> QED
      BY <1>5, <2>2, <2>5, <2>6, <2>7, <3>1, ClipSame
  <2>10. Worth(got[2], 100 * m, v)
    <3>1. 100 * m \in Int /\ 0 <= 100 * m /\ 100 * m <= 100 * v
      BY <2>2 DEF Positive
    <3> QED
      BY <1>5, <2>2, <2>3, <2>8, <3>1, ClipSame
  <2>11. Worth(got[3], v * 20, 51)
    <3>1. v * 20 \in Int /\ 0 <= v * 20 /\ v * 20 <= 100 * 51 /\ 51 \in Positive
      BY <2>2 DEF Positive
    <3> QED
      BY <1>5, <2>3, <3>1, ClipSame
  <2>12. /\ 1 \in Positive /\ 20 \in Positive /\ 51 \in Positive
         /\ 60 \in Positive /\ 100 \in Positive
    BY DEF Positive
  <2>13. Worth(Times(got[3], <<51, 20>>), v, 1)
    <3>1. v * 20 \in Int /\ ((v * 20) * 51) * 1 = v * (51 * 20)
      BY <2>2
    <3> QED
      BY <2>2, <2>11, <2>12, <3>1, Rescaled
  <2>14. Worth(Times(got[2], <<1, 100>>), m, v)
    <3>1. 100 * m \in Int /\ ((100 * m) * 1) * v = m * (v * 100)
      BY <2>2
    <3> QED
      BY <2>2, <2>10, <2>12, <3>1, Rescaled
  <2>15. Worth(Times(got[1], <<1, 60>>), i * m + e, m)
    <3>1. ((60 * k) * 1) * m = k * (m * 60)
      BY <2>2, <2>5
    <3>2. Worth(Times(got[1], <<1, 60>>), k, m)
      BY <2>2, <2>5, <2>9, <2>12, <3>1, Rescaled
    <3> QED
      BY <3>2 DEF k
  <2>16. \A j \in 1 .. 3 : Worth(HSV_RGB(got)[j], Levels(v, m, i, e)[j], 1)
    BY <2>2, <2>5, <2>13, <2>14, <2>15, Assembled
  <2> QED
    BY <2>4, <2>16 DEF got
<1> QED
  BY <1>6, <1>7

-----------------------------------------------------------------------------
(* Text *)

LEMMA ParsedFractions ==
  ASSUME NEW t \in Text, Parsed(t) # NoColour
  PROVE  \A i \in 1 .. 3 : Parsed(t)[i] \in Fraction
<1>1. ASSUME NEW n \in Int PROVE Number(n) \in Fraction
  BY <1>1, NumberWorth DEF Worth
<1>2. CASE t[1] = "hex" /\ Len(t[2]) = 6
  <2>1. t[2] \in Seq(Digit)
    BY <1>2 DEF Text
  <2>2. \A i \in 1 .. 6 : t[2][i] \in Int
    BY <1>2, <2>1 DEF Digit
  <2>3. \A i \in 1 .. 3 : 16 * t[2][2 * i - 1] + t[2][2 * i] \in Int
    BY <2>2
  <2> QED
    BY <1>1, <1>2, <2>3 DEF Parsed
<1>3. CASE t[1] = "hex" /\ Len(t[2]) = 3
  <2>1. t[2] \in Seq(Digit)
    BY <1>3 DEF Text
  <2>2. \A i \in 1 .. 3 : 17 * t[2][i] \in Int
    BY <1>3, <2>1 DEF Digit
  <2> QED
    BY <1>1, <1>3, <2>2 DEF Parsed
<1>4. CASE t[1] = "rgb" /\ Len(t[2]) >= 3
  <2>1. t[2] \in Seq(Fraction)
    BY <1>4 DEF Text
  <2> QED
    BY <1>4, <2>1 DEF Parsed
<1> QED
  BY <1>2, <1>3, <1>4 DEF Parsed

\* What is written into a field is such a text.
LEMMA WrittenIsText ==
  ASSUME NEW c, InRGB(c)
  PROVE  toString(c) \in Text
<1> DEFINE digits == [i \in 1 .. 6 |-> LET n == Round(c[(i + 1) \div 2])
                                        IN  IF i % 2 = 1 THEN n \div 16 ELSE n % 16]
<1>1. ASSUME NEW i \in 1 .. 6 PROVE digits[i] \in Digit
  <2>1. (i + 1) \div 2 \in 1 .. 3
    OBVIOUS
  <2>2. Round(c[(i + 1) \div 2]) \in 0 .. 255
    BY <2>1, RoundReaches DEF InRGB
  <2> DEFINE n == Round(c[(i + 1) \div 2])
  <2>3. digits[i] = IF i % 2 = 1 THEN n \div 16 ELSE n % 16
    OBVIOUS
  <2> HIDE DEF n, digits
  <2>4. n \in 0 .. 255
    BY <2>2 DEF n
  <2> QED
    BY <2>3, <2>4 DEF Digit
<1>2. toString(c) = <<"hex", digits>>
  BY Zenon DEF toString, Hex
<1>4. digits \in Seq(Digit)
  BY <1>1
<1> HIDE DEF digits
<1> QED
  BY <1>2, <1>4 DEF Text

LEMMA SameHex ==
  ASSUME NEW c, NEW d, \A j \in 1 .. 3 : Round(c[j]) = Round(d[j])
  PROVE  toString(c) = toString(d)
<1> DEFINE digit(x, i) == LET n == Round(x[(i + 1) \div 2])
                          IN  IF i % 2 = 1 THEN n \div 16 ELSE n % 16
<1>1. \A i \in 1 .. 6 : (i + 1) \div 2 \in 1 .. 3
  OBVIOUS
<1>2. \A i \in 1 .. 6 : digit(c, i) = digit(d, i)
  BY <1>1
<1>3. \A x : toString(x) = <<"hex", [i \in 1 .. 6 |-> digit(x, i)]>>
  BY Zenon DEF toString, Hex
<1> HIDE DEF digit
<1>4. [i \in 1 .. 6 |-> digit(c, i)] = [i \in 1 .. 6 |-> digit(d, i)]
  BY <1>2
<1> QED
  BY <1>3, <1>4

\* What is written is read as the nearest whole numbers.
LEMMA ReadAsWritten ==
  ASSUME NEW c, InRGB(c)
  PROVE  \A j \in 1 .. 3 : /\ Round(c[j]) \in 0 .. 255
                           /\ Parsed(toString(c))[j] = Number(Round(c[j]))
<1> DEFINE digits == [i \in 1 .. 6 |-> LET n == Round(c[(i + 1) \div 2])
                                        IN  IF i % 2 = 1 THEN n \div 16 ELSE n % 16]
           t == toString(c)
<1>1. t = <<"hex", digits>>
  BY Zenon DEF toString, Hex
<1>2. DOMAIN digits = 1 .. 6 /\ Len(digits) = 6
  OBVIOUS
<1>3. ASSUME NEW j \in 1 .. 3
      PROVE  /\ digits[2 * j - 1] = Round(c[j]) \div 16
             /\ digits[2 * j] = Round(c[j]) % 16
  <2>1. /\ 2 * j - 1 \in 1 .. 6 /\ (2 * j - 1) % 2 = 1 /\ ((2 * j - 1) + 1) \div 2 = j
        /\ 2 * j \in 1 .. 6 /\ (2 * j) % 2 # 1 /\ (2 * j + 1) \div 2 = j
    BY <1>3
  <2> QED
    BY <2>1
<1> HIDE DEF digits, t
<1>4. t[1] = "hex" /\ t[2] = digits
  BY <1>1
<1>5. Parsed(t) = [i \in 1 .. 3 |-> Number(16 * t[2][2 * i - 1] + t[2][2 * i])]
  BY <1>2, <1>4 DEF Parsed
<1>6. \A x \in 0 .. 255 : 16 * (x \div 16) + (x % 16) = x
  OBVIOUS
<1>7. ASSUME NEW j \in 1 .. 3
      PROVE  Round(c[j]) \in 0 .. 255 /\ Parsed(t)[j] = Number(Round(c[j]))
  <2>1. Round(c[j]) \in 0 .. 255
    BY RoundReaches DEF InRGB
  <2>2. Parsed(t)[j] = Number(16 * (Round(c[j]) \div 16) + (Round(c[j]) % 16))
    BY <1>3, <1>4, <1>5
  <2> QED
    BY <1>6, <2>1, <2>2
<1> QED
  BY <1>7 DEF t

\* A colour that was written is read back as one that is written the same,
\* whatever the picker's colour was.
LEMMA ReadBack ==
  ASSUME NEW hsv, InHSV(hsv), NEW c, InRGB(c)
  PROVE  toString(HSV_RGB(fromRGB(NoLimits, hsv, Parsed(toString(c))))) = toString(c)
<1> DEFINE a == [j \in 1 .. 3 |-> Round(c[j])]
           read == Parsed(toString(c))
           got == HSV_RGB(fromRGB(NoLimits, hsv, read))
<1>1. a \in [1 .. 3 -> 0 .. 255] /\ \A j \in 1 .. 3 : read[j] = Number(a[j])
  BY ReadAsWritten
<1>2. \A j \in 1 .. 3 : a[j] \in Int /\ a[j] = Round(c[j])
  BY <1>1
<1> HIDE DEF a, read
<1>3. \A j \in 1 .. 3 : Worth(got[j], a[j], 1)
  BY <1>1, Returns
<1> HIDE DEF got
<1>4. \A j \in 1 .. 3 : Round(got[j]) = Round(c[j])
  BY <1>2, <1>3, RoundIs
<1> QED
  BY <1>4, SameHex DEF got, read

\* Every colour of whole numbers is the same after it was dissected and put
\* together again (RGB_HSV and HSV_RGB).
THEOREM RoundTrips == \A c \in [1 .. 3 -> 0 .. 255] : RoundTrip(c)
<1> SUFFICES ASSUME NEW c \in [1 .. 3 -> 0 .. 255] PROVE RoundTrip(c)
  OBVIOUS
<1> DEFINE rgb == [i \in 1 .. 3 |-> Number(c[i])]
           hsv == <<Number(0), Number(0), Number(100)>>
           got == HSV_RGB(fromRGB(NoLimits, hsv, rgb))
<1>1. InHSV(hsv)
  BY NumberReach DEF InHSV
<1>2. \A j \in 1 .. 3 : rgb[j] = Number(c[j]) /\ c[j] \in Int
  OBVIOUS
<1> HIDE DEF rgb, hsv
<1>3. \A j \in 1 .. 3 : Worth(got[j], c[j], 1)
  BY <1>1, <1>2, Returns
<1> HIDE DEF got
<1>4. \A j \in 1 .. 3 : Round(got[j]) = c[j] /\ Round(rgb[j]) = c[j]
  BY <1>2, <1>3, RoundIs, NumberWorth
<1>5. toString(got) = toString(rgb)
  BY <1>4, SameHex
<1> QED
  BY <1>5, Zenon DEF RoundTrip, got, rgb, hsv
=============================================================================
