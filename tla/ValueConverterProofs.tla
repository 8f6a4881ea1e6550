------------------------ MODULE ValueConverterProofs ------------------------
(* What the converters keep, for every choice of the widths, of the texts and *)
(* lists of the program and of the documents it reads: for the real widths as *)
(* well as for the small ones of the model checker.                           *)
EXTENDS ValueConverters, FiniteSetTheorems, SequenceTheorems,
        WellFoundedInduction, TLAPS

-----------------------------------------------------------------------------
(* Natural numbers.                                                           *)

LEMMA LeastExists ==
  ASSUME NEW M \in SUBSET Nat, M # {}
  PROVE  \E i \in M : \A j \in M : i <= j
<1>1. PICK i \in M : \A y \in M : ~(<<y, i>> \in OpToRel(<, Nat))
  BY NatLessThanWellFounded, WFMin
<1>2. ASSUME NEW y \in M
      PROVE  i <= y
  <2>1. i \in Nat /\ y \in Nat
    OBVIOUS
  <2>2. ~(y < i)
    BY <1>1, <2>1 DEF OpToRel
  <2> QED BY <2>1, <2>2
<1> QED BY <1>2

\* Induction: there is no least number outside of G.
Inductive(G) == \A k \in Nat : (\A j \in 0..k-1 : j \in G) => k \in G

LEMMA NumberInduction ==
  ASSUME NEW G, Inductive(G)
  PROVE  \A k \in Nat : k \in G
<1> DEFINE Bad == {k \in Nat : k \notin G}
<1> SUFFICES ASSUME Bad # {} PROVE FALSE
  OBVIOUS
<1>1. Bad \in SUBSET Nat
  OBVIOUS
<1> HIDE DEF Bad
<1>2. PICK i \in Bad : \A j \in Bad : i <= j
  BY <1>1, LeastExists
<1>3. i \in Nat /\ \A j \in 0..i-1 : j \notin Bad
  BY <1>1, <1>2
<1>4. \A j \in 0..i-1 : j \in G
  BY <1>3 DEF Bad
<1> QED BY <1>2, <1>3, <1>4 DEF Bad, Inductive

-----------------------------------------------------------------------------
(* Powers of two, by counting subsets.                                        *)

LEMMA SubsetsCounted ==
  ASSUME NEW S, IsFiniteSet(S), NEW k \in Nat, Cardinality(S) = k
  PROVE  /\ IsFiniteSet(SUBSET S)
         /\ Cardinality(SUBSET S) = 2^k
BY FS_SUBSET

LEMMA IntervalCounted ==
  ASSUME NEW a \in Int, NEW b \in Int, a <= b + 1, NEW S, S = a..b
  PROVE  /\ IsFiniteSet(S)
         /\ Cardinality(S) = b + 1 - a
<1>1. IsFiniteSet(S)
  BY FS_Interval
<1>2. Cardinality(S) = IF a > b THEN 0 ELSE b - a + 1
  BY FS_Interval
<1> QED BY <1>1, <1>2

LEMMA PowerIsNat ==
  ASSUME NEW k \in Nat
  PROVE  2^k \in Nat \ {0}
<1>1. PICK S : S = 1..k
  OBVIOUS
<1>2. IsFiniteSet(S)
  BY <1>1, IntervalCounted
<1>3. Cardinality(S) = k
  <2>1. Cardinality(S) = k + 1 - 1
    BY <1>1, IntervalCounted
  <2> QED BY <2>1
<1>4. IsFiniteSet(SUBSET S) /\ Cardinality(SUBSET S) = 2^k
  BY <1>2, <1>3, SubsetsCounted
<1>5. SUBSET S # {}
  OBVIOUS
<1> QED BY <1>4, <1>5, FS_CardinalityType, FS_EmptySet

LEMMA PowerOfOne == 2^1 = 2
OBVIOUS

LEMMA PowerAdds ==
  ASSUME NEW m \in Nat, NEW k \in Nat
  PROVE  2^(m+k) = 2^m * 2^k
<1>1. PICK A : A = 1..m
  OBVIOUS
<1>2. PICK B : B = m+1..m+k
  OBVIOUS
<1>3. PICK C : C = 1..m+k
  OBVIOUS
<1>4. IsFiniteSet(A) /\ Cardinality(A) = m
  <2>1. Cardinality(A) = m + 1 - 1
    BY <1>1, IntervalCounted
  <2>2. IsFiniteSet(A)
    BY <1>1, IntervalCounted
  <2> QED BY <2>1, <2>2
<1>5. IsFiniteSet(B) /\ Cardinality(B) = k
  <2>1. Cardinality(B) = m + k + 1 - (m+1)
    BY <1>2, IntervalCounted
  <2>2. IsFiniteSet(B)
    BY <1>2, IntervalCounted
  <2> QED BY <2>1, <2>2
<1>6. IsFiniteSet(C) /\ Cardinality(C) = m + k /\ m + k \in Nat
  <2>1. Cardinality(C) = m + k + 1 - 1
    BY <1>3, IntervalCounted
  <2>2. IsFiniteSet(C)
    BY <1>3, IntervalCounted
  <2> QED BY <2>1, <2>2
<1> DEFINE f == [p \in (SUBSET A) \X (SUBSET B) |-> p[1] \cup p[2]]
<1>7. /\ Cardinality(SUBSET A) = 2^m /\ IsFiniteSet(SUBSET A)
      /\ Cardinality(SUBSET B) = 2^k /\ IsFiniteSet(SUBSET B)
      /\ Cardinality(SUBSET C) = 2^(m+k)
  BY <1>4, <1>5, <1>6, SubsetsCounted
<1>8. A \cup B = C /\ A \cap B = {}
  BY <1>1, <1>2, <1>3
<1>9. /\ IsFiniteSet((SUBSET A) \X (SUBSET B))
      /\ Cardinality((SUBSET A) \X (SUBSET B)) = 2^m * 2^k
  <2> DEFINE SA == SUBSET A
             SB == SUBSET B
  <2>1. /\ IsFiniteSet(SA) /\ IsFiniteSet(SB)
        /\ Cardinality(SA) = 2^m /\ Cardinality(SB) = 2^k
    BY <1>7
  <2> HIDE DEF SA, SB
  <2>2. /\ IsFiniteSet(SA \X SB)
        /\ Cardinality(SA \X SB) = Cardinality(SA) * Cardinality(SB)
    BY <2>1, FS_Product
  <2>3. IsFiniteSet(SA \X SB) /\ Cardinality(SA \X SB) = 2^m * 2^k
    BY <2>1, <2>2
  <2> QED BY <2>3 DEF SA, SB
<1>10. f \in Bijection((SUBSET A) \X (SUBSET B), SUBSET C)
  <2>1. f \in [(SUBSET A) \X (SUBSET B) -> SUBSET C]
    BY <1>8
  <2>2. ASSUME NEW p \in (SUBSET A) \X (SUBSET B), NEW q \in (SUBSET A) \X (SUBSET B),
               f[p] = f[q]
        PROVE  p = q
    <3>1. p[1] \cup p[2] = q[1] \cup q[2]
      BY <2>2
    <3>2. p[1] = q[1] /\ p[2] = q[2]
      BY <1>8, <3>1
    <3> QED BY <3>2
  <2>3. ASSUME NEW S \in SUBSET C
        PROVE  \E p \in (SUBSET A) \X (SUBSET B) : f[p] = S
    <3> DEFINE p == <<S \cap A, S \cap B>>
    <3>1. p \in (SUBSET A) \X (SUBSET B)
      OBVIOUS
    <3>2. p[1] \cup p[2] = S
      BY <1>8
    <3> QED BY <3>1, <3>2
  <2> QED BY <2>1, <2>2, <2>3 DEF Bijection, Injection, Surjection, IsInjective
<1>11. ExistsBijection((SUBSET A) \X (SUBSET B), SUBSET C)
  BY <1>10 DEF ExistsBijection
<1> QED BY <1>7, <1>9, <1>11, FS_Bijection

LEMMA PowerGrows ==
  ASSUME NEW m \in Nat, NEW k \in Nat, m <= k
  PROVE  /\ k - m \in Nat /\ 2^k = 2^m * 2^(k-m) /\ 2^m <= 2^k
         /\ m < k => 2 * 2^m <= 2^k
<1>1. k - m \in Nat /\ m + (k - m) = k
  OBVIOUS
<1>2. 2^k = 2^m * 2^(k-m)
  BY <1>1, PowerAdds
<1>3. 2^m \in Nat \ {0} /\ 2^(k-m) \in Nat \ {0}
  BY <1>1, PowerIsNat
<1>4. 2^m <= 2^k
  BY <1>2, <1>3
<1>5. ASSUME m < k
      PROVE  2 * 2^m <= 2^k
  <2>1. k - (m+1) \in Nat /\ m + 1 + (k - (m+1)) = k /\ m + 1 \in Nat
    BY <1>5
  <2>2. 2^k = 2^(m+1) * 2^(k - (m+1))
    BY <2>1, PowerAdds
  <2>3. 2^(m+1) = 2^m * 2
    BY PowerAdds, PowerOfOne
  <2>4. 2^(k - (m+1)) \in Nat \ {0}
    BY <2>1, PowerIsNat
  <2> QED BY <1>3, <2>2, <2>3, <2>4
<1> QED BY <1>1, <1>2, <1>4, <1>5

LEMMA PowerDoubles ==
  ASSUME NEW k \in Nat \ {0}
  PROVE  2^k = 2 * 2^(k-1) /\ 2^(k-1) \in Nat \ {0} /\ 2^k \in Nat \ {0}
<1>1. k - 1 \in Nat /\ 1 + (k - 1) = k
  OBVIOUS
<1>2. 2^k = 2 * 2^(k-1)
  BY <1>1, PowerAdds, PowerOfOne
<1> QED BY <1>1, <1>2, PowerIsNat

\* A number is smaller than its power of two.
LEMMA PowerExceeds ==
  ASSUME NEW n \in Nat
  PROVE  n < 2^n
<1> DEFINE G == {k \in Nat : k < 2^k}
<1>1. ASSUME NEW k \in Nat, \A j \in 0..k-1 : j \in G
      PROVE  k \in G
  <2>1. CASE k = 0
    BY <2>1, PowerIsNat
  <2>2. CASE k # 0
    <3>1. k - 1 \in 0..k-1 /\ k \in Nat \ {0}
      BY <2>2
    <3>2. k - 1 < 2^(k-1)
      BY <1>1, <3>1
    <3> QED BY <3>1, <3>2, PowerDoubles
  <2> QED BY <2>1, <2>2
<1> HIDE DEF G
<1>2. Inductive(G)
  BY <1>1 DEF Inductive
<1> QED BY <1>2, NumberInduction DEF G

-----------------------------------------------------------------------------
(* Division.                                                                  *)

LEMMA Quotient ==
  ASSUME NEW n \in Int, NEW m \in Nat \ {0}
  PROVE  /\ n = m * (n \div m) + (n % m) /\ n \div m \in Int /\ n % m \in 0..m-1
OBVIOUS

LEMMA QuotientIsUnique ==
  ASSUME NEW m \in Nat \ {0}, NEW q \in Int, NEW r \in 0..m-1, NEW n \in Int, n = m*q + r
  PROVE  n \div m = q /\ n % m = r
<1>1. n = m * (n \div m) + (n % m) /\ n \div m \in Int /\ n % m \in 0..m-1
  BY Quotient
<1>2. PICK p \in Int, s \in 0..m-1 : p = n \div m /\ s = n % m
  BY <1>1
<1>3. m * (p - q) = r - s
  BY <1>1, <1>2
<1>4. p = q
  <2>1. CASE p > q
    <3>1. p - q >= 1
      BY <2>1
    <3>2. m * (p - q) >= m
      BY <3>1
    <3> QED BY <3>2, <1>3
  <2>2. CASE p < q
    <3>1. q - p >= 1
      BY <2>2
    <3>2. m * (q - p) >= m
      BY <3>1
    <3>3. m * (q - p) = s - r
      BY <1>3
    <3> QED BY <3>2, <3>3
  <2> QED BY <2>1, <2>2
<1> QED BY <1>1, <1>2, <1>3, <1>4

\* a and b differ by a multiple of m.
Same(a, b, m) == (a - b) % m = 0

LEMMA SameMeans ==
  ASSUME NEW a \in Int, NEW b \in Int, NEW m \in Nat \ {0}
  PROVE  Same(a, b, m) <=> \E q \in Int : a = b + m*q
<1>1. ASSUME Same(a, b, m)
      PROVE  \E q \in Int : a = b + m*q
  <2>1. a - b = m * ((a-b) \div m) + ((a-b) % m) /\ (a-b) \div m \in Int
    BY Quotient
  <2>2. PICK q \in Int : q = (a-b) \div m
    BY <2>1
  <2>3. a - b = m * q
    BY <1>1, <2>1, <2>2 DEF Same
  <2> QED BY <2>3
<1>2. ASSUME NEW q \in Int, a = b + m*q
      PROVE  Same(a, b, m)
  <2>1. a - b = m*q + 0 /\ 0 \in 0..m-1 /\ a - b \in Int
    BY <1>2
  <2>2. (a - b) % m = 0
    BY <2>1, QuotientIsUnique
  <2> QED BY <2>2 DEF Same
<1> QED BY <1>1, <1>2

LEMMA SameIsEquivalence ==
  ASSUME NEW m \in Nat \ {0}, NEW a \in Int, NEW b \in Int, NEW c \in Int
  PROVE  /\ Same(a, a, m)
         /\ Same(a, b, m) => Same(b, a, m)
         /\ Same(a, b, m) /\ Same(b, c, m) => Same(a, c, m)
<1>1. Same(a, a, m)
  <2>1. a = a + m*0
    OBVIOUS
  <2> QED BY <2>1, SameMeans
<1>2. ASSUME Same(a, b, m)
      PROVE  Same(b, a, m)
  <2>1. PICK q \in Int : a = b + m*q
    BY <1>2, SameMeans
  <2>2. b = a + m*(-q) /\ -q \in Int
    BY <2>1
  <2> QED BY <2>2, SameMeans
<1>3. ASSUME Same(a, b, m), Same(b, c, m)
      PROVE  Same(a, c, m)
  <2>1. PICK q \in Int : a = b + m*q
    BY <1>3, SameMeans
  <2>2. PICK r \in Int : b = c + m*r
    BY <1>3, SameMeans
  <2>3. a = c + m*(r+q) /\ r + q \in Int
    BY <2>1, <2>2
  <2> QED BY <2>3, SameMeans
<1> QED BY <1>1, <1>2, <1>3

\* What agrees in k low-order bits agrees in fewer.
LEMMA SameInFewerBits ==
  ASSUME NEW a \in Int, NEW b \in Int, NEW j \in Nat, NEW k \in Nat, j <= k, Same(a, b, 2^k)
  PROVE  Same(a, b, 2^j)
<1>1. PICK p \in Nat \ {0}, q \in Nat \ {0}, r \in Nat \ {0} : p = 2^k /\ q = 2^j /\ p = q * r
  <2>1. 2^k \in Nat \ {0} /\ 2^j \in Nat \ {0}
    BY PowerIsNat
  <2>2. k - j \in Nat /\ 2^k = 2^j * 2^(k-j)
    BY PowerGrows
  <2>3. 2^(k-j) \in Nat \ {0}
    BY <2>2, PowerIsNat
  <2> QED BY <2>1, <2>2, <2>3
<1>2. PICK s \in Int : a = b + p*s
  BY <1>1, SameMeans
<1>3. a = b + q*(r*s) /\ r*s \in Int
  BY <1>1, <1>2
<1> QED BY <1>1, <1>3, SameMeans

-----------------------------------------------------------------------------
(* Integer types.                                                             *)

WidthTypes == DOMAIN SignedBits \cup DOMAIN UnsignedBits

LEMMA Widths ==
  ASSUME NEW t \in WidthTypes
  PROVE  Bits(t) \in Nat \ {0} /\ (IsSigned(t) \/ IsUnsigned(t))
BY WidthsAreOrdered DEF WidthTypes, Bits, IsSigned, IsUnsigned, SignedBits, UnsignedBits

LEMMA IntegerIsInterval ==
  ASSUME NEW t \in WidthTypes
  PROVE  \E lo \in Int, size \in Nat \ {0} :
            /\ size = 2^Bits(t)
            /\ Integer(t) = lo..(lo + size - 1)
            /\ 0 \in Integer(t)
<1>1. Bits(t) \in Nat \ {0}
  BY Widths
<1>2. PICK b \in Nat \ {0} : b = Bits(t)
  BY <1>1
<1>3. 2^b = 2 * 2^(b-1) /\ 2^(b-1) \in Nat \ {0} /\ 2^b \in Nat \ {0}
  BY PowerDoubles
<1>4. PICK h \in Nat \ {0} : h = 2^(b-1)
  BY <1>3
<1>5. PICK s \in Nat \ {0} : s = 2^b
  BY <1>3
<1>6. s = 2*h
  BY <1>3, <1>4, <1>5
<1>7. CASE IsSigned(t)
  <2>1. Integer(t) = -h .. (h - 1)
    BY <1>2, <1>4, <1>7 DEF Integer, Signed
  <2> QED BY <1>2, <1>5, <1>6, <2>1
<1>8. CASE ~IsSigned(t)
  <2>1. Integer(t) = 0 .. (s - 1)
    BY <1>2, <1>5, <1>8 DEF Integer, Unsigned
  <2> QED BY <1>2, <1>5, <2>1
<1> QED BY <1>7, <1>8

LEMMA WrapKeeps ==
  ASSUME NEW t \in WidthTypes, NEW n \in Int
  PROVE  /\ Wrap(t, n) \in Integer(t) /\ Integer(t) \subseteq Int
         /\ Same(Wrap(t, n), n, 2^Bits(t))
         /\ n \in Integer(t) => Wrap(t, n) = n
<1>1. PICK lo \in Int, m \in Nat \ {0} :
        m = 2^Bits(t) /\ Integer(t) = lo..(lo + m - 1)
  BY IntegerIsInterval
<1>2. \E k \in Integer(t) : (k - n) % m = 0
  <2>1. PICK r \in 0..m-1, q \in Int : n - lo = m*q + r
    <3>1. /\ n - lo = m * ((n-lo) \div m) + ((n-lo) % m)
          /\ (n-lo) \div m \in Int /\ (n-lo) % m \in 0..m-1
      BY Quotient
    <3> QED BY <3>1
  <2>2. lo + r \in Integer(t)
    BY <1>1, <2>1
  <2>3. PICK x \in Int : x = lo + r
    BY <2>1
  <2>4. x = n + m*(-q) /\ -q \in Int
    BY <2>1, <2>3
  <2>5. Same(x, n, m)
    BY <2>4, SameMeans
  <2> QED BY <2>2, <2>3, <2>5 DEF Same
<1>3. Wrap(t, n) \in Integer(t) /\ (Wrap(t, n) - n) % m = 0
  <2>1. Wrap(t, n) = CHOOSE k \in Integer(t) : (k - n) % m = 0
    BY <1>1 DEF Wrap
  <2> QED BY <1>2, <2>1
<1>4. Integer(t) \subseteq Int
  BY <1>1
<1>5. ASSUME n \in Integer(t)
      PROVE  Wrap(t, n) = n
  <2>1. PICK w \in Int : w = Wrap(t, n)
    BY <1>3, <1>4
  <2>2. PICK q \in Int : w = n + m*q
    <3>1. Same(w, n, m)
      BY <1>3, <2>1 DEF Same
    <3> QED BY <3>1, SameMeans
  <2>3. w - n <= m - 1 /\ n - w <= m - 1
    BY <1>1, <1>3, <1>5, <2>1
  <2>4. ~(q >= 1)
    <3>1. q >= 1 => m*q >= m
      OBVIOUS
    <3> QED BY <2>2, <2>3, <3>1
  <2>5. ~(q <= -1)
    <3>1. -q >= 1 => m*(-q) >= m
      OBVIOUS
    <3>2. m*(-q) = n - w
      BY <2>2
    <3> QED BY <2>3, <3>1, <3>2
  <2>6. q = 0
    BY <2>4, <2>5
  <2> QED BY <2>1, <2>2, <2>6
<1> QED BY <1>1, <1>3, <1>4, <1>5 DEF Same

-----------------------------------------------------------------------------
(* Rounding to a number of significant bits.                                  *)

LEMMA ExcessIsLeast ==
  ASSUME NEW a \in Nat, NEW b \in Nat
  PROVE  /\ Excess(a, b) \in Nat
         /\ a < 2^(b + Excess(a, b))
         /\ Excess(a, b) > 0 => a >= 2^(b + Excess(a, b) - 1)
<1> DEFINE M == {k \in Nat : a < 2^(b+k)}
<1>1. a \in M
  <2>1. a <= b + a /\ b + a \in Nat
    OBVIOUS
  <2>2. 2^a <= 2^(b+a)
    BY <2>1, PowerGrows
  <2>3. a < 2^a /\ 2^a \in Nat /\ 2^(b+a) \in Nat
    BY <2>1, PowerExceeds, PowerIsNat
  <2> QED BY <2>2, <2>3
<1>2. M \in SUBSET Nat /\ M # {}
  BY <1>1
<1> HIDE DEF M
<1>3. PICK i \in M : \A j \in M : i <= j
  BY <1>2, LeastExists
<1>4. i \in Nat /\ i <= a /\ i \in 0..a /\ a < 2^(b+i)
  BY <1>1, <1>2, <1>3 DEF M
<1>5. ASSUME i > 0
      PROVE  a >= 2^(b+i-1)
  <2>1. i - 1 \in Nat /\ i - 1 \notin M
    BY <1>2, <1>3, <1>4, <1>5
  <2>2. ~(a < 2^(b+(i-1)))
    BY <2>1 DEF M
  <2>3. b + (i-1) = b + i - 1 /\ b + (i-1) \in Nat
    BY <2>1
  <2>4. 2^(b+(i-1)) \in Nat
    BY <2>3, PowerIsNat
  <2> QED BY <2>2, <2>3, <2>4
<1>6. \E k \in 0..a : a < 2^(b+k) /\ (k > 0 => a >= 2^(b+k-1))
  BY <1>4, <1>5
<1>7. /\ Excess(a, b) \in 0..a
      /\ a < 2^(b + Excess(a, b))
      /\ Excess(a, b) > 0 => a >= 2^(b + Excess(a, b) - 1)
  BY <1>6 DEF Excess
<1> QED BY <1>7

\* b bits suffice for a, but for low-order zeroes.
Exact(a, b) == \E k \in Nat : \E q \in 0..2^b : a = 2^k * q

\* The unit of the last of b bits, and the digits down to it.
LEMMA UnitOfRound ==
  ASSUME NEW a \in Nat, NEW b \in Nat, NEW e, e = Excess(a, b)
  PROVE  \E u \in Nat \ {0}, w \in Nat \ {0} :
            e \in Nat /\ u = 2^e /\ w = 2^b /\ a < w * u /\ a \div u \in 0..w-1
<1>1. e \in Nat /\ a < 2^(b + e)
  BY ExcessIsLeast
<1>2. PICK u \in Nat \ {0} : u = 2^e
  BY <1>1, PowerIsNat
<1>3. PICK w \in Nat \ {0} : w = 2^b
  BY PowerIsNat
<1>4. a < w * u
  BY <1>1, <1>2, <1>3, PowerAdds
<1>5. PICK q \in Int, r \in 0..u-1 : q = a \div u /\ a = u * q + r
  <2>1. a \in Int /\ a = u * (a \div u) + (a % u) /\ a \div u \in Int /\ a % u \in 0..u-1
    BY Quotient
  <2> QED BY <2>1
<1>6. q >= 0
  <2>1. q <= -1 => u * (-q) >= u
    OBVIOUS
  <2>2. u * (-q) = r - a
    BY <1>5
  <2> QED BY <2>1, <2>2
<1>7. q < w
  <2>1. q >= w => u * q >= u * w
    BY <1>6
  <2>2. u * w = w * u
    OBVIOUS
  <2> QED BY <1>4, <1>5, <2>1, <2>2
<1> QED BY <1>1, <1>2, <1>3, <1>4, <1>5, <1>6, <1>7

LEMMA MagnitudeIsNat ==
  ASSUME NEW n \in Int
  PROVE  Magnitude(n) \in Nat /\ Magnitude(-n) = Magnitude(n) /\ (n >= 0 => Magnitude(n) = n)
BY DEF Magnitude

LEMMA RoundIsExact ==
  ASSUME NEW n \in Int, NEW b \in Nat \ {0}
  PROVE  Round(n, b) \in Int /\ Exact(Magnitude(Round(n, b)), b)
<1>1. PICK a \in Nat : a = Magnitude(n)
  BY MagnitudeIsNat
<1>2. PICK e : e = Excess(a, b)
  OBVIOUS
<1>3. PICK u \in Nat \ {0}, w \in Nat \ {0} :
        e \in Nat /\ u = 2^e /\ w = 2^b /\ a \div u \in 0..w-1
  BY <1>2, UnitOfRound
<1>4. PICK low \in Nat : low = a \div u /\ low \in 0..w-1
  BY <1>3
<1>5. \E q \in {low, low + 1} : Round(n, b) = IF n < 0 THEN -(u * q) ELSE u * q
  <2> PICK down \in BOOLEAN :
        down = (2*(a % u) < u \/ (2*(a % u) = u /\ low % 2 = 0))
    OBVIOUS
  <2>1. Round(n, b) = IF n < 0 THEN -(u * (IF down THEN low ELSE low + 1))
                               ELSE u * (IF down THEN low ELSE low + 1)
    BY <1>1, <1>2, <1>3, <1>4 DEF Round
  <2> QED BY <2>1
<1>6. PICK q \in 0..w : Round(n, b) = IF n < 0 THEN -(u * q) ELSE u * q
  <2>1. low \in 0..w /\ low + 1 \in 0..w
    BY <1>4
  <2> QED BY <1>5, <2>1
<1>7. PICK y \in Nat : y = u * q
  OBVIOUS
<1>8. Magnitude(Round(n, b)) = y /\ Round(n, b) \in Int
  BY <1>6, <1>7 DEF Magnitude
<1> QED BY <1>3, <1>7, <1>8 DEF Exact

LEMMA ExactIsKept ==
  ASSUME NEW n \in Int, NEW b \in Nat \ {0}, Exact(Magnitude(n), b)
  PROVE  Round(n, b) = n
<1>1. PICK a \in Nat : a = Magnitude(n)
  BY MagnitudeIsNat
<1>2. PICK e : e = Excess(a, b)
  OBVIOUS
<1>3. PICK u \in Nat \ {0}, w \in Nat \ {0} :
        e \in Nat /\ u = 2^e /\ w = 2^b /\ a < w * u /\ a \div u \in 0..w-1
  BY <1>2, UnitOfRound
<1>4. PICK k \in Nat, q \in 0..w : a = 2^k * q
  BY <1>1, <1>3 DEF Exact
<1>5. PICK p \in Nat \ {0} : p = 2^k
  BY PowerIsNat
<1>6. \E s \in Int : a = u * s
  <2>1. CASE e <= k
    <3>1. k - e \in Nat /\ 2^k = 2^e * 2^(k-e)
      BY <1>3, <2>1, PowerGrows
    <3>2. PICK v \in Nat : v = 2^(k-e)
      BY <3>1, PowerIsNat
    <3>3. a = u * (v * q) /\ v * q \in Int
      BY <1>3, <1>4, <3>1, <3>2
    <3> QED BY <3>3
  <2>2. CASE e > k
    <3>1. e \in Nat \ {0} /\ e - 1 \in Nat /\ k <= e - 1
      BY <1>3, <2>2
    <3>2. PICK v \in Nat \ {0} : v = 2^(e-1) /\ u = 2 * v
      BY <1>3, <3>1, PowerDoubles
    <3>3. p <= v
      BY <1>5, <3>1, <3>2, PowerGrows
    <3>4. a >= w * v
      <4>1. a >= 2^(b + e - 1)
        BY <1>2, <3>1, ExcessIsLeast
      <4>2. b + e - 1 = b + (e - 1)
        BY <3>1
      <4>3. 2^(b + (e-1)) = w * v
        BY <1>3, <3>1, <3>2, PowerAdds
      <4> QED BY <4>1, <4>2, <4>3
    <3>5. a <= w * v
      <4>1. a = p * q
        BY <1>4, <1>5
      <4>2. p * q <= p * w
        OBVIOUS
      <4>3. p * w <= v * w
        BY <3>3
      <4>4. v * w = w * v
        OBVIOUS
      <4> QED BY <4>1, <4>2, <4>3, <4>4
    <3>6. a = w * v
      BY <3>4, <3>5
    <3>7. PICK h \in Nat : w = 2 * h
      BY <1>3, PowerDoubles
    <3>8. a = u * h
      BY <3>2, <3>6, <3>7
    <3> QED BY <3>8
  <2> QED BY <1>3, <2>1, <2>2
<1>7. PICK s \in Int : a = u * s
  BY <1>6
<1>8. a \div u = s /\ a % u = 0
  <2>1. a = u * s + 0 /\ 0 \in 0..u-1 /\ a \in Int
    BY <1>7
  <2> QED BY <2>1, QuotientIsUnique
<1>9. Round(n, b) = IF n < 0 THEN -(u * s) ELSE u * s
  <2>1. 2*(a % u) < u
    BY <1>8
  <2> QED BY <1>1, <1>2, <1>3, <1>8, <2>1 DEF Round
<1> QED BY <1>1, <1>7, <1>9 DEF Magnitude

LEMMA RoundKeeps ==
  ASSUME NEW n \in Int, NEW b \in Nat \ {0}
  PROVE  /\ Round(n, b) \in Int
         /\ Round(Round(n, b), b) = Round(n, b)
         /\ Round(n, b) = n <=> Exact(Magnitude(n), b)
<1>1. PICK r \in Int : r = Round(n, b) /\ Exact(Magnitude(r), b)
  BY RoundIsExact
<1>2. Round(r, b) = r
  BY <1>1, ExactIsKept
<1> QED BY <1>1, <1>2, ExactIsKept

\* What fits into fewer bits fits into more.
LEMMA RoundInMoreBits ==
  ASSUME NEW n \in Int, NEW b \in Nat \ {0}, NEW c \in Nat \ {0}, b <= c, Round(n, b) = n
  PROVE  Round(n, c) = n
<1>1. PICK k \in Nat, q \in 0..2^b : Magnitude(n) = 2^k * q
  BY RoundKeeps DEF Exact
<1>2. q \in 0..2^c
  <2>1. 2^b <= 2^c /\ 2^b \in Nat /\ 2^c \in Nat
    BY PowerGrows, PowerIsNat
  <2> QED BY <2>1
<1>3. Exact(Magnitude(n), c)
  BY <1>1, <1>2 DEF Exact
<1> QED BY <1>3, RoundKeeps

-----------------------------------------------------------------------------
(* Recursion down the natural numbers: f[n] is base[n] in B, and elsewhere    *)
(* step of n and of f at an earlier point.                                    *)

Equation(f, n, B, prev, base, step) ==
  f[n] = IF n \in B THEN base[n] ELSE step[<<n, f[prev[n]]>>]

Recursion(D, B, V, prev, base, step) ==
  /\ D \subseteq Nat /\ B \subseteq D
  /\ \A n \in B : base[n] \in V
  /\ \A n \in D \ B : prev[n] \in D /\ prev[n] < n
  /\ \A n \in D \ B : \A v \in V : step[<<n, v>>] \in V

LEMMA RecursionIsUnique ==
  ASSUME NEW D, NEW B, NEW V, NEW prev, NEW base, NEW step,
         Recursion(D, B, V, prev, base, step), NEW f, NEW g, NEW k \in Nat, NEW l \in Nat,
         \A n \in D \cap 0..k : Equation(f, n, B, prev, base, step),
         \A n \in D \cap 0..l : Equation(g, n, B, prev, base, step)
  PROVE  \A n \in D : n <= k /\ n <= l => f[n] = g[n]
<1> DEFINE M == {n \in D : n <= k /\ n <= l /\ f[n] # g[n]}
<1>1. D \subseteq Nat /\ \A n \in D \ B : prev[n] \in D /\ prev[n] < n
  BY DEF Recursion
<1> SUFFICES ASSUME M # {} PROVE FALSE
  OBVIOUS
<1>2. M \in SUBSET Nat
  BY <1>1
<1> HIDE DEF M
<1>3. PICK n \in M : \A j \in M : n <= j
  BY <1>2, LeastExists
<1>4. n \in D \cap 0..k /\ n \in D \cap 0..l /\ f[n] # g[n]
  BY <1>1, <1>3 DEF M
<1>5. /\ f[n] = IF n \in B THEN base[n] ELSE step[<<n, f[prev[n]]>>]
      /\ g[n] = IF n \in B THEN base[n] ELSE step[<<n, g[prev[n]]>>]
  BY <1>4 DEF Equation
<1>6. n \in D \ B /\ f[prev[n]] # g[prev[n]]
  BY <1>4, <1>5
<1>7. prev[n] \in D /\ prev[n] < n /\ prev[n] \in Nat
  BY <1>1, <1>6
<1>8. prev[n] \in M
  BY <1>4, <1>6, <1>7 DEF M
<1> QED BY <1>3, <1>7, <1>8, <1>2

LEMMA RecursionApproximated ==
  ASSUME NEW D, NEW B, NEW V, NEW prev, NEW base, NEW step,
         Recursion(D, B, V, prev, base, step)
  PROVE  \A k \in Nat : \E f \in [D \cap 0..k -> V] :
            \A n \in D \cap 0..k : Equation(f, n, B, prev, base, step)
<1> DEFINE Upto(f, k) == /\ f \in [D \cap 0..k -> V]
                         /\ \A n \in D \cap 0..k : Equation(f, n, B, prev, base, step)
           G == {k \in Nat : \E f : Upto(f, k)}
<1>1. /\ D \subseteq Nat /\ \A n \in D \ B : prev[n] \in D /\ prev[n] < n
      /\ \A n \in B : base[n] \in V
      /\ \A n \in D \ B : \A v \in V : step[<<n, v>>] \in V
  BY DEF Recursion
<1>2. ASSUME NEW k \in Nat, \A j \in 0..k-1 : j \in G
      PROVE  k \in G
  <2>1. CASE k = 0
    <3>1. D \cap 0..k \subseteq B
      <4> SUFFICES ASSUME NEW n \in D \cap 0..k, n \notin B PROVE FALSE
        OBVIOUS
      <4>1. n = 0 /\ n \in D \ B
        BY <2>1
      <4>2. prev[n] \in Nat /\ prev[n] < n
        BY <1>1, <4>1
      <4> QED BY <4>1, <4>2
    <3> DEFINE g == [n \in D \cap 0..k |-> base[n]]
    <3>2. g \in [D \cap 0..k -> V]
      BY <1>1, <3>1
    <3>3. \A n \in D \cap 0..k : Equation(g, n, B, prev, base, step)
      BY <3>1 DEF Equation
    <3> QED BY <3>2, <3>3
  <2>2. CASE k # 0
    <3>1. k - 1 \in 0..k-1 /\ k - 1 \in Nat
      BY <2>2
    <3>2. PICK f : Upto(f, k-1)
      BY <1>2, <3>1
    <3> DEFINE g == [n \in D \cap 0..k |->
                       IF n < k THEN f[n]
                       ELSE IF n \in B THEN base[n] ELSE step[<<n, f[prev[n]]>>]]
    <3>3. ASSUME NEW n \in D \cap 0..k
          PROVE  g[n] \in V /\ Equation(g, n, B, prev, base, step)
      <4>1. n \notin B => prev[n] \in D \cap 0..k-1 /\ prev[n] \in D \cap 0..k
                          /\ g[prev[n]] = f[prev[n]]
        BY <1>1
      <4>2. n \notin B => f[prev[n]] \in V
        BY <3>2, <4>1
      <4>3. CASE n = k
        <5>1. g[n] = IF n \in B THEN base[n] ELSE step[<<n, f[prev[n]]>>]
          BY <4>3
        <5> HIDE DEF g
        <5> QED BY <1>1, <4>1, <4>2, <5>1 DEF Equation
      <4>4. CASE n < k
        <5>1. n \in D \cap 0..k-1
          BY <1>1, <4>4
        <5>2. f[n] \in V /\ Equation(f, n, B, prev, base, step)
          BY <3>2, <5>1
        <5>3. g[n] = f[n]
          BY <4>4
        <5> HIDE DEF g
        <5> QED BY <4>1, <5>2, <5>3 DEF Equation
      <4> QED BY <1>1, <4>3, <4>4
    <3>4. g \in [D \cap 0..k -> V]
      <4>1. g = [n \in D \cap 0..k |-> g[n]]
        OBVIOUS
      <4> HIDE DEF g
      <4> QED BY <3>3, <4>1
    <3> HIDE DEF g
    <3> QED BY <3>3, <3>4
  <2> QED BY <2>1, <2>2
<1> HIDE DEF G
<1>3. Inductive(G)
  BY <1>2 DEF Inductive
<1>4. \A k \in Nat : k \in G
  BY <1>3, NumberInduction
<1> QED BY <1>4 DEF G

LEMMA RecursionExists ==
  ASSUME NEW D, NEW B, NEW V, NEW prev, NEW base, NEW step,
         Recursion(D, B, V, prev, base, step)
  PROVE  \E f \in [D -> V] : \A n \in D : Equation(f, n, B, prev, base, step)
<1> DEFINE Upto(f, k) == /\ f \in [D \cap 0..k -> V]
                         /\ \A n \in D \cap 0..k : Equation(f, n, B, prev, base, step)
           F(k) == CHOOSE f : Upto(f, k)
           h == [n \in D |-> F(n)[n]]
<1>1. D \subseteq Nat /\ \A n \in D \ B : prev[n] \in D /\ prev[n] < n
  BY DEF Recursion
<1>2. \A k \in Nat : \E f : Upto(f, k)
  BY RecursionApproximated
<1> HIDE DEF Upto
<1>3. \A k \in Nat : Upto(F(k), k)
  BY <1>2
<1> HIDE DEF F
<1>4. ASSUME NEW n \in D
      PROVE  h[n] \in V /\ Equation(h, n, B, prev, base, step)
  <2>1. PICK f : f = F(n) /\ Upto(f, n)
    BY <1>1, <1>3
  <2>2. n \in D \cap 0..n /\ h[n] = f[n]
    BY <1>1, <2>1
  <2>3. f[n] \in V /\ Equation(f, n, B, prev, base, step)
    BY <2>1, <2>2 DEF Upto
  <2>4. n \notin B => f[prev[n]] = h[prev[n]]
    <3> SUFFICES ASSUME n \notin B PROVE f[prev[n]] = h[prev[n]]
      OBVIOUS
    <3>1. PICK p \in D : p = prev[n] /\ p < n /\ p \in Nat /\ n \in Nat
      BY <1>1
    <3>2. PICK g : g = F(p) /\ Upto(g, p)
      BY <1>3, <3>1
    <3>3. \A i \in D \cap 0..n : Equation(f, i, B, prev, base, step)
      BY <2>1 DEF Upto
    <3>4. \A i \in D \cap 0..p : Equation(g, i, B, prev, base, step)
      BY <3>2 DEF Upto
    <3>5. \A i \in D : i <= n /\ i <= p => f[i] = g[i]
      BY <3>1, <3>3, <3>4, RecursionIsUnique
    <3>6. f[p] = g[p]
      BY <3>1, <3>5
    <3> QED BY <3>1, <3>2, <3>6
  <2> HIDE DEF h
  <2> QED BY <2>2, <2>3, <2>4 DEF Equation
<1>5. h \in [D -> V]
  BY <1>4
<1> HIDE DEF h
<1> QED BY <1>4, <1>5

-----------------------------------------------------------------------------
(* Decimal numerals.                                                          *)

LEMMA DigitFacts ==
  /\ DOMAIN Digit = 1..10 /\ "-" \notin Digits
  /\ \A i \in 1..10 : Digit[i] \in Digits /\ DigitValue(Digit[i]) = i - 1
  /\ \A d \in Digits : DigitValue(d) \in 0..9
<1>1. DOMAIN Digit = 1..10
  BY DEF Digit
<1>2. \A i \in 1..10 : Digit[i] # "-"
  BY DEF Digit
<1>3. \A i \in 1..10 : \A j \in 1..10 : Digit[i] = Digit[j] => i = j
  BY DEF Digit
<1>4. Digits = {Digit[i] : i \in 1..10}
  BY <1>1 DEF Digits, Range
<1>5. ASSUME NEW i \in 1..10
      PROVE  DigitValue(Digit[i]) = i - 1
  <2>1. PICK d : d = Digit[i]
    OBVIOUS
  <2>2. PICK j : j = CHOOSE k \in 1..10 : Digit[k] = d
    OBVIOUS
  <2>3. j \in 1..10 /\ Digit[j] = d
    BY <2>1, <2>2
  <2>4. j = i
    BY <1>3, <2>1, <2>3
  <2> QED BY <2>1, <2>2, <2>4 DEF DigitValue
<1>6. \A d \in Digits : \E i \in 1..10 : d = Digit[i]
  BY <1>4
<1>7. "-" \notin Digits
  BY <1>2, <1>6
<1>8. \A i \in 1..10 : Digit[i] \in Digits
  BY <1>4
<1>9. \A d \in Digits : DigitValue(d) \in 0..9
  BY <1>5, <1>6
<1> QED BY <1>1, <1>5, <1>7, <1>8, <1>9

LEMMA LastFigure ==
  ASSUME NEW n \in Nat
  PROVE  /\ n % 10 \in 0..9 /\ (n % 10) + 1 \in 1..10 /\ n \div 10 \in Nat
         /\ n = 10 * (n \div 10) + (n % 10)
         /\ n >= 10 => n \div 10 < n
         /\ n < 10 => n % 10 = n
<1>1. n \in Int /\ n = 10 * (n \div 10) + (n % 10) /\ n \div 10 \in Int /\ n % 10 \in 0..9
  BY Quotient
<1>2. PICK q \in Int, r \in 0..9 : q = n \div 10 /\ r = n % 10 /\ n = 10*q + r
  BY <1>1
<1>3. q >= 0 /\ (n >= 10 => q < n) /\ (n < 10 => r = n)
  BY <1>2
<1> QED BY <1>1, <1>2, <1>3

LEMMA FiguresMeans ==
  ASSUME NEW n \in Nat
  PROVE  /\ Figures[n] \in Seq(Digits)
         /\ Figures[n] = (IF n >= 10 THEN Figures[n \div 10] ELSE <<>>) \o <<Digit[(n % 10) + 1]>>
<1> DEFINE V == Seq(Digits)
           prev == [i \in Nat |-> i \div 10]
           base == [i \in Nat |-> <<>> \o <<Digit[(i % 10) + 1]>>]
           step == [p \in Nat \X V |-> p[2] \o <<Digit[(p[1] % 10) + 1]>>]
           Body(f) == [i \in Nat |-> (IF i >= 10 THEN f[i \div 10] ELSE <<>>)
                                        \o <<Digit[(i % 10) + 1]>>]
<1>1. \A i \in Nat : <<Digit[(i % 10) + 1]>> \in V
  <2> SUFFICES ASSUME NEW i \in Nat PROVE <<Digit[(i % 10) + 1]>> \in V
    OBVIOUS
  <2>1. Digit[(i % 10) + 1] \in Digits
    BY LastFigure, DigitFacts
  <2> QED BY <2>1
<1>2. \A i \in Nat : base[i] \in V
  <2> SUFFICES ASSUME NEW i \in Nat PROVE base[i] \in V
    OBVIOUS
  <2>1. <<>> \in V
    OBVIOUS
  <2> HIDE DEF V
  <2>2. <<>> \o <<Digit[(i % 10) + 1]>> \in V
    BY <1>1, <2>1, ConcatProperties DEF V
  <2> QED BY <2>2
<1>3. \A i \in Nat, v \in V : step[<<i, v>>] \in V
  <2> SUFFICES ASSUME NEW i \in Nat, NEW v \in V PROVE step[<<i, v>>] \in V
    OBVIOUS
  <2>1. v \o <<Digit[(i % 10) + 1]>> \in V
    BY <1>1, ConcatProperties
  <2> QED BY <2>1
<1>4. \A i \in Nat \ 0..9 : prev[i] \in Nat /\ prev[i] < i
  BY LastFigure
<1> HIDE DEF V, base, step
<1>5. Recursion(Nat, 0..9, V, prev, base, step)
  BY <1>2, <1>3, <1>4 DEF Recursion
<1>6. PICK f \in [Nat -> V] : \A i \in Nat : Equation(f, i, 0..9, prev, base, step)
  BY <1>5, RecursionExists
<1>7. f = Body(f)
  <2> SUFFICES ASSUME NEW i \in Nat
               PROVE  f[i] = (IF i >= 10 THEN f[i \div 10] ELSE <<>>) \o <<Digit[(i % 10) + 1]>>
    BY <1>6
  <2>1. f[i] = IF i \in 0..9 THEN base[i] ELSE step[<<i, f[prev[i]]>>]
    BY <1>6 DEF Equation
  <2>2. CASE i \in 0..9
    <3>1. ~(i >= 10)
      BY <2>2
    <3> QED BY <2>1, <2>2, <3>1 DEF base
  <2>3. CASE i \notin 0..9
    <3>1. i >= 10 /\ prev[i] = i \div 10 /\ i \div 10 \in Nat
      BY <2>3, LastFigure
    <3>2. f[i \div 10] \in V
      BY <1>6, <3>1
    <3>3. step[<<i, f[i \div 10]>>] = f[i \div 10] \o <<Digit[(i % 10) + 1]>>
      BY <3>2 DEF step
    <3> QED BY <2>1, <2>3, <3>1, <3>3
  <2> QED BY <2>2, <2>3
<1> HIDE DEF Body
<1>8. Figures = CHOOSE g : g = Body(g)
  BY DEF Figures, Body
<1>9. Figures = Body(Figures)
  BY <1>7, <1>8
<1>10. \A i \in Nat : Figures[i] = (IF i >= 10 THEN Figures[i \div 10] ELSE <<>>)
                                      \o <<Digit[(i % 10) + 1]>>
  <2> SUFFICES ASSUME NEW i \in Nat
               PROVE  Figures[i] = (IF i >= 10 THEN Figures[i \div 10] ELSE <<>>)
                                      \o <<Digit[(i % 10) + 1]>>
    OBVIOUS
  <2> PICK g : g = Figures
    OBVIOUS
  <2>1. g = Body(g)
    BY <1>9
  <2>2. g[i] = (IF i >= 10 THEN g[i \div 10] ELSE <<>>) \o <<Digit[(i % 10) + 1]>>
    BY <2>1 DEF Body
  <2> QED BY <2>2
<1> DEFINE G == {i \in Nat : Figures[i] \in V}
<1>11. ASSUME NEW i \in Nat, \A j \in 0..i-1 : j \in G
       PROVE  i \in G
  <2>1. CASE i >= 10
    <3>1. i \div 10 \in 0..i-1
      BY <2>1, LastFigure
    <3>2. Figures[i \div 10] \in V
      BY <1>11, <3>1
    <3>3. Figures[i \div 10] \o <<Digit[(i % 10) + 1]>> \in V
      BY <1>1, <3>2, ConcatProperties DEF V
    <3> QED BY <1>10, <2>1, <3>3
  <2>2. CASE ~(i >= 10)
    <3>1. Figures[i] = base[i]
      BY <1>10, <2>2 DEF base
    <3> QED BY <1>2, <3>1
  <2> QED BY <2>1, <2>2
<1> HIDE DEF G
<1>12. \A i \in Nat : i \in G
  <2>1. Inductive(G)
    BY <1>11 DEF Inductive
  <2> QED BY <2>1, NumberInduction
<1>13. Figures[n] \in V
  BY <1>12 DEF G
<1> QED BY <1>10, <1>13 DEF V

LEMMA Appended ==
  ASSUME NEW S, NEW s \in Seq(S), NEW d \in S
  PROVE  /\ <<>> \in Seq(S) /\ Len(<<>>) = 0 /\ Len(s) \in Nat
         /\ s \o <<d>> \in Seq(S) /\ s \o <<d>> # <<>>
         /\ Len(s \o <<d>>) = Len(s) + 1 /\ (s \o <<d>>)[Len(s) + 1] = d
         /\ \A i \in 1..Len(s) : (s \o <<d>>)[i] = s[i]
<1>1. <<d>> \in Seq(S) /\ Len(<<d>>) = 1 /\ <<d>>[1] = d
  OBVIOUS
<1>2. PICK t : t = <<d>>
  OBVIOUS
<1>3. PICK n \in Nat : n = Len(s)
  BY LenProperties
<1>4. /\ s \o t \in Seq(S) /\ Len(s \o t) = n + 1
      /\ \A i \in 1..n+1 : (s \o t)[i] = IF i <= n THEN s[i] ELSE t[i-n]
  BY <1>1, <1>2, <1>3, ConcatProperties
<1>5. (s \o t)[n+1] = d /\ \A i \in 1..n : (s \o t)[i] = s[i]
  BY <1>1, <1>2, <1>4
<1>6. s \o t # <<>>
  BY <1>4, EmptySeq
<1> QED BY <1>2, <1>3, <1>4, <1>5, <1>6, EmptySeq

LEMMA DigitsValueMeans ==
  ASSUME NEW d \in Seq(Digits)
  PROVE  \E v \in [0..Len(d) -> Nat] :
           /\ v[0] = 0 /\ DigitsValue(d) = v[Len(d)]
           /\ \A i \in 1..Len(d) : v[i] = 10 * v[i-1] + DigitValue(d[i])
<1> PICK N \in Nat : N = Len(d)
  OBVIOUS
<1> DEFINE D == 0..N
           prev == [i \in D |-> i - 1]
           base == [i \in D |-> 0]
           step == [p \in D \X Nat |-> 10 * p[2] + DigitValue(d[p[1]])]
           Body(f) == [i \in 0..Len(d) |->
                         IF i = 0 THEN 0 ELSE 10 * f[i-1] + DigitValue(d[i])]
<1>1. \A i \in 1..N : DigitValue(d[i]) \in Nat
  BY DigitFacts
<1>2. \A i \in D \ {0}, v \in Nat : step[<<i, v>>] = 10 * v + DigitValue(d[i])
  OBVIOUS
<1>3. Recursion(D, {0}, Nat, prev, base, step)
  <2>1. D \subseteq Nat /\ {0} \subseteq D /\ \A i \in {0} : base[i] \in Nat
    OBVIOUS
  <2>2. \A i \in D \ {0} : prev[i] \in D /\ prev[i] < i
    OBVIOUS
  <2>3. \A i \in D \ {0} : \A v \in Nat : step[<<i, v>>] \in Nat
    <3> SUFFICES ASSUME NEW i \in D \ {0}, NEW v \in Nat PROVE step[<<i, v>>] \in Nat
      OBVIOUS
    <3>1. step[<<i, v>>] = 10 * v + DigitValue(d[i]) /\ i \in 1..N
      BY <1>2
    <3>2. DigitValue(d[i]) \in Nat
      BY <1>1, <3>1
    <3> HIDE DEF step
    <3> QED BY <3>1, <3>2
  <2> HIDE DEF D, prev, base, step
  <2> QED BY <2>1, <2>2, <2>3 DEF Recursion
<1>4. PICK f \in [D -> Nat] : \A i \in D : Equation(f, i, {0}, prev, base, step)
  <2> HIDE DEF D, prev, base, step
  <2> QED BY <1>3, RecursionExists
<1>5. f[0] = 0 /\ \A i \in 1..N : f[i] = 10 * f[i-1] + DigitValue(d[i])
  <2>1. f[0] = 0
    <3>1. 0 \in D /\ base[0] = 0
      OBVIOUS
    <3> HIDE DEF D, prev, base, step
    <3> QED BY <1>4, <3>1 DEF Equation
  <2>2. ASSUME NEW i \in 1..N
        PROVE  f[i] = 10 * f[i-1] + DigitValue(d[i])
    <3>1. i \in D \ {0} /\ prev[i] = i - 1 /\ i - 1 \in D
      OBVIOUS
    <3> HIDE DEF D, prev, base, step
    <3>2. f[i] = step[<<i, f[prev[i]]>>] /\ f[i-1] \in Nat
      BY <1>4, <3>1 DEF Equation
    <3> QED BY <1>2, <3>1, <3>2
  <2> QED BY <2>1, <2>2
<1>6. f = Body(f)
  BY <1>5
<1> DEFINE v == CHOOSE g : g = Body(g)
<1> HIDE DEF Body
<1>7. v = Body(v)
  BY <1>6
<1>8. DigitsValue(d) = v[N]
  BY DEF DigitsValue, Body
<1> HIDE DEF v
<1>9. /\ v = [i \in 0..N |-> v[i]] /\ v[0] = 0
      /\ \A i \in 1..N : v[i] = 10 * v[i-1] + DigitValue(d[i])
  <2> PICK g : g = v
    OBVIOUS
  <2>1. g = [i \in 0..N |-> IF i = 0 THEN 0 ELSE 10 * g[i-1] + DigitValue(d[i])]
    BY <1>7 DEF Body
  <2> QED BY <2>1
<1> DEFINE G == {i \in Nat : i <= N => v[i] \in Nat}
<1>10. ASSUME NEW i \in Nat, \A j \in 0..i-1 : j \in G
       PROVE  i \in G
  <2>1. CASE i = 0
    BY <1>9, <2>1
  <2>2. CASE i # 0 /\ i <= N
    <3>1. i - 1 \in 0..i-1 /\ i - 1 <= N /\ i \in 1..N
      BY <2>2
    <3>2. v[i-1] \in Nat
      BY <1>10, <3>1
    <3>3. v[i] = 10 * v[i-1] + DigitValue(d[i]) /\ DigitValue(d[i]) \in Nat
      BY <1>1, <1>9, <3>1
    <3> QED BY <3>2, <3>3
  <2> QED BY <2>1, <2>2
<1> HIDE DEF G
<1>11. \A i \in Nat : i \in G
  <2>1. Inductive(G)
    BY <1>10 DEF Inductive
  <2> QED BY <2>1, NumberInduction
<1>12. v \in [0..N -> Nat]
  BY <1>9, <1>11 DEF G
<1> QED BY <1>8, <1>9, <1>12

\* The value of a numeral grows with its last digit.
LEMMA DigitsValueAppends ==
  ASSUME NEW s \in Seq(Digits), NEW d \in Digits
  PROVE  /\ DigitsValue(s) \in Nat /\ DigitsValue(<<>>) = 0
         /\ s \o <<d>> \in Seq(Digits)
         /\ DigitsValue(s \o <<d>>) = 10 * DigitsValue(s) + DigitValue(d)
<1>1. PICK t \in Seq(Digits) : t = s \o <<d>>
  BY Appended
<1>2. PICK n \in Nat : n = Len(s)
  BY Appended
<1>3. Len(t) = n + 1 /\ t[n+1] = d /\ \A i \in 1..n : t[i] = s[i]
  BY <1>1, <1>2, Appended
<1>4. PICK v \in [0..n -> Nat] :
        /\ v[0] = 0 /\ DigitsValue(s) = v[n]
        /\ \A i \in 1..n : v[i] = 10 * v[i-1] + DigitValue(s[i])
  BY <1>2, DigitsValueMeans
<1>5. PICK w \in [0..n+1 -> Nat] :
        /\ w[0] = 0 /\ DigitsValue(t) = w[n+1]
        /\ \A i \in 1..n+1 : w[i] = 10 * w[i-1] + DigitValue(t[i])
  <2>1. \E w \in [0..Len(t) -> Nat] :
           /\ w[0] = 0 /\ DigitsValue(t) = w[Len(t)]
           /\ \A i \in 1..Len(t) : w[i] = 10 * w[i-1] + DigitValue(t[i])
    BY DigitsValueMeans
  <2> QED BY <1>3, <2>1
<1> DEFINE G == {i \in Nat : i <= n => v[i] = w[i]}
<1>6. ASSUME NEW i \in Nat, \A j \in 0..i-1 : j \in G
      PROVE  i \in G
  <2>1. CASE i = 0
    BY <1>4, <1>5, <2>1
  <2>2. CASE i # 0 /\ i <= n
    <3>1. i - 1 \in 0..i-1 /\ i - 1 <= n /\ i \in 1..n /\ i \in 1..n+1
      BY <2>2
    <3>2. v[i-1] = w[i-1]
      BY <1>6, <3>1
    <3>3. v[i] = 10 * v[i-1] + DigitValue(s[i])
      BY <1>4, <3>1
    <3>4. w[i] = 10 * w[i-1] + DigitValue(t[i])
      BY <1>5, <3>1
    <3> QED BY <1>3, <3>1, <3>2, <3>3, <3>4
  <2> QED BY <2>1, <2>2
<1> HIDE DEF G
<1>7. \A i \in Nat : i \in G
  <2>1. Inductive(G)
    BY <1>6 DEF Inductive
  <2> QED BY <2>1, NumberInduction
<1>8. v[n] = w[n]
  BY <1>7 DEF G
<1>9. w[n+1] = 10 * w[n] + DigitValue(d)
  <2>1. n + 1 \in 1..n+1 /\ n + 1 - 1 = n
    OBVIOUS
  <2> QED BY <1>3, <1>5, <2>1
<1>10. DigitsValue(<<>>) = 0
  <2>1. PICK e \in Seq(Digits) : e = <<>> /\ Len(e) = 0
    BY EmptySeq
  <2>2. \E u \in [0..Len(e) -> Nat] : u[0] = 0 /\ DigitsValue(e) = u[Len(e)]
    BY DigitsValueMeans
  <2> QED BY <2>1, <2>2
<1>11. v[n] \in Nat
  OBVIOUS
<1> QED BY <1>1, <1>4, <1>5, <1>8, <1>9, <1>10, <1>11

LEMMA FiguresAreRead ==
  ASSUME NEW n \in Nat
  PROVE  Figures[n] \in Seq(Digits) /\ Figures[n] # <<>> /\ DigitsValue(Figures[n]) = n
<1> DEFINE G == {i \in Nat : DigitsValue(Figures[i]) = i}
<1>1. ASSUME NEW i \in Nat, \A j \in 0..i-1 : j \in G
      PROVE  i \in G
  <2>1. PICK s \in Seq(Digits) : s = IF i >= 10 THEN Figures[i \div 10] ELSE <<>>
    <3>1. i \div 10 \in Nat
      BY LastFigure
    <3>2. Figures[i \div 10] \in Seq(Digits)
      BY <3>1, FiguresMeans
    <3>3. <<>> \in Seq(Digits)
      BY EmptySeq
    <3> QED BY <3>2, <3>3
  <2>2. PICK d \in Digits : d = Digit[(i % 10) + 1] /\ DigitValue(d) = i % 10
    BY LastFigure, DigitFacts
  <2>3. Figures[i] = s \o <<d>>
    BY <2>1, <2>2, FiguresMeans
  <2>4. DigitsValue(Figures[i]) = 10 * DigitsValue(s) + (i % 10)
    BY <2>2, <2>3, DigitsValueAppends
  <2>5. CASE i >= 10
    <3>1. i \div 10 \in 0..i-1
      BY <2>5, LastFigure
    <3>2. DigitsValue(s) = i \div 10
      BY <1>1, <2>1, <2>5, <3>1
    <3> QED BY <2>4, <3>2, LastFigure
  <2>6. CASE ~(i >= 10)
    <3>1. DigitsValue(s) = 0
      BY <2>1, <2>2, <2>6, DigitsValueAppends
    <3> QED BY <2>4, <2>6, <3>1, LastFigure
  <2> QED BY <2>5, <2>6
<1> HIDE DEF G
<1>2. \A i \in Nat : i \in G
  <2>1. Inductive(G)
    BY <1>1 DEF Inductive
  <2> QED BY <2>1, NumberInduction
<1>3. Figures[n] # <<>>
  <2>1. PICK s \in Seq(Digits), d \in Digits : Figures[n] = s \o <<d>>
    <3>1. n \div 10 \in Nat
      BY LastFigure
    <3>2. Figures[n \div 10] \in Seq(Digits) /\ <<>> \in Seq(Digits)
      BY <3>1, FiguresMeans, EmptySeq
    <3>3. Digit[(n % 10) + 1] \in Digits
      BY LastFigure, DigitFacts
    <3> QED BY <3>2, <3>3, FiguresMeans
  <2> QED BY <2>1, Appended
<1> QED BY <1>2, <1>3, FiguresMeans DEF G

\* The characters of the strings on the way.
Char == STRING \cup Digits \cup Range(Logic) \cup {"-", "N", "a"}

LEMMA NumeralIsRead ==
  ASSUME NEW n \in Int
  PROVE  /\ Numeral(n) \in Seq(Char) /\ IsNumeral(Numeral(n))
         /\ NumeralValue(Numeral(n)) = n
<1>1. CASE n >= 0
  <2>1. PICK s \in Seq(Digits) : s = Figures[n] /\ s # <<>> /\ DigitsValue(s) = n
    BY <1>1, FiguresAreRead
  <2>2. Numeral(n) = s
    BY <1>1, <2>1 DEF Numeral
  <2>3. Len(s) \in Nat \ {0} /\ DOMAIN s = 1..Len(s) /\ \A i \in 1..Len(s) : s[i] \in Digits
    BY <2>1, EmptySeq, LenProperties, ElementOfSeq
  <2>4. s[1] # "-"
    BY <2>3, DigitFacts
  <2>5. Unsign(s) = s /\ NumeralValue(s) = n
    BY <2>1, <2>4 DEF Unsign, NumeralValue
  <2>6. IsNumeral(s)
    BY <2>1, <2>3, <2>5 DEF IsNumeral
  <2>7. s \in Seq(Char)
    BY SeqMonotonic DEF Char
  <2> QED BY <2>2, <2>5, <2>6, <2>7
<1>2. CASE n < 0
  <2>1. PICK s \in Seq(Digits) : s = Figures[-n] /\ s # <<>> /\ DigitsValue(s) = -n
    <3>1. -n \in Nat
      BY <1>2
    <3> QED BY <3>1, FiguresAreRead
  <2>2. PICK t : t = <<"-">> \o s
    OBVIOUS
  <2>3. s \in Seq(Char) /\ <<"-">> \in Seq(Char) /\ Len(<<"-">>) = 1
    BY SeqMonotonic DEF Char
  <2>4. /\ t \in Seq(Char) /\ Len(t) = 1 + Len(s) /\ Len(s) \in Nat
        /\ \A i \in 1..1 + Len(s) : t[i] = IF i <= 1 THEN <<"-">>[i] ELSE s[i-1]
    BY <2>2, <2>3, ConcatProperties, LenProperties
  <2>5. t[1] = "-" /\ t # <<>>
    BY <2>4, EmptySeq
  <2>6. Tail(t) = s
    <3>1. /\ Tail(t) \in Seq(Char) /\ Len(Tail(t)) = Len(s)
          /\ \A i \in 1..Len(s) : Tail(t)[i] = t[i+1]
      BY <2>4, <2>5, HeadTailProperties
    <3>2. \A i \in 1..Len(s) : Tail(t)[i] = s[i]
      BY <2>4, <3>1
    <3> QED BY <2>3, <3>1, <3>2, SeqEqual
  <2>7. Unsign(t) = s /\ NumeralValue(t) = n
    <3>1. Unsign(t) = s /\ NumeralValue(t) = -DigitsValue(s)
      BY <2>5, <2>6 DEF Unsign, NumeralValue
    <3>2. -(-n) = n
      OBVIOUS
    <3> QED BY <2>1, <3>1, <3>2
  <2>8. DOMAIN s = 1..Len(s) /\ \A i \in 1..Len(s) : s[i] \in Digits
    BY LenProperties, ElementOfSeq
  <2>9. IsNumeral(t)
    BY <2>1, <2>7, <2>8 DEF IsNumeral
  <2>10. Numeral(n) = t
    BY <1>2, <2>1, <2>2 DEF Numeral
  <2> QED BY <2>4, <2>7, <2>9, <2>10
<1> QED BY <1>1, <1>2

LEMMA NumeralHasValue ==
  ASSUME NEW s \in Seq(Char), IsNumeral(s)
  PROVE  NumeralValue(s) \in Int
<1>1. s # <<>>
  BY DEF IsNumeral, Unsign
<1>2. PICK d \in Seq(Char) : d = Unsign(s)
  BY <1>1, HeadTailProperties DEF Unsign
<1>3. Len(d) \in Nat /\ d \in [1..Len(d) -> Char] /\ DOMAIN d = 1..Len(d)
  BY LenProperties
<1>4. d \in Seq(Digits)
  <2>1. d \in [1..Len(d) -> Digits]
    BY <1>2, <1>3 DEF IsNumeral
  <2> QED BY <1>3, <2>1, SeqDef
<1>5. DigitsValue(d) \in Nat
  <2>1. \E v \in [0..Len(d) -> Nat] : DigitsValue(d) = v[Len(d)]
    BY <1>4, DigitsValueMeans
  <2> QED BY <1>3, <2>1
<1> QED BY <1>1, <1>2, <1>5 DEF NumeralValue, Unsign

LEMMA DigitIsNumeral ==
  ASSUME NEW d \in Digits
  PROVE  /\ IsNumeral(<<d>>) /\ NumeralValue(<<d>>) = DigitValue(d)
<1>1. PICK s \in Seq(Digits) : s = <<>> /\ DigitsValue(s) = 0
  BY EmptySeq, DigitsValueAppends
<1>2. PICK t : t = <<d>>
  OBVIOUS
<1>3. t = s \o <<d>>
  BY <1>1, <1>2
<1>4. DigitsValue(t) = 10 * DigitsValue(s) + DigitValue(d)
  BY <1>3, DigitsValueAppends
<1>5. DigitsValue(t) = DigitValue(d)
  <2>1. DigitValue(d) \in Nat
    BY DigitFacts
  <2> QED BY <1>1, <1>4, <2>1
<1>6. t[1] = d /\ d # "-" /\ DOMAIN t = 1..1 /\ t # <<>>
  BY <1>2, DigitFacts
<1>7. Unsign(t) = t
  BY <1>6 DEF Unsign
<1>8. IsNumeral(t)
  <2>1. \A i \in DOMAIN t : t[i] \in Digits
    BY <1>6
  <2> QED BY <1>6, <1>7, <2>1 DEF IsNumeral
<1>9. NumeralValue(t) = DigitsValue(t)
  BY <1>6 DEF NumeralValue
<1> QED BY <1>2, <1>5, <1>8, <1>9

LEMMA TextIsNumber ==
  ASSUME NEW s \in Seq(Char)
  PROVE  TextNumber(s) \in Int \cup {NoNumber}
BY NumeralHasValue DEF TextNumber

\* What a floating-point or a fixed-point object holds.
Number == Int \cup {NoNumber}

LEMMA NoNumberIsNone == NoNumber \notin Int
BY WidthsAreOrdered

LEMMA FloatKeeps ==
  ASSUME NEW n \in Number, NEW b \in Nat \ {0}
  PROVE  /\ Float(n, b) \in Number /\ Float(Float(n, b), b) = Float(n, b)
         /\ n \in Int => Float(n, b) = Round(n, b)
<1>1. CASE n = NoNumber
  BY <1>1, NoNumberIsNone DEF Float, Number
<1>2. CASE n \in Int
  <2>1. PICK r \in Int : r = Round(n, b) /\ Round(r, b) = r
    BY <1>2, RoundKeeps
  <2>2. n # NoNumber /\ r # NoNumber
    BY <1>2, NoNumberIsNone
  <2> QED BY <2>1, <2>2 DEF Float, Number
<1> QED BY <1>1, <1>2 DEF Number

LEMMA FloatInMoreBits ==
  ASSUME NEW n \in Number, NEW a \in Nat \ {0}, NEW b \in Nat \ {0}, a <= b, Float(n, a) = n
  PROVE  Float(n, b) = n
<1>1. CASE n \in Int
  <2>1. Round(n, a) = n
    BY <1>1, FloatKeeps
  <2>2. Round(n, b) = n
    BY <1>1, <2>1, RoundInMoreBits
  <2> QED BY <1>1, <2>2, FloatKeeps
<1>2. CASE n = NoNumber
  BY <1>2 DEF Float
<1> QED BY <1>1, <1>2 DEF Number

\* A logic value for every character.
LEMMA LogicOfIs ==
  /\ Range(Logic) = {"0", "1", "Z", "X"}
  /\ \A d : LogicOf(d) \in Range(Logic)
  /\ \A d \in Range(Logic) : LogicOf(d) = d
<1>1. Range(Logic) = {"0", "1", "Z", "X"}
  BY DEF Logic, Range
<1> QED BY <1>1 DEF LogicOf

-----------------------------------------------------------------------------
(* The types, in the groups that are converted alike.                         *)

Integers4 == {"int", "unsigned", "int64", "uint64"}
Narrow == {"char", "uchar"}
Wide == {"sc_int", "sc_uint", "sc_signed", "sc_bigint", "sc_unsigned", "sc_biguint"}
Vector == {"vector_int", "vector_int64"}
BitVector == {"sc_bv", "sc_lv"}
FixedTypes == {"sc_fix", "sc_ufix"}
Others == {"bool", "double", "string", "float", "sc_logic", "sc_time", "sc_fxval",
           "sc_fxval_fast", "chars", "array"}

LEMMA TypesAre ==
  /\ Types = Integers4 \cup Narrow \cup Wide \cup Vector \cup BitVector \cup FixedTypes
             \cup Others
  /\ WidthTypes = Integers4 \cup Narrow \cup Wide
  /\ \A t : IsSigned(t) \/ IsUnsigned(t) <=> t \in WidthTypes
  /\ DOMAIN Underlying = Narrow \cup {"float"} /\ DOMAIN Element = Vector
  /\ DOMAIN Fixed = FixedTypes
BY DEF Types, Builtin, Underlying, Element, Fixed, SignedBits, UnsignedBits, Integers4, Narrow,
       Wide, Vector, BitVector, FixedTypes, Others, WidthTypes, IsSigned, IsUnsigned

LEMMA FixedIs ==
  ASSUME NEW t \in FixedTypes
  PROVE  Fixed[t] \in WidthTypes /\ Bits(Fixed[t]) = WideBits
BY TypesAre DEF FixedTypes, Fixed, Wide, Bits, IsSigned, SignedBits, UnsignedBits

\* What an object of type t may hold, whatever it was read from.
IsContent(t, x) ==
  CASE t \in WidthTypes -> x \in Integer(t)
    [] t = "bool"       -> x \in {0, 1}
    [] t \in {"double", "sc_fxval_fast"} -> x \in Number /\ Float(x, DoubleBits) = x
    [] t = "float"      -> x \in Number /\ Float(x, FloatBits) = x
    [] t = "string"     -> x \in Seq(Char)
    [] t = "chars"      -> x \in Seq(Char) /\ Len(x) < CharN
    [] t = "sc_logic"   -> x \in Range(Logic)
    [] t = "sc_bv"      -> x \in [1..VectorBits -> {"0", "1"}]
    [] t = "sc_lv"      -> x \in [1..VectorBits -> Range(Logic)]
    [] t = "sc_time"    -> x \in 0..(2^LongBits - 1)
    [] t = "sc_fxval"   -> x \in Number
    [] t \in FixedTypes -> x \in Integer(Fixed[t]) \cup {NoNumber}
    [] t = "array"      -> x \in [1..ArrayN -> Integer("int")]
    [] t \in Vector     -> x \in Seq(Integer(Element[t]))

LEMMA ContentIs ==
  ASSUME NEW x
  PROVE  /\ \A t \in WidthTypes : IsContent(t, x) <=> x \in Integer(t)
         /\ IsContent("bool", x) <=> x \in {0, 1}
         /\ IsContent("double", x) <=> x \in Number /\ Float(x, DoubleBits) = x
         /\ IsContent("sc_fxval_fast", x) <=> x \in Number /\ Float(x, DoubleBits) = x
         /\ IsContent("float", x) <=> x \in Number /\ Float(x, FloatBits) = x
         /\ IsContent("string", x) <=> x \in Seq(Char)
         /\ IsContent("chars", x) <=> x \in Seq(Char) /\ Len(x) < CharN
         /\ IsContent("sc_logic", x) <=> x \in Range(Logic)
         /\ IsContent("sc_bv", x) <=> x \in [1..VectorBits -> {"0", "1"}]
         /\ IsContent("sc_lv", x) <=> x \in [1..VectorBits -> Range(Logic)]
         /\ IsContent("sc_time", x) <=> x \in 0..(2^LongBits - 1)
         /\ IsContent("sc_fxval", x) <=> x \in Number
         /\ \A t \in FixedTypes : IsContent(t, x) <=> x \in Integer(Fixed[t]) \cup {NoNumber}
         /\ IsContent("array", x) <=> x \in [1..ArrayN -> Integer("int")]
         /\ \A t \in Vector : IsContent(t, x) <=> x \in Seq(Integer(Element[t]))
BY TypesAre DEF IsContent, Integers4, Narrow, Wide, Vector, FixedTypes

WideText == {"sc_signed", "sc_bigint", "sc_unsigned", "sc_biguint"}
Reals == {"double", "float", "sc_fxval_fast"}

LEMMA PackIs ==
  ASSUME NEW x
  PROVE  /\ \A t \in Integers4 \cup Narrow \cup {"sc_int", "sc_uint"} : Pack(t, x) = <<"integer", x>>
         /\ \A t \in WideText : Pack(t, x) = PackWide(t, x)
         /\ \A t \in Reals : Pack(t, x) = <<"real", x>>
         /\ \A t \in BitVector \cup {"string", "chars"} : Pack(t, x) = <<"string", x>>
         /\ \A t \in Vector \cup {"array"} : Pack(t, x) = PackList(x)
         /\ Pack("bool", x) = <<"bool", x>>
         /\ \A t \in {"sc_fxval"} \cup FixedTypes : Pack(t, x) = <<"string", FxText(x)>>
         /\ Pack("sc_time", x) = PackTime(x)
         /\ Pack("sc_logic", x) = PackLogic(x)
BY TypesAre DEF Pack, PackInteger, PackReal, PackString, Integers4, Narrow, WideText, Reals,
                BitVector, Vector, FixedTypes

FxTypes == {"sc_fxval", "sc_fxval_fast"} \cup FixedTypes

LEMMA UnpackIs ==
  ASSUME NEW c, NEW x
  PROVE  /\ \A t \in Integers4 : Unpack(t, c, x) = IF IsInteger(c, t) THEN Done(c[2]) ELSE Refused(x)
         /\ Unpack("bool", c, x) = IF IsBool(c) THEN Done(c[2]) ELSE Refused(x)
         /\ Unpack("double", c, x) = IF IsNumber(c) THEN Done(GetDouble(c)) ELSE Refused(x)
         /\ Unpack("string", c, x) = IF IsString(c) THEN Done(c[2]) ELSE Refused(x)
         /\ \A t \in Narrow \cup {"float"} : Unpack(t, c, x) = UnpackDelegate(t, c, x)
         /\ \A t \in Wide : Unpack(t, c, x) = UnpackWide(t, c, x)
         /\ \A t \in FxTypes : Unpack(t, c, x) = UnpackFx(t, c, x)
         /\ Unpack("sc_bv", c, x) = UnpackBits(c, x)
         /\ Unpack("sc_lv", c, x) = UnpackLogicVector(c, x)
         /\ \A t \in Vector : Unpack(t, c, x) = UnpackVector(t, c, x)
         /\ Unpack("sc_time", c, x) = UnpackTime(c, x)
         /\ Unpack("sc_logic", c, x) = UnpackLogic(c, x)
         /\ Unpack("chars", c, x) = UnpackChars(c, x)
         /\ Unpack("array", c, x) = UnpackArray(c, x)
BY TypesAre DEF Unpack, UnpackBuiltin, Is, Builtin, Integers4, Narrow, Wide, Vector, FxTypes,
                FixedTypes

\* The narrower types: through the type they delegate to.
LEMMA DelegateIs ==
  ASSUME NEW c, NEW x
  PROVE  /\ Unpack("char", c, x) = IF IsInteger(c, "int") THEN Done(Wrap("char", c[2])) ELSE Refused(x)
         /\ Unpack("uchar", c, x) =
              IF IsInteger(c, "unsigned") THEN Done(Wrap("uchar", c[2])) ELSE Refused(x)
         /\ Unpack("float", c, x) =
              IF IsNumber(c) THEN Done(Float(GetDouble(c), FloatBits)) ELSE Refused(x)
<1>1. /\ Underlying["char"] = "int" /\ Underlying["uchar"] = "unsigned"
      /\ Underlying["float"] = "double"
  BY DEF Underlying
<1>2. \A t \in Narrow \cup {"float"} : Unpack(t, c, x) = UnpackDelegate(t, c, x)
  BY UnpackIs
<1> QED BY <1>1, <1>2
        DEF UnpackDelegate, UnpackBuiltin, Is, Done, Refused, Cast, Narrow

LEMMA NumberIs ==
  ASSUME NEW x
  PROVE  /\ \A t \in WidthTypes \cup Reals \cup FxTypes \cup {"bool"} : NumberOf(t, x) = x
         /\ NumberOf("sc_logic", x) = CASE x = "1" -> 1 [] x = "0" -> 0 [] OTHER -> NoNumber
         /\ \A t \in {"string", "chars"} : NumberOf(t, x) = TextNumber(x)
         /\ \A t \in BitVector \cup Vector \cup {"sc_time", "array", "none"} :
               NumberOf(t, x) = NoNumber
BY TypesAre DEF NumberOf, Integers4, Narrow, Wide, Reals, BitVector, Vector, FxTypes, FixedTypes

LEMMA HoldsIs ==
  ASSUME NEW n \in Int
  PROVE  /\ \A t \in WidthTypes : Holds(t, n) <=> n \in Integer(t)
         /\ \A t \in {"bool", "sc_logic"} : Holds(t, n) <=> n \in {0, 1}
         /\ \A t \in {"double", "sc_fxval_fast"} : Holds(t, n) <=> Round(n, DoubleBits) = n
         /\ Holds("float", n) <=> Round(n, FloatBits) = n
         /\ \A t \in FixedTypes : Holds(t, n) <=> n \in Integer(Fixed[t])
         /\ \A t \in BitVector \cup Vector \cup {"sc_time", "array"} : ~Holds(t, n)
BY TypesAre, WidthsAreOrdered DEF Holds, Integers4, Narrow, Wide, BitVector, Vector, FixedTypes

\* The types besides the integers that keep the low bits of a number.
Exactly == {"string", "sc_fxval"} \cup FixedTypes

LEMMA LowBitsIs ==
  /\ \A t \in WidthTypes : LowBits(t) = Bits(t)
  /\ \A t \in Exactly : LowBits(t) = WideBits
  /\ \A t \in Types \ (WidthTypes \cup Exactly) : LowBits(t) = 0
  /\ \A t \in Types : LowBits(t) \in Nat
<1>1. \A t \in WidthTypes : LowBits(t) = Bits(t)
  BY TypesAre DEF LowBits
<1>2. \A t \in Exactly : LowBits(t) = WideBits
  BY TypesAre DEF LowBits, Integers4, Narrow, Wide, Exactly, FixedTypes
<1>3. \A t \in Types \ (WidthTypes \cup Exactly) : LowBits(t) = 0
  BY TypesAre DEF LowBits, Exactly
<1>4. WideBits \in Nat
  BY WidthsAreOrdered
<1> QED BY <1>1, <1>2, <1>3, <1>4, Widths

-----------------------------------------------------------------------------
(* What the program gives its objects is content.                             *)

LEMMA IntegersAre ==
  ASSUME NEW t \in WidthTypes
  PROVE  Integer(t) \subseteq Int /\ 0 \in Integer(t)
BY IntegerIsInterval

LEMMA ContentsAre ==
  /\ \A t \in WidthTypes : Contents(t) = Integer(t)
  /\ Contents("bool") = {0, 1}
  /\ \A t \in {"double", "sc_fxval_fast"} :
        Contents(t) = {Round(n, DoubleBits) : n \in Signed(WideBits)}
  /\ Contents("float") = {Round(n, FloatBits) : n \in Signed(WideBits)}
  /\ Contents("string") = Text
  /\ Contents("chars") = {s \in Text : Len(s) < CharN}
  /\ Contents("sc_logic") = Range(Logic)
  /\ Contents("sc_bv") = [1..VectorBits -> {"0", "1"}]
  /\ Contents("sc_lv") = [1..VectorBits -> Range(Logic)]
  /\ Contents("sc_time") = Times
  /\ Contents("sc_fxval") = Signed(WideBits)
  /\ \A t \in FixedTypes : Contents(t) = Integer(Fixed[t])
  /\ Contents("array") = [1..ArrayN -> {0, 1}]
  /\ \A t \in Vector : Contents(t) = {l \in Lists : Range(l) \subseteq Integer(Element[t])}
BY TypesAre DEF Contents, Integers4, Narrow, Wide, Vector, FixedTypes

LEMMA ContentsAreContent ==
  ASSUME NEW t \in Types
  PROVE  Contents(t) # {} /\ \A x \in Contents(t) : IsContent(t, x)
<1>1. Signed(WideBits) \subseteq Int /\ 0 \in Signed(WideBits)
  <2>1. Integer("sc_bigint") = Signed(WideBits)
    BY DEF Integer, IsSigned, Bits, SignedBits
  <2>2. "sc_bigint" \in WidthTypes
    BY TypesAre DEF Wide
  <2> QED BY <2>1, <2>2, IntegersAre
<1>2. DoubleBits \in Nat \ {0} /\ FloatBits \in Nat \ {0} /\ CharN \in Nat \ {0}
  BY WidthsAreOrdered
<1>3. CASE t \in WidthTypes
  <2>1. Contents(t) = Integer(t)
    BY <1>3, ContentsAre
  <2>2. \A x : IsContent(t, x) <=> x \in Integer(t)
    BY <1>3, ContentIs
  <2> QED BY <1>3, <2>1, <2>2, IntegersAre
<1>4. CASE t = "bool"
  BY <1>4, ContentsAre, ContentIs
<1>5. CASE t \in {"double", "sc_fxval_fast"}
  <2>1. Contents(t) = {Round(n, DoubleBits) : n \in Signed(WideBits)}
    BY <1>5, ContentsAre
  <2>2. ASSUME NEW n \in Signed(WideBits)
        PROVE  IsContent(t, Round(n, DoubleBits))
    <3>1. PICK m \in Number : m = Round(n, DoubleBits) /\ Float(m, DoubleBits) = m
      <4>1. n \in Number /\ Float(n, DoubleBits) = Round(n, DoubleBits)
        BY <1>1, <1>2, FloatKeeps DEF Number
      <4> QED BY <1>2, <4>1, FloatKeeps
    <3> QED BY <1>5, <3>1, ContentIs
  <2> QED BY <1>1, <2>1, <2>2
<1>6. CASE t = "float"
  <2>1. Contents(t) = {Round(n, FloatBits) : n \in Signed(WideBits)}
    BY <1>6, ContentsAre
  <2>2. ASSUME NEW n \in Signed(WideBits)
        PROVE  IsContent(t, Round(n, FloatBits))
    <3>1. PICK m \in Number : m = Round(n, FloatBits) /\ Float(m, FloatBits) = m
      <4>1. n \in Number /\ Float(n, FloatBits) = Round(n, FloatBits)
        BY <1>1, <1>2, FloatKeeps DEF Number
      <4> QED BY <1>2, <4>1, FloatKeeps
    <3> QED BY <1>6, <3>1, ContentIs
  <2> QED BY <1>1, <2>1, <2>2
<1>7. Text \subseteq Seq(Char)
  <2> SUFFICES ASSUME NEW s \in Text PROVE s \in Seq(Char)
    OBVIOUS
  <2>1. s \in Seq(STRING) /\ STRING \subseteq Char
    BY ProgramsContents DEF Char
  <2> QED BY <2>1, SeqMonotonic
<1>8. CASE t = "string"
  BY <1>7, <1>8, ContentsAre, ContentIs, ProgramsContents
<1>9. CASE t = "chars"
  <2>1. <<>> \in Text /\ Len(<<>>) = 0 /\ 0 < CharN
    BY <1>2, ProgramsContents
  <2>2. Contents(t) = {s \in Text : Len(s) < CharN}
    BY <1>9, ContentsAre
  <2>3. \A x : IsContent(t, x) <=> x \in Seq(Char) /\ Len(x) < CharN
    BY <1>9, ContentIs
  <2> QED BY <1>7, <2>1, <2>2, <2>3
<1>10. Range(Logic) = {"0", "1", "Z", "X"}
  BY DEF Logic, Range
<1>11. CASE t = "sc_logic"
  <2>1. Contents("sc_logic") = Range(Logic) /\ \A x : IsContent("sc_logic", x) <=> x \in Range(Logic)
    BY ContentsAre, ContentIs
  <2> QED BY <1>10, <1>11, <2>1
<1>12. CASE t \in BitVector
  <2>1. [i \in 1..VectorBits |-> "0"] \in [1..VectorBits -> {"0", "1"}]
    OBVIOUS
  <2>2. [i \in 1..VectorBits |-> "0"] \in [1..VectorBits -> Range(Logic)]
    BY <1>10
  <2>3. CASE t = "sc_bv"
    <3>1. Contents("sc_bv") = [1..VectorBits -> {"0", "1"}]
      BY ContentsAre
    <3>2. \A x : IsContent("sc_bv", x) <=> x \in [1..VectorBits -> {"0", "1"}]
      BY ContentIs
    <3> QED BY <2>1, <2>3, <3>1, <3>2
  <2>4. CASE t = "sc_lv"
    <3>1. Contents("sc_lv") = [1..VectorBits -> Range(Logic)]
      BY ContentsAre
    <3>2. \A x : IsContent("sc_lv", x) <=> x \in [1..VectorBits -> Range(Logic)]
      BY ContentIs
    <3> QED BY <2>2, <2>4, <3>1, <3>2
  <2> QED BY <1>12, <2>3, <2>4 DEF BitVector
<1>13. CASE t = "sc_time"
  BY <1>13, ContentsAre, ContentIs, ProgramsContents
<1>14. CASE t = "sc_fxval"
  BY <1>1, <1>14, ContentsAre, ContentIs DEF Number
<1>17. CASE t \in FixedTypes
  <2>1. Fixed[t] \in WidthTypes
    BY <1>17, FixedIs
  <2>2. 0 \in Integer(Fixed[t])
    BY <2>1, IntegersAre
  <2>3. Contents(t) = Integer(Fixed[t])
    BY <1>17, ContentsAre
  <2>4. \A x : IsContent(t, x) <=> x \in Integer(Fixed[t]) \cup {NoNumber}
    BY <1>17, ContentIs
  <2> QED BY <2>2, <2>3, <2>4
<1>15. CASE t = "array"
  <2>1. {0, 1} \subseteq Integer("int")
    <3>1. Integer("int") = -(2^(IntBits-1)) .. (2^(IntBits-1) - 1)
      BY DEF Integer, IsSigned, Bits, SignedBits, Signed
    <3>2. IntBits - 1 \in Nat \ {0}
      BY WidthsAreOrdered
    <3>3. PICK h \in Nat : h = 2^(IntBits-1) /\ h >= 2
      <4>1. PICK i \in Nat \ {0} : i = IntBits - 1
        BY <3>2
      <4>2. 2^i = 2 * 2^(i-1) /\ 2^(i-1) \in Nat \ {0} /\ 2^i \in Nat
        BY PowerDoubles
      <4>3. PICK g \in Nat \ {0} : g = 2^(i-1)
        BY <4>2
      <4> QED BY <4>1, <4>2, <4>3
    <3> QED BY <3>1, <3>3
  <2>2. [i \in 1..ArrayN |-> 0] \in [1..ArrayN -> {0, 1}]
    OBVIOUS
  <2>3. Contents(t) = [1..ArrayN -> {0, 1}]
    BY <1>15, ContentsAre
  <2>4. \A x : IsContent(t, x) <=> x \in [1..ArrayN -> Integer("int")]
    BY <1>15, ContentIs
  <2> QED BY <2>1, <2>2, <2>3, <2>4
<1>16. CASE t \in Vector
  <2>1. Contents(t) = {l \in Lists : Range(l) \subseteq Integer(Element[t])}
    BY <1>16, ContentsAre
  <2>2. Range(<<>>) = {}
    BY DEF Range
  <2>3. ASSUME NEW l \in Lists, Range(l) \subseteq Integer(Element[t])
        PROVE  IsContent(t, l)
    <3>1. l \in Seq(Int)
      BY ProgramsContents
    <3>2. Len(l) \in Nat /\ l \in [1..Len(l) -> Int] /\ DOMAIN l = 1..Len(l)
      BY <3>1, LenProperties
    <3>3. \A i \in 1..Len(l) : l[i] \in Integer(Element[t])
      BY <2>3, <3>2 DEF Range
    <3>4. l \in [1..Len(l) -> Integer(Element[t])]
      BY <3>2, <3>3
    <3>5. l \in Seq(Integer(Element[t]))
      BY <3>2, <3>4, SeqDef
    <3> QED BY <1>16, <3>5, ContentIs
  <2> QED BY <2>1, <2>2, <2>3, ProgramsContents
<1> QED BY <1>3, <1>4, <1>5, <1>6, <1>8, <1>9, <1>11, <1>12, <1>13, <1>14, <1>15, <1>16, <1>17,
           TypesAre DEF Others

\* A destination holds content of its type.
LEMMA HeldIsContent ==
  ASSUME NEW t \in Types
  PROVE  Held(t) \in Contents(t) /\ IsContent(t, Held(t))
BY ContentsAreContent DEF Held

-----------------------------------------------------------------------------
(* What an unpack leaves in its destination.                                  *)

LEMMA MinOfTwo ==
  ASSUME NEW a \in Int, NEW b \in Int
  PROVE  Min({a, b}) = IF a <= b THEN a ELSE b
<1> DEFINE m == IF a <= b THEN a ELSE b
<1>1. m \in {a, b} /\ \A y \in {a, b} : m <= y
  OBVIOUS
<1>2. PICK k : k = Min({a, b})
  OBVIOUS
<1>3. k \in {a, b} /\ \A y \in {a, b} : k <= y
  BY <1>1, <1>2 DEF Min
<1> QED BY <1>2, <1>3

\* A value, with the texts that arise on the way.
IsTyped(c) ==
  /\ c[1] = "bool" => c[2] \in {0, 1}
  /\ c[1] = "integer" => c[2] \in Int
  /\ c[1] = "real" => c[2] \in Number
  /\ c[1] = "string" => c[2] \in Seq(Char)
  /\ c[1] = "list" => Len(c[2]) \in Nat

LEMMA ConvertibleIs ==
  ASSUME NEW t, NEW l, Len(l) \in Nat
  PROVE  /\ Convertible(t, l) \in 0..Len(l)
         /\ \A i \in 1..Convertible(t, l) : Is(t, l[i])
         /\ Convertible(t, l) < Len(l) => ~Is(t, l[Convertible(t, l) + 1])
<1> DEFINE M == {n \in 0..Len(l) : n < Len(l) => ~Is(t, l[n+1])}
<1>1. M \in SUBSET Nat /\ Len(l) \in M
  OBVIOUS
<1> HIDE DEF M
<1>2. PICK n \in M : \A j \in M : n <= j
  BY <1>1, LeastExists
<1>3. n \in 0..Len(l) /\ (n < Len(l) => ~Is(t, l[n+1]))
  BY <1>2 DEF M
<1>4. ASSUME NEW i \in 1..n
      PROVE  Is(t, l[i])
  <2>1. i - 1 \in 0..Len(l) /\ i - 1 < Len(l) /\ i - 1 < n /\ (i - 1) + 1 = i
    BY <1>3
  <2>2. i - 1 \notin M
    BY <1>1, <1>2, <2>1
  <2> QED BY <2>1, <2>2 DEF M
<1>5. \E k \in 0..Len(l) : (\A i \in 1..k : Is(t, l[i])) /\ (k < Len(l) => ~Is(t, l[k+1]))
  BY <1>3, <1>4
<1>6. PICK k : k = Convertible(t, l)
  OBVIOUS
<1>7. k \in 0..Len(l) /\ (\A i \in 1..k : Is(t, l[i])) /\ (k < Len(l) => ~Is(t, l[k+1]))
  BY <1>5, <1>6 DEF Convertible
<1> QED BY <1>6, <1>7

LEMMA ElementIs ==
  ASSUME NEW c
  PROVE  /\ \A t \in Integers4 : Is(t, c) <=> c[1] = "integer" /\ c[2] \in Integer(t)
         /\ \A t \in Vector : Element[t] \in Integers4
BY DEF Is, IsInteger, Integers4, Vector, Element

Outcome(t, x, out) ==
  /\ out[1] \in {"done", "refused", "thrown"} /\ out = <<out[1], out[2]>>
  /\ IsContent(t, out[2])
  /\ out[1] # "done" /\ t \notin {"chars", "array", "sc_bv"} \cup FixedTypes => out[2] = x

\* Three ways to end.
LEMMA Ends ==
  ASSUME NEW t, NEW x, IsContent(t, x)
  PROVE  /\ Outcome(t, x, Refused(x)) /\ Outcome(t, x, Thrown(x))
         /\ \A y : IsContent(t, y) => Outcome(t, x, Done(y))
BY DEF Outcome, Refused, Thrown, Done

TimeFrom(c, x, p, q) ==
  CASE IsString(c) ->
         IF c[2] # <<>> /\ IsNumeral(Front(c[2])) /\ Last(c[2]) \in DOMAIN Unit
         THEN Done(NumeralValue(Front(c[2])) * Unit[Last(c[2])]) ELSE Thrown(x)
    [] ~IsString(c) /\ ~IsNumber(p) -> Refused(x)
    [] IsNumber(p) /\ IsString(q) ->
         IF q[2] # <<>> /\ Len(q[2]) = 1 /\ q[2][1] \in DOMAIN Unit
         THEN Done(GetDouble(p) * Unit[q[2][1]]) ELSE Thrown(x)
    [] IsNumber(p) /\ IsInteger(q, "unsigned") /\ q[2] < Len(UnitOfCode) ->
         Done(GetDouble(p) * Unit[UnitOfCode[q[2] + 1]])
    [] OTHER -> Refused(x)

\* A time is read from a string, or from a pair of a value and a unit.
LEMMA TimeMeans ==
  ASSUME NEW c, NEW x
  PROVE  \E p, q : /\ UnpackTime(c, x) = TimeFrom(c, x, p, q)
                   /\ IsList(c) /\ Len(c[2]) = 2 => p = c[2][1] /\ q = c[2][2]
<1> DEFINE whole == IsList(c) /\ Len(c[2]) = 2
           pair  == IF whole THEN c[2]
                    ELSE IF c[1] = "map" /\ DOMAIN c[2] = {"value", "unit"}
                         THEN <<c[2]["value"], c[2]["unit"]>>
                         ELSE << <<"null", 0>>, <<"null", 0>> >>
<1> PICK p, q : p = pair[1] /\ q = pair[2]
  OBVIOUS
<1>1. UnpackTime(c, x) = TimeFrom(c, x, p, q)
  BY DEF UnpackTime, TimeFrom
<1>2. whole => p = c[2][1] /\ q = c[2][2]
  OBVIOUS
<1> QED BY <1>1, <1>2

LEMMA TimeOutcome ==
  ASSUME NEW c, NEW x
  PROVE  \E y : UnpackTime(c, x) \in {Done(y), Refused(x), Thrown(x)}
<1>1. PICK p, q : UnpackTime(c, x) = TimeFrom(c, x, p, q)
  BY TimeMeans
<1> DEFINE D1 == NumeralValue(Front(c[2])) * Unit[Last(c[2])]
           D2 == GetDouble(p) * Unit[q[2][1]]
           D3 == GetDouble(p) * Unit[UnitOfCode[q[2] + 1]]
<1>2. TimeFrom(c, x, p, q) \in {Done(D1), Done(D2), Done(D3), Refused(x), Thrown(x)}
  BY DEF TimeFrom
<1> HIDE DEF D1, D2, D3
<1> QED BY <1>1, <1>2

LEMMA SimpleOutcome ==
  ASSUME NEW t \in Types \ (BitVector \cup Vector \cup FxTypes \cup {"sc_time", "chars", "array"}),
         NEW c, IsTyped(c), NEW x, IsContent(t, x)
  PROVE  Outcome(t, x, Unpack(t, c, x))
<1>1. DoubleBits \in Nat \ {0} /\ FloatBits \in Nat \ {0} /\ FloatBits <= DoubleBits
  BY WidthsAreOrdered
<1>2. \A n \in Number : /\ Float(n, DoubleBits) \in Number
                        /\ Float(Float(n, DoubleBits), DoubleBits) = Float(n, DoubleBits)
  BY <1>1, FloatKeeps
<1>3. CASE t \in Integers4
  <2>1. Unpack(t, c, x) = IF IsInteger(c, t) THEN Done(c[2]) ELSE Refused(x)
    BY <1>3, UnpackIs
  <2>2. IsInteger(c, t) => IsContent(t, c[2])
    BY <1>3, ContentIs, TypesAre DEF IsInteger
  <2> QED BY <2>1, <2>2, Ends
<1>4. CASE t = "bool"
  <2>1. Unpack(t, c, x) = IF IsBool(c) THEN Done(c[2]) ELSE Refused(x)
    BY <1>4, UnpackIs
  <2>2. IsBool(c) => IsContent(t, c[2])
    BY <1>4, ContentIs DEF IsBool, IsTyped
  <2> QED BY <2>1, <2>2, Ends
<1>5. IsNumber(c) => c[2] \in Number
  BY DEF IsNumber, IsTyped, Number
<1>6. CASE t = "double"
  <2>1. Unpack(t, c, x) = IF IsNumber(c) THEN Done(GetDouble(c)) ELSE Refused(x)
    BY <1>6, UnpackIs
  <2>2. IsNumber(c) => IsContent("double", GetDouble(c))
    BY <1>2, <1>5, ContentIs DEF GetDouble
  <2> QED BY <1>6, <2>1, <2>2, Ends
<1>7. CASE t = "string"
  <2>1. Unpack(t, c, x) = IF IsString(c) THEN Done(c[2]) ELSE Refused(x)
    BY <1>7, UnpackIs
  <2>2. IsString(c) => IsContent(t, c[2])
    BY <1>7, ContentIs DEF IsString, IsTyped
  <2> QED BY <2>1, <2>2, Ends
<1>8. CASE t \in Narrow
  <2>1. \E u \in {"int", "unsigned"} :
          Unpack(t, c, x) = IF IsInteger(c, u) THEN Done(Wrap(t, c[2])) ELSE Refused(x)
    BY <1>8, DelegateIs DEF Narrow
  <2>2. c[1] = "integer" => IsContent(t, Wrap(t, c[2]))
    <3>1. c[1] = "integer" => c[2] \in Int
      BY DEF IsTyped
    <3>2. t \in WidthTypes
      BY <1>8, TypesAre
    <3> QED BY <3>1, <3>2, WrapKeeps, ContentIs
  <2> QED BY <2>1, <2>2, Ends DEF IsInteger
<1>9. CASE t = "float"
  <2>1. Unpack(t, c, x) = IF IsNumber(c) THEN Done(Float(GetDouble(c), FloatBits)) ELSE Refused(x)
    BY <1>9, DelegateIs
  <2>2. ASSUME IsNumber(c)
        PROVE  IsContent("float", Float(GetDouble(c), FloatBits))
    <3>1. PICK n \in Number : n = GetDouble(c)
      BY <1>2, <1>5, <2>2 DEF GetDouble
    <3>2. /\ Float(n, FloatBits) \in Number
          /\ Float(Float(n, FloatBits), FloatBits) = Float(n, FloatBits)
      BY <1>1, FloatKeeps
    <3> QED BY <3>1, <3>2, ContentIs
  <2> QED BY <1>9, <2>1, <2>2, Ends
<1>10. \A s \in Seq(Char) : IsNumeral(s) => NumeralValue(s) \in Int
  BY NumeralHasValue
<1>11. IsString(c) => c[2] \in Seq(Char)
  BY DEF IsString, IsTyped
<1>12. CASE t \in Wide
  <2>1. \A n \in Int : IsContent(t, Wrap(t, n))
    <3>1. t \in WidthTypes
      BY <1>12, TypesAre
    <3> QED BY <3>1, WrapKeeps, ContentIs
  <2>2. \E u \in Integers4 :
          Unpack(t, c, x) = CASE IsInteger(c, u) -> Done(Wrap(t, c[2]))
                              [] IsString(c) -> FromNumeral(t, c[2], x)
                              [] OTHER -> Refused(x)
    <3>1. Unpack(t, c, x) = UnpackWide(t, c, x)
      BY <1>12, UnpackIs
    <3> QED BY <3>1 DEF UnpackWide, Integers4
  <2>4. \A u : IsInteger(c, u) => c[2] \in Int
    BY DEF IsInteger, IsTyped
  <2>5. ASSUME IsString(c)
        PROVE  Outcome(t, x, FromNumeral(t, c[2], x))
    <3>1. IsNumeral(c[2]) => IsContent(t, Wrap(t, NumeralValue(c[2])))
      BY <1>10, <1>11, <2>1, <2>5
    <3> QED BY <3>1, Ends DEF FromNumeral
  <2>6. c[2] \in Int => Outcome(t, x, Done(Wrap(t, c[2])))
    BY <2>1, Ends
  <2> QED BY <2>2, <2>4, <2>5, <2>6, Ends
<1>13. CASE t = "sc_logic"
  <2>1. \A i \in 1..4 : Logic[i] \in Range(Logic)
    BY DEF Logic, Range
  <2>2. \/ Unpack(t, c, x) \in {Refused(x), Thrown(x)}
        \/ IsBool(c) /\ Unpack(t, c, x) = Done(Logic[c[2] + 1])
        \/ c[2] \in 0..3 /\ Unpack(t, c, x) = Done(Logic[c[2] + 1])
        \/ Unpack(t, c, x) = Done(LogicOf(c[2][1]))
    BY <1>13, UnpackIs DEF UnpackLogic
  <2>3. \A y \in Range(Logic) : Outcome(t, x, Done(y))
    BY <1>13, ContentIs, Ends
  <2>4. IsBool(c) => Logic[c[2] + 1] \in Range(Logic)
    BY <2>1 DEF IsBool, IsTyped
  <2>5. c[2] \in 0..3 => Logic[c[2] + 1] \in Range(Logic)
    BY <2>1
  <2>6. LogicOf(c[2][1]) \in Range(Logic)
    BY LogicOfIs
  <2> QED BY <2>2, <2>3, <2>4, <2>5, <2>6, Ends
<1> QED BY <1>3, <1>4, <1>6, <1>7, <1>8, <1>9, <1>12, <1>13, TypesAre DEF Others, FxTypes

\* What a fixed-point object keeps of a number, or of what is none.
LEMMA FxKeptIs ==
  ASSUME NEW t \in FxTypes, NEW n \in Number
  PROVE  /\ IsContent(t, FxKept(t, n)) /\ FxKept(t, NoNumber) = NoNumber
         /\ t = "sc_fxval" => FxKept(t, n) = n
         /\ t = "sc_fxval_fast" => FxKept(t, n) = Float(n, DoubleBits)
         /\ t \in FixedTypes /\ n \in Int => FxKept(t, n) = Wrap(Fixed[t], n) /\ FxKept(t, n) \in Int
<1>1. FxKept(t, NoNumber) = NoNumber
  BY DEF FxKept
<1>2. CASE t = "sc_fxval"
  <2>1. FxKept(t, n) = n
    BY <1>2, TypesAre DEF FxKept, FixedTypes
  <2>2. IsContent(t, n)
    BY <1>2, ContentIs
  <2> QED BY <1>1, <1>2, <2>1, <2>2 DEF FixedTypes
<1>3. CASE t = "sc_fxval_fast"
  <2>1. FxKept(t, n) = Float(n, DoubleBits)
    <3>1. CASE n = NoNumber
      BY <1>1, <3>1 DEF Float
    <3>2. CASE n # NoNumber
      BY <1>3, <3>2, TypesAre DEF FxKept, Float, FixedTypes
    <3> QED BY <3>1, <3>2
  <2>2. DoubleBits \in Nat \ {0}
    BY WidthsAreOrdered
  <2> QED BY <1>1, <1>3, <2>1, <2>2, FloatKeeps, ContentIs DEF FixedTypes
<1>4. CASE t \in FixedTypes
  <2>1. CASE n = NoNumber
    BY <1>1, <1>4, <2>1, ContentIs, NoNumberIsNone DEF FixedTypes
  <2>2. CASE n \in Int
    <3>1. FxKept(t, n) = Wrap(Fixed[t], n)
      BY <1>4, <2>2, TypesAre, NoNumberIsNone DEF FxKept, FixedTypes
    <3>2. PICK u \in WidthTypes : u = Fixed[t]
      BY <1>4, FixedIs
    <3>3. Wrap(u, n) \in Integer(u) /\ Wrap(u, n) \in Int
      BY <2>2, WrapKeeps
    <3> QED BY <1>1, <1>4, <3>1, <3>2, <3>3, ContentIs DEF FixedTypes
  <2> QED BY <2>1, <2>2 DEF Number
<1> QED BY <1>2, <1>3, <1>4 DEF FxTypes

LEMMA FxMeans ==
  ASSUME NEW t \in FxTypes, NEW c, IsTyped(c), NEW x
  PROVE  \/ Unpack(t, c, x) = Refused(x)
         \/ \E n \in Number :
              /\ IsNumber(c) \/ IsString(c)
              /\ n = IF IsNumber(c) THEN c[2] ELSE TextNumber(c[2])
              /\ Unpack(t, c, x) = IF FxKept(t, n) = NoNumber /\ t \in FixedTypes
                                   THEN Thrown(NoNumber) ELSE Done(FxKept(t, n))
<1>1. Unpack(t, c, x) = UnpackFx(t, c, x)
  BY UnpackIs
<1>2. CASE ~IsNumber(c) /\ ~IsString(c)
  BY <1>1, <1>2 DEF UnpackFx
<1>3. CASE IsNumber(c) \/ IsString(c)
  <2>1. PICK n : n = IF IsNumber(c) THEN c[2] ELSE TextNumber(c[2])
    OBVIOUS
  <2>2. n \in Number
    BY <1>3, <2>1, TextIsNumber DEF IsNumber, IsString, IsTyped, Number
  <2>3. UnpackFx(t, c, x) = IF FxKept(t, n) = NoNumber /\ t \in FixedTypes
                            THEN Thrown(NoNumber) ELSE Done(FxKept(t, n))
    BY <1>3, <2>1, TypesAre DEF UnpackFx
  <2> QED BY <1>1, <1>3, <2>1, <2>2, <2>3
<1> QED BY <1>2, <1>3

LEMMA FxOutcome ==
  ASSUME NEW t \in FxTypes, NEW c, IsTyped(c), NEW x, IsContent(t, x)
  PROVE  Outcome(t, x, Unpack(t, c, x))
<1>1. CASE Unpack(t, c, x) = Refused(x)
  BY <1>1, Ends
<1>2. ASSUME NEW n \in Number, Unpack(t, c, x) = Done(FxKept(t, n))
      PROVE  Outcome(t, x, Unpack(t, c, x))
  BY <1>2, FxKeptIs, Ends
<1>3. CASE Unpack(t, c, x) = Thrown(NoNumber) /\ t \in FixedTypes
  <2>1. IsContent(t, NoNumber)
    BY <1>3, ContentIs
  <2> QED BY <1>3, <2>1 DEF Outcome, Thrown
<1> QED BY <1>1, <1>2, <1>3, FxMeans

\* A text sets the low bits of an sc_bv, as far as its characters are bits.
LEMMA BitsMeans ==
  ASSUME NEW c, NEW x, IsContent("sc_bv", x)
  PROVE  \/ Unpack("sc_bv", c, x) \in {Refused(x), Thrown(x)}
         \/ \E y : /\ IsString(c) /\ IsContent("sc_bv", y)
                  /\ Unpack("sc_bv", c, x) \in {Done(y), Thrown(y)}
                  /\ \A i \in 1..VectorBits :
                       \/ y[i] = x[i]
                       \/ \A j \in i..VectorBits : y[j] = DigitFor(c[2], j)
<1> DEFINE set(i) == \A j \in i..VectorBits : DigitFor(c[2], j) \in {"0", "1"}
           y == [i \in 1..VectorBits |-> IF set(i) THEN DigitFor(c[2], i) ELSE x[i]]
<1>1. Unpack("sc_bv", c, x) = UnpackBits(c, x)
  BY UnpackIs
<1>2. \/ UnpackBits(c, x) \in {Refused(x), Thrown(x)}
      \/ IsString(c) /\ UnpackBits(c, x) \in {Done(y), Thrown(y)}
  BY DEF UnpackBits
<1>3. x \in [1..VectorBits -> {"0", "1"}] /\ VectorBits \in Nat
  BY ContentIs, WidthsAreOrdered
<1>4. ASSUME NEW i \in 1..VectorBits
      PROVE  /\ y[i] \in {"0", "1"}
             /\ \/ y[i] = x[i]
                \/ \A j \in i..VectorBits : y[j] = DigitFor(c[2], j)
  <2>1. y[i] = IF set(i) THEN DigitFor(c[2], i) ELSE x[i]
    OBVIOUS
  <2>2. CASE set(i)
    <3>1. \A j \in i..VectorBits : j \in 1..VectorBits /\ j..VectorBits \subseteq i..VectorBits
      BY <1>3
    <3>2. \A j \in i..VectorBits : set(j)
      BY <2>2, <3>1
    <3>3. i \in i..VectorBits
      BY <1>3
    <3> QED BY <2>1, <2>2, <3>1, <3>2, <3>3
  <2>3. CASE ~set(i)
    <3> HIDE DEF set
    <3> QED BY <1>3, <2>1, <2>3
  <2> QED BY <2>2, <2>3
<1>5. y \in [1..VectorBits -> {"0", "1"}]
  BY <1>4
<1> HIDE DEF y
<1>6. IsContent("sc_bv", y)
  BY <1>5, ContentIs
<1> QED BY <1>1, <1>2, <1>4, <1>6

LEMMA BitsOutcome ==
  ASSUME NEW t \in BitVector, NEW c, NEW x, IsContent(t, x)
  PROVE  Outcome(t, x, Unpack(t, c, x))
<1>1. CASE t = "sc_bv"
  <2>1. CASE Unpack("sc_bv", c, x) \in {Refused(x), Thrown(x)}
    BY <1>1, <2>1, Ends
  <2>2. ASSUME NEW y, IsContent("sc_bv", y), Unpack("sc_bv", c, x) \in {Done(y), Thrown(y)}
        PROVE  Outcome("sc_bv", x, Unpack("sc_bv", c, x))
    BY <2>2 DEF Outcome, Done, Thrown
  <2> QED BY <1>1, <2>1, <2>2, BitsMeans
<1>2. CASE t = "sc_lv"
  <2> DEFINE y == [i \in 1..VectorBits |-> LogicOf(DigitFor(c[2], i))]
  <2>1. y \in [1..VectorBits -> Range(Logic)]
    BY LogicOfIs
  <2>2. UnpackLogicVector(c, x) \in {Refused(x), Thrown(x), Done(y)}
    BY DEF UnpackLogicVector
  <2>3. Unpack(t, c, x) = UnpackLogicVector(c, x)
    BY <1>2, UnpackIs
  <2> HIDE DEF y
  <2>4. IsContent(t, y)
    BY <1>2, <2>1, ContentIs
  <2> QED BY <2>2, <2>3, <2>4, Ends
<1> QED BY <1>1, <1>2 DEF BitVector

LEMMA VectorOutcome ==
  ASSUME NEW t \in Vector, NEW c, IsTyped(c), NEW x, IsContent(t, x)
  PROVE  Outcome(t, x, Unpack(t, c, x))
<1> DEFINE n == Convertible(Element[t], c[2])
           y == [i \in 1..n |-> c[2][i][2]]
<1>1. Unpack(t, c, x) = IF ~IsList(c) THEN Refused(x)
                        ELSE IF n = Len(c[2]) THEN Done(y) ELSE Refused(x)
  BY UnpackIs DEF UnpackVector
<1>2. ASSUME IsList(c)
      PROVE  IsContent(t, y)
  <2>1. Len(c[2]) \in Nat
    BY <1>2 DEF IsList, IsTyped
  <2>2. n \in 0..Len(c[2]) /\ \A i \in 1..n : Is(Element[t], c[2][i])
    BY <2>1, ConvertibleIs
  <2>3. n \in Nat
    BY <2>1, <2>2
  <2>4. \A i \in 1..n : c[2][i][2] \in Integer(Element[t])
    BY <2>2, ElementIs
  <2>5. y \in [1..n -> Integer(Element[t])]
    BY <2>4
  <2>6. y \in Seq(Integer(Element[t]))
    BY <2>3, <2>5, SeqDef
  <2> QED BY <2>6, ContentIs
<1> HIDE DEF n, y
<1> QED BY <1>1, <1>2, Ends

LEMMA ArrayMeans ==
  ASSUME NEW c, IsTyped(c), NEW x, IsContent("array", x)
  PROVE  \/ Unpack("array", c, x) = Refused(x)
         \/ \E n \in 0..ArrayN :
              LET y == [i \in 1..ArrayN |-> IF i <= n THEN c[2][i][2] ELSE x[i]] IN
              /\ Len(c[2]) \in Nat /\ n <= Len(c[2])
              /\ \A i \in 1..n : c[2][i][2] \in Integer("int")
              /\ Unpack("array", c, x) \in {Done(y), Refused(y)}
<1>1. CASE ~IsList(c)
  BY <1>1, UnpackIs DEF UnpackArray
<1>2. CASE IsList(c)
  <2> DEFINE k == Convertible("int", c[2])
             n == Min({ArrayN, k})
             y == [i \in 1..ArrayN |-> IF i <= n THEN c[2][i][2] ELSE x[i]]
  <2>1. Len(c[2]) \in Nat /\ ArrayN \in Nat
    BY <1>2, WidthsAreOrdered DEF IsList, IsTyped
  <2>2. k \in 0..Len(c[2]) /\ \A i \in 1..k : Is("int", c[2][i])
    BY <2>1, ConvertibleIs
  <2>3. Unpack("array", c, x) = IF n = Len(c[2]) THEN Done(y) ELSE Refused(y)
    BY <1>2, UnpackIs DEF UnpackArray
  <2> HIDE DEF k
  <2>4. n \in 0..ArrayN /\ n <= k
    <3>1. k \in Int /\ k >= 0
      BY <2>1, <2>2
    <3>2. n = IF ArrayN <= k THEN ArrayN ELSE k
      BY <2>1, <3>1, MinOfTwo
    <3> HIDE DEF n
    <3> QED BY <2>1, <3>1, <3>2
  <2> HIDE DEF n
  <2>5. \A i \in 1..n : c[2][i][2] \in Integer("int")
    <3> SUFFICES ASSUME NEW i \in 1..n PROVE c[2][i][2] \in Integer("int")
      OBVIOUS
    <3>1. i \in 1..k
      BY <2>1, <2>2, <2>4
    <3>2. Is("int", c[2][i])
      BY <2>2, <3>1
    <3> QED BY <3>2, ElementIs DEF Integers4
  <2>6. n <= Len(c[2])
    BY <2>1, <2>2, <2>4
  <2>7. Unpack("array", c, x) \in {Done(y), Refused(y)}
    BY <2>3
  <2> QED BY <2>1, <2>4, <2>5, <2>6, <2>7
<1> QED BY <1>1, <1>2

LEMMA ArrayOutcome ==
  ASSUME NEW c, IsTyped(c), NEW x, IsContent("array", x)
  PROVE  Outcome("array", x, Unpack("array", c, x))
<1>1. CASE Unpack("array", c, x) = Refused(x)
  BY <1>1, Ends
<1>2. ASSUME NEW n \in 0..ArrayN, NEW y,
             y = [i \in 1..ArrayN |-> IF i <= n THEN c[2][i][2] ELSE x[i]],
             \A i \in 1..n : c[2][i][2] \in Integer("int"),
             Unpack("array", c, x) \in {Done(y), Refused(y)}
      PROVE  Outcome("array", x, Unpack("array", c, x))
  <2>1. x \in [1..ArrayN -> Integer("int")] /\ ArrayN \in Nat
    BY ContentIs, WidthsAreOrdered
  <2>2. \A i \in 1..ArrayN : y[i] \in Integer("int")
    BY <1>2, <2>1
  <2>3. y \in [1..ArrayN -> Integer("int")]
    BY <1>2, <2>2
  <2>4. IsContent("array", y)
    BY <2>3, ContentIs
  <2>5. Outcome("array", x, Done(y)) /\ Outcome("array", x, Refused(y))
    BY <2>4 DEF Outcome, Done, Refused
  <2> QED BY <1>2, <2>5
<1> QED BY <1>1, <1>2, ArrayMeans

LEMMA CharsMeans ==
  ASSUME NEW c, IsTyped(c), NEW x
  PROVE  \/ Unpack("chars", c, x) \in {Done(<<>>), Refused(x)}
         \/ /\ IsString(c) /\ c[2] \in Seq(Char)
            /\ IF Len(c[2]) < CharN
               THEN Unpack("chars", c, x) = Done(c[2])
               ELSE \E s \in Seq(Char) :
                      /\ Unpack("chars", c, x) = Refused(s)
                      /\ Len(s) < CharN /\ IsStrictPrefix(s, c[2])
<1>1. Unpack("chars", c, x) =
        CASE c[1] = "null" -> Done(<<>>)
          [] IsString(c) -> IF Len(c[2]) < CharN THEN Done(c[2])
                            ELSE Refused(SubSeq(c[2], 1, CharN - 1))
          [] OTHER -> Refused(x)
  BY UnpackIs DEF UnpackChars
<1>2. CASE ~IsString(c)
  BY <1>1, <1>2
<1>3. CASE IsString(c)
  <2>1. PICK t \in Seq(Char) : t = c[2]
    BY <1>3 DEF IsString, IsTyped
  <2>2. Unpack("chars", c, x) = IF Len(t) < CharN THEN Done(t)
                                ELSE Refused(SubSeq(t, 1, CharN - 1))
    BY <1>1, <1>3, <2>1 DEF IsString
  <2>3. Len(t) \in Nat /\ CharN \in Nat \ {0} /\ \A i \in 1..Len(t) : t[i] \in Char
    BY LenProperties, ElementOfSeq, WidthsAreOrdered
  <2>4. CASE ~(Len(t) < CharN)
    <3>1. PICK k \in Nat : k = CharN - 1 /\ k < Len(t)
      BY <2>3, <2>4
    <3>2. PICK s : s = SubSeq(t, 1, k)
      OBVIOUS
    <3>3. /\ s \in Seq(Char) /\ Len(s) = IF 1 <= k THEN k - 1 + 1 ELSE 0
          /\ \A i \in 1..k-1+1 : s[i] = t[1+i-1]
      BY <2>3, <3>1, <3>2, SubSeqProperties
    <3>4. Len(s) = k
      BY <3>1, <3>3
    <3>5. SubSeq(s, 1, Len(s)) = s
      BY <3>3, SubSeqFull
    <3>6. IsStrictPrefix(s, t)
      BY <2>3, <3>1, <3>2, <3>4, <3>5 DEF IsStrictPrefix, IsPrefix
    <3>7. Len(s) < CharN
      BY <2>3, <3>1, <3>4
    <3> QED BY <1>3, <2>1, <2>2, <2>4, <3>1, <3>2, <3>3, <3>6, <3>7
  <2>5. CASE Len(t) < CharN
    BY <1>3, <2>1, <2>2, <2>5
  <2> QED BY <2>4, <2>5
<1> QED BY <1>2, <1>3

LEMMA UnpackOutcome ==
  ASSUME NEW t \in Types, NEW c, IsTyped(c), NEW x, IsContent(t, x), Defined(t, Unpack(t, c, x))
  PROVE  Outcome(t, x, Unpack(t, c, x))
<1>1. CASE t = "sc_time"
  <2>1. PICK y : UnpackTime(c, x) \in {Done(y), Refused(x), Thrown(x)}
    BY TimeOutcome
  <2>2. Unpack(t, c, x) = UnpackTime(c, x)
    BY <1>1, UnpackIs
  <2>3. CASE UnpackTime(c, x) = Done(y)
    <3>1. y \in 0..(2^LongBits - 1)
      BY <1>1, <2>2, <2>3 DEF Defined, Done
    <3>2. IsContent(t, y)
      BY <1>1, <3>1, ContentIs
    <3> QED BY <2>2, <2>3, <3>2, Ends
  <2> QED BY <2>1, <2>2, <2>3, Ends
<1>2. CASE t = "chars"
  <2>1. \A s \in Seq(Char) : Len(s) < CharN => IsContent("chars", s)
    BY ContentIs
  <2>2. IsContent("chars", <<>>)
    <3>1. <<>> \in Seq(Char) /\ Len(<<>>) = 0 /\ 0 < CharN
      BY EmptySeq, WidthsAreOrdered
    <3> QED BY <2>1, <3>1
  <2>3. CASE Unpack("chars", c, x) \in {Done(<<>>), Refused(x)}
    BY <1>2, <2>2, <2>3, Ends
  <2>4. ASSUME NEW s \in Seq(Char), Len(s) < CharN, Unpack("chars", c, x) \in {Done(s), Refused(s)}
        PROVE  Outcome("chars", x, Unpack("chars", c, x))
    BY <2>1, <2>4 DEF Outcome, Done, Refused
  <2> QED BY <1>2, <2>3, <2>4, CharsMeans
<1> QED BY <1>1, <1>2, SimpleOutcome, FxOutcome, BitsOutcome, VectorOutcome, ArrayOutcome

-----------------------------------------------------------------------------
(* Packed values.                                                             *)

LEMMA FunctionIsSequence ==
  ASSUME NEW n \in Nat, NEW f, DOMAIN f = 1..n, f = [i \in 1..n |-> f[i]]
  PROVE  Len(f) = n /\ f \in Seq({f[i] : i \in 1..n})
<1> DEFINE S == {f[i] : i \in 1..n}
<1>1. f \in [1..n -> S]
  OBVIOUS
<1> HIDE DEF S
<1>2. f \in Seq(S)
  BY <1>1, SeqDef
<1>3. Len(f) \in Nat /\ 1..Len(f) = 1..n
  BY <1>2, LenProperties
<1>4. Len(f) = n
  BY <1>3
<1> QED BY <1>2, <1>4 DEF S

LEMMA PackListIs ==
  ASSUME NEW n \in Nat, NEW l, DOMAIN l = 1..n
  PROVE  \E k : /\ PackList(l) = <<"list", k>> /\ Len(k) = n
                /\ \A i \in 1..n : k[i] = <<"integer", l[i]>>
<1> PICK k : k = [i \in DOMAIN l |-> PackInteger(l[i])]
  OBVIOUS
<1>1. DOMAIN k = 1..n /\ k = [i \in 1..n |-> k[i]] /\ \A i \in 1..n : k[i] = <<"integer", l[i]>>
  BY DEF PackInteger
<1>2. Len(k) = n
  BY <1>1, FunctionIsSequence
<1> QED BY <1>1, <1>2 DEF PackList

LEMMA ListLength ==
  ASSUME NEW t \in Vector \cup {"array"}, NEW x, IsContent(t, x)
  PROVE  \E n \in Nat : /\ DOMAIN x = 1..n /\ Len(x) = n /\ x = [i \in 1..n |-> x[i]]
                        /\ t = "array" => n = ArrayN
                        /\ \A i \in 1..n : x[i] \in Integer(IF t = "array" THEN "int" ELSE Element[t])
<1>1. CASE t = "array"
  <2>1. x \in [1..ArrayN -> Integer("int")] /\ ArrayN \in Nat
    BY <1>1, ContentIs, WidthsAreOrdered
  <2>2. DOMAIN x = 1..ArrayN /\ x = [i \in 1..ArrayN |-> x[i]]
    BY <2>1
  <2>3. Len(x) = ArrayN
    BY <2>1, <2>2, FunctionIsSequence
  <2> QED BY <1>1, <2>1, <2>2, <2>3
<1>2. CASE t \in Vector
  <2>1. x \in Seq(Integer(Element[t]))
    BY <1>2, ContentIs
  <2>2. /\ Len(x) \in Nat /\ DOMAIN x = 1..Len(x) /\ x \in [1..Len(x) -> Integer(Element[t])]
    BY <2>1, LenProperties
  <2>3. x = [i \in 1..Len(x) |-> x[i]] /\ \A i \in 1..Len(x) : x[i] \in Integer(Element[t])
    BY <2>2
  <2> QED BY <1>2, <2>2, <2>3 DEF Vector
<1> QED BY <1>1, <1>2

LEMMA StringIsTyped ==
  ASSUME NEW s \in Seq(Char)
  PROVE  IsTyped(<<"string", s>>)
BY DEF IsTyped

\* Exact fixed-point types hold a number or none, which their texts tell.
LEMMA FxContent ==
  ASSUME NEW t \in {"sc_fxval"} \cup FixedTypes, NEW x, IsContent(t, x)
  PROVE  x \in Number
<1>1. CASE t = "sc_fxval"
  BY <1>1, ContentIs
<1>2. CASE t \in FixedTypes
  BY <1>2, ContentIs, FixedIs, IntegersAre DEF Number
<1> QED BY <1>1, <1>2

LEMMA FxTextIs ==
  ASSUME NEW n \in Number
  PROVE  FxText(n) \in Seq(Char) /\ TextNumber(FxText(n)) = n
<1>1. CASE n \in Int
  <2>1. FxText(n) = Numeral(n)
    BY <1>1, NoNumberIsNone DEF FxText
  <2> QED BY <1>1, <2>1, NumeralIsRead DEF TextNumber
<1>2. CASE n = NoNumber
  <2>1. PICK s \in Seq(Char) : s = <<"N", "a", "N">>
    <3>1. "N" \in Char /\ "a" \in Char
      BY DEF Char
    <3>2. <<"N", "a", "N">> \in Seq(Char)
      BY <3>1
    <3> QED BY <3>2
  <2>5. s[1] = "N" /\ s # <<>> /\ 1 \in DOMAIN s
    BY <2>1
  <2>2. Unsign(s) = s
    BY <2>5 DEF Unsign
  <2>3. "N" \notin Digits
    <3>1. Digits = {Digit[i] : i \in 1..10}
      BY DigitFacts DEF Digits, Range
    <3>2. \A i \in 1..10 : Digit[i] # "N"
      BY DEF Digit
    <3> QED BY <3>1, <3>2
  <2>4. ~IsNumeral(s)
    BY <2>2, <2>3, <2>5 DEF IsNumeral
  <2> QED BY <1>2, <2>1, <2>4 DEF FxText, TextNumber
<1> QED BY <1>1, <1>2 DEF Number

LEMMA PackIsTyped ==
  ASSUME NEW t \in Types, NEW x, IsContent(t, x)
  PROVE  IsTyped(Pack(t, x))
<1>1. CASE t \in WidthTypes
  <2>1. x \in Int
    BY <1>1, ContentIs, IntegersAre
  <2>2. Pack(t, x) \in {<<"integer", x>>, <<"string", Numeral(x)>>}
    BY <1>1, PackIs, TypesAre DEF PackWide, PackInteger, PackString, Wide, WideText
  <2>3. Numeral(x) \in Seq(Char)
    BY <2>1, NumeralIsRead
  <2> QED BY <2>1, <2>2, <2>3 DEF IsTyped
<1>2. CASE t = "bool"
  BY <1>2, PackIs, ContentIs DEF IsTyped
<1>3. CASE t \in Reals
  <2>1. x \in Number /\ Pack(t, x) = <<"real", x>>
    BY <1>3, PackIs, ContentIs DEF Reals
  <2> QED BY <2>1 DEF IsTyped
<1>4. CASE t \in {"string", "chars"}
  <2>1. x \in Seq(Char)
    BY <1>4, ContentIs
  <2>2. Pack(t, x) = <<"string", x>>
    BY <1>4, PackIs
  <2> QED BY <2>1, <2>2, StringIsTyped
<1>5. CASE t \in BitVector
  <2>1. x \in [1..VectorBits -> Char] /\ VectorBits \in Nat
    <3>1. {"0", "1"} \subseteq Char /\ Range(Logic) \subseteq Char
      BY DEF Char, Range, Logic
    <3>2. x \in [1..VectorBits -> {"0", "1"}] \/ x \in [1..VectorBits -> Range(Logic)]
      BY <1>5, ContentIs DEF BitVector
    <3> QED BY <3>1, <3>2, WidthsAreOrdered
  <2>2. x \in Seq(Char)
    BY <2>1, SeqDef
  <2>3. Pack(t, x) = <<"string", x>>
    BY <1>5, PackIs
  <2> QED BY <2>2, <2>3, StringIsTyped
<1>6. CASE t \in {"sc_fxval"} \cup FixedTypes
  <2>1. Pack(t, x) = <<"string", FxText(x)>>
    BY <1>6, PackIs
  <2>2. FxText(x) \in Seq(Char)
    BY <1>6, FxContent, FxTextIs
  <2> QED BY <2>1, <2>2, StringIsTyped
<1>7. CASE t = "sc_time"
  <2>1. \E p, q : Pack(t, x) = <<"list", <<p, q>>>>
    <3>1. Pack(t, x) = PackTime(x)
      BY <1>7, PackIs
    <3>2. \E p, q : PackTime(x) = <<"list", <<p, q>>>>
      BY Zenon DEF PackTime
    <3> QED BY <3>1, <3>2
  <2>2. \A p, q : Len(<<p, q>>) = 2
    OBVIOUS
  <2> QED BY <2>1, <2>2 DEF IsTyped
<1>8. CASE t = "sc_logic"
  <2>1. x \in Range(Logic)
    BY <1>8, ContentIs
  <2>2. Pack(t, x) = PackLogic(x)
    BY <1>8, PackIs
  <2>3. <<x>> \in Seq(Char)
    <3>1. x \in Char
      BY <2>1 DEF Char
    <3> QED BY <3>1
  <2> QED BY <2>2, <2>3 DEF PackLogic, PackString, IsTyped
<1>9. CASE t \in Vector \cup {"array"}
  <2>1. PICK n \in Nat : DOMAIN x = 1..n
    BY <1>9, ListLength
  <2>2. PICK k : PackList(x) = <<"list", k>> /\ Len(k) = n
    BY <2>1, PackListIs
  <2> QED BY <1>9, <2>2, PackIs DEF IsTyped
<1> QED BY <1>1, <1>2, <1>3, <1>4, <1>5, <1>6, <1>7, <1>8, <1>9, TypesAre DEF Others, Reals

-----------------------------------------------------------------------------
(* The invariant.                                                             *)

\* Objects hold content of their types, the value is one, and as long as it is
\* current it is what the object was packed into, or a document.
Typed ==
  /\ obj[1] \in Types \cup {"none"}
  /\ obj[1] \in Types => IsContent(obj[1], obj[2])
  /\ IsTyped(val)
  /\ stage \in {"object", "value"}
  /\ stage = "object" => obj[1] \in Types
  /\ stage = "value" => last[1] = "none"
  /\ stage = "value" /\ obj[1] \in Types => val = Pack(obj[1], obj[2])
  /\ last[1] \in {"none", "done", "refused", "thrown"}

LEMMA NoneIsNoType == "none" \notin Types
BY TypesAre DEF Integers4, Narrow, Wide, Vector, BitVector, FixedTypes, Others

LEMMA InitTyped == Init => Typed
<1> SUFFICES ASSUME Init PROVE Typed
  OBVIOUS
<1>1. PICK t \in Types : \E x \in Contents(t) : obj = <<t, x>>
  BY DEF Init
<1>2. PICK x \in Contents(t) : obj = <<t, x>>
  BY <1>1
<1>3. obj[1] = t /\ obj[2] = x /\ IsContent(t, x)
  BY <1>2, ContentsAreContent
<1>4. val = <<"null", 0>> /\ stage = "object" /\ last = <<"none", 0>>
  BY DEF Init
<1>5. IsTyped(val)
  BY <1>4 DEF IsTyped
<1> QED BY <1>3, <1>4, <1>5 DEF Typed

LEMMA StoreTyped == Typed /\ Store => Typed'
<1> SUFFICES ASSUME Typed, Store PROVE Typed'
  OBVIOUS
<1>1. obj[1] \in Types /\ IsContent(obj[1], obj[2]) /\ obj' = obj
  BY DEF Typed, Store
<1>2. val' = Pack(obj[1], obj[2]) /\ stage' = "value" /\ last' = <<"none", 0>>
  BY DEF Store
<1>3. IsTyped(val')
  BY <1>1, <1>2, PackIsTyped
<1> QED BY <1>1, <1>2, <1>3 DEF Typed

LEMMA DocumentIsTyped ==
  ASSUME NEW c \in Documents
  PROVE  IsTyped(c)
<1>1. IsValue(c)
  BY DocumentsAreValues
<1>2. c[2] \in Seq(STRING) => c[2] \in Seq(Char)
  BY SeqMonotonic DEF Char
<1>3. c[2] \in Int => c[2] \in Number
  BY DEF Number
<1> QED BY <1>1, <1>2, <1>3 DEF IsValue, IsTyped

LEMMA FromJsonTyped ==
  ASSUME Typed, NEW c \in Documents, FromJson(c)
  PROVE  Typed'
<1>1. obj' = <<"none", 0>> /\ val' = c /\ stage' = "value" /\ last' = last /\ last[1] = "none"
  BY DEF FromJson
<1>2. IsTyped(val')
  BY <1>1, DocumentIsTyped
<1> QED BY <1>1, <1>2, NoneIsNoType DEF Typed

\* The two ways of reading a value, in terms of the unpack they make.
LEMMA TryGetMeans ==
  ASSUME Typed, NEW t \in Types, TryGet(t, Held(t))
  PROVE  \E out : /\ out = Unpack(t, val, Held(t)) /\ Outcome(t, Held(t), out)
                  /\ stage = "value" /\ stage' = "object" /\ val' = val
                  /\ obj' = <<t, out[2]>> /\ last' = <<out[1], Held(t)>>
                  /\ sent' = IF out[1] = "done" THEN Passed(t) ELSE Fresh(t, out[2])
<1>1. PICK out : out = Unpack(t, val, Held(t))
  OBVIOUS
<1>2. Outcome(t, Held(t), out)
  BY <1>1, HeldIsContent, UnpackOutcome DEF Typed, TryGet
<1> QED BY <1>1, <1>2 DEF TryGet

LEMMA GetMeans ==
  ASSUME Typed, NEW t \in Types, Get(t, Held(t))
  PROVE  \E out : /\ out = Unpack(t, val, Held(t)) /\ Outcome(t, Held(t), out)
                  /\ stage = "value" /\ stage' = "object" /\ val' = val
                  /\ t \notin {"chars", "array"}
                  /\ IF out[1] = "done"
                     THEN obj' = <<t, out[2]>> /\ last' = <<"done", Held(t)>> /\ sent' = Passed(t)
                     ELSE obj' = <<t, Held(t)>> /\ last' = <<"thrown", Held(t)>>
                          /\ sent' = Fresh(t, Held(t))
<1>1. PICK out : out = Unpack(t, val, Held(t))
  OBVIOUS
<1>2. Outcome(t, Held(t), out)
  BY <1>1, HeldIsContent, UnpackOutcome DEF Typed, Get
<1> QED BY <1>1, <1>2 DEF Get

LEMMA ReadTyped ==
  ASSUME Typed, NEW t \in Types, TryGet(t, Held(t)) \/ Get(t, Held(t))
  PROVE  Typed'
<1>1. \E y, how : /\ obj' = <<t, y>> /\ IsContent(t, y) /\ val' = val /\ stage' = "object"
                  /\ last' = <<how, Held(t)>> /\ how \in {"done", "refused", "thrown"}
  <2>1. CASE TryGet(t, Held(t))
    BY <2>1, TryGetMeans DEF Outcome
  <2>2. CASE Get(t, Held(t))
    BY <2>2, GetMeans, HeldIsContent DEF Outcome
  <2> QED BY <2>1, <2>2
<1>2. IsTyped(val)
  BY DEF Typed
<1> QED BY <1>1, <1>2 DEF Typed

LEMMA NextTyped == Typed /\ [Next]_vars => Typed'
<1> SUFFICES ASSUME Typed, [Next]_vars PROVE Typed'
  OBVIOUS
<1>1. CASE Store
  BY <1>1, StoreTyped
<1>2. ASSUME NEW c \in Documents, FromJson(c)
      PROVE  Typed'
  BY <1>2, FromJsonTyped
<1>3. ASSUME NEW t \in Types, TryGet(t, Held(t)) \/ Get(t, Held(t))
      PROVE  Typed'
  BY <1>3, ReadTyped
<1>4. CASE UNCHANGED vars
  BY <1>4 DEF Typed, vars
<1> QED BY <1>1, <1>2, <1>3, <1>4 DEF Next

\* Type correctness, in the strong sense: whatever way objects are packed, values
\* replaced by documents and read into objects of any other type, every object
\* ends up with content of its own type (an integer within its width, a double
\* with no more bits than it has, a char array that leaves room for the zero),
\* and every value is one that RapidJSON could hold.
THEOREM ConvertersKeepTypes == Spec => []Typed
<1> QED BY InitTyped, NextTyped, PTL DEF Spec

-----------------------------------------------------------------------------
(* A failed unpack.                                                           *)

\* What the destination y of a failed read of c into x, of type t, may hold.
Kept(t, x, c, y, how) ==
  CASE t = "chars" -> y = x \/ (IsString(c) /\ IsStrictPrefix(y, c[2]))
    [] t = "array" -> \A i \in 1..ArrayN :
                        \/ y[i] = x[i]
                        \/ /\ y[i] = c[2][i][2] /\ i <= Len(c[2])
                           /\ \A j \in 1..i : y[j] = c[2][j][2]
    [] t = "sc_bv" -> \A i \in 1..VectorBits :
                        \/ y[i] = x[i]
                        \/ IsString(c) /\ \A j \in i..VectorBits : y[j] = DigitFor(c[2], j)
    [] t \in FixedTypes -> y = x \/ (how = "thrown" /\ y = NoNumber)
    [] OTHER -> y = x

LEMMA KeptIs ==
  ASSUME NEW x, NEW c, NEW y, NEW how
  PROVE  /\ Kept("chars", x, c, y, how) <=> y = x \/ (IsString(c) /\ IsStrictPrefix(y, c[2]))
         /\ Kept("array", x, c, y, how) <=>
              \A i \in 1..ArrayN :
                 \/ y[i] = x[i]
                 \/ /\ y[i] = c[2][i][2] /\ i <= Len(c[2])
                    /\ \A j \in 1..i : y[j] = c[2][j][2]
         /\ Kept("sc_bv", x, c, y, how) <=>
              \A i \in 1..VectorBits :
                 \/ y[i] = x[i]
                 \/ IsString(c) /\ \A j \in i..VectorBits : y[j] = DigitFor(c[2], j)
BY DEF Kept, FixedTypes

LEMMA FailureKept ==
  ASSUME NEW t \in Types, NEW c, IsTyped(c), NEW x, IsContent(t, x), NEW out,
         out = Unpack(t, c, x), Outcome(t, x, out), out[1] # "done"
  PROVE  Kept(t, x, c, out[2], out[1])
<1>1. CASE t \notin {"chars", "array", "sc_bv"} \cup FixedTypes
  BY <1>1 DEF Kept, Outcome
<1>4. CASE t = "sc_bv"
  <2>1. CASE out \in {Refused(x), Thrown(x)}
    <3>1. out[2] = x
      BY <2>1 DEF Refused, Thrown
    <3> QED BY <1>4, <3>1, KeptIs
  <2>2. ASSUME NEW y, IsString(c), out \in {Done(y), Thrown(y)},
               \A i \in 1..VectorBits :
                  \/ y[i] = x[i]
                  \/ \A j \in i..VectorBits : y[j] = DigitFor(c[2], j)
        PROVE  Kept(t, x, c, out[2], out[1])
    <3>1. out[2] = y
      BY <2>2 DEF Done, Thrown
    <3>2. Kept("sc_bv", x, c, y, out[1])
      BY <2>2, KeptIs
    <3> QED BY <1>4, <3>1, <3>2
  <2> QED BY <1>4, <2>1, <2>2, BitsMeans
<1>5. CASE t \in FixedTypes
  <2>1. t \in FxTypes /\ t \notin {"chars", "array", "sc_bv"}
    BY <1>5 DEF FxTypes, FixedTypes
  <2>2. out = Refused(x) \/ out = Thrown(NoNumber) \/ \E y : out = Done(y)
    BY <2>1, FxMeans
  <2>3. out = Refused(x) \/ out = Thrown(NoNumber)
    BY <2>2 DEF Done
  <2> QED BY <1>5, <2>1, <2>3 DEF Kept, Refused, Thrown
<1>2. CASE t = "chars"
  <2>1. out # Done(<<>>) /\ out # Done(c[2])
    BY DEF Done
  <2>2. \/ out = Refused(x)
        \/ IsString(c) /\ \E s : out = Refused(s) /\ IsStrictPrefix(s, c[2])
    BY <1>2, <2>1, CharsMeans
  <2>3. out[2] = x \/ (IsString(c) /\ IsStrictPrefix(out[2], c[2]))
    BY <2>2 DEF Refused
  <2> QED BY <1>2, <2>3, KeptIs
<1>3. CASE t = "array"
  <2>1. CASE out = Refused(x)
    BY <1>3, <2>1 DEF Kept, Refused
  <2>2. ASSUME NEW n \in 0..ArrayN, NEW y,
               y = [i \in 1..ArrayN |-> IF i <= n THEN c[2][i][2] ELSE x[i]],
               Len(c[2]) \in Nat, n <= Len(c[2]), out \in {Done(y), Refused(y)}
        PROVE  Kept(t, x, c, out[2], out[1])
    <3>1. out[2] = y
      <4>1. Done(y)[2] = y /\ Refused(y)[2] = y
        BY DEF Done, Refused
      <4>2. out = Done(y) \/ out = Refused(y)
        BY <2>2
      <4> QED BY <4>1, <4>2, Zenon
    <3>2. ArrayN \in Nat
      BY WidthsAreOrdered
    <3>3. ASSUME NEW i \in 1..ArrayN
          PROVE  \/ y[i] = x[i]
                 \/ /\ y[i] = c[2][i][2] /\ i <= Len(c[2])
                    /\ \A j \in 1..i : y[j] = c[2][j][2]
      <4>1. CASE i <= n
        <5>1. \A j \in 1..i : j \in 1..ArrayN /\ j <= n
          BY <3>2, <4>1
        <5>2. \A j \in 1..i : y[j] = c[2][j][2]
          BY <2>2, <5>1
        <5> QED BY <2>2, <4>1, <5>2
      <4>2. CASE ~(i <= n)
        BY <2>2, <4>2
      <4> QED BY <4>1, <4>2
    <3>4. Kept("array", x, c, y, out[1])
      BY <3>3, KeptIs
    <3> QED BY <1>3, <3>1, <3>4
  <2> QED BY <1>3, <2>1, <2>2, ArrayMeans
<1> QED BY <1>1, <1>2, <1>3, <1>4, <1>5

LEMMA FailureIsKept ==
  FailureKeepsDestination <=>
    (last[1] \in {"refused", "thrown"} => Kept(obj[1], last[2], val, obj[2], last[1]))
BY TypesAre DEF FailureKeepsDestination, Kept

LEMMA ReadKeeps ==
  ASSUME Typed, NEW t \in Types, TryGet(t, Held(t)) \/ Get(t, Held(t))
  PROVE  FailureKeepsDestination'
<1>1. IsTyped(val) /\ IsContent(t, Held(t))
  BY HeldIsContent DEF Typed
<1>0. (FailureKeepsDestination <=>
        (last[1] \in {"refused", "thrown"} => Kept(obj[1], last[2], val, obj[2], last[1])))'
  BY FailureIsKept, PTL
<1>2. CASE TryGet(t, Held(t))
  <2>1. PICK out : /\ out = Unpack(t, val, Held(t)) /\ Outcome(t, Held(t), out)
                   /\ val' = val /\ obj' = <<t, out[2]>> /\ last' = <<out[1], Held(t)>>
    BY <1>2, TryGetMeans
  <2>2. out[1] # "done" => Kept(t, Held(t), val, out[2], out[1])
    BY <1>1, <2>1, FailureKept
  <2>3. last'[1] \in {"refused", "thrown"} => Kept(obj'[1], last'[2], val', obj'[2], last'[1])
    BY <2>1, <2>2
  <2> QED BY <1>0, <2>3
<1>3. CASE Get(t, Held(t))
  <2>1. PICK out : /\ t \notin {"chars", "array"} /\ val' = val
                   /\ IF out[1] = "done"
                      THEN obj' = <<t, out[2]>> /\ last' = <<"done", Held(t)>>
                      ELSE obj' = <<t, Held(t)>> /\ last' = <<"thrown", Held(t)>>
    BY <1>3, GetMeans
  <2>2. Kept(t, Held(t), val, Held(t), "thrown")
    BY <2>1 DEF Kept
  <2>3. last'[1] \in {"refused", "thrown"} => Kept(obj'[1], last'[2], val', obj'[2], last'[1])
    BY <2>1, <2>2
  <2> QED BY <1>0, <2>3
<1> QED BY <1>2, <1>3

LEMMA NextKeeps == Typed /\ FailureKeepsDestination /\ [Next]_vars => FailureKeepsDestination'
<1> SUFFICES ASSUME Typed, FailureKeepsDestination, [Next]_vars
             PROVE  FailureKeepsDestination'
  OBVIOUS
<1>1. CASE Store
  BY <1>1 DEF Store, FailureKeepsDestination
<1>2. ASSUME NEW c \in Documents, FromJson(c)
      PROVE  FailureKeepsDestination'
  BY <1>2 DEF FromJson, FailureKeepsDestination
<1>3. ASSUME NEW t \in Types, TryGet(t, Held(t)) \/ Get(t, Held(t))
      PROVE  FailureKeepsDestination'
  BY <1>3, ReadKeeps
<1>4. CASE UNCHANGED vars
  BY <1>4 DEF FailureKeepsDestination, vars
<1> QED BY <1>1, <1>2, <1>3, <1>4 DEF Next

\* An unpack that fails leaves its destination alone, but for the beginning of
\* the string in a char array, the converted elements of an array, the low bits
\* of the text in an sc_bv, and an sc_fix or sc_ufix that a text has left without
\* a number; for every width, every length of the arrays and vectors and every
\* document, with SystemC's assignments from texts as ValueConverters states them.
THEOREM FailuresKeepTheDestination == Spec => []FailureKeepsDestination
<1>1. Init => FailureKeepsDestination
  BY DEF Init, FailureKeepsDestination
<1> QED BY <1>1, NextKeeps, ConvertersKeepTypes, PTL DEF Spec

-----------------------------------------------------------------------------
(* There and back.                                                            *)

LEMMA WidthsNest ==
  ASSUME NEW v \in Nat \ {0}, NEW w \in Nat \ {0}, v <= w
  PROVE  Signed(v) \subseteq Signed(w) /\ Unsigned(v) \subseteq Unsigned(w)
<1>1. 2^v <= 2^w /\ 2^v \in Nat /\ 2^w \in Nat
  BY PowerGrows, PowerIsNat
<1>2. v - 1 \in Nat /\ w - 1 \in Nat /\ v - 1 <= w - 1
  OBVIOUS
<1>3. 2^(v-1) <= 2^(w-1) /\ 2^(v-1) \in Nat /\ 2^(w-1) \in Nat
  BY <1>2, PowerGrows, PowerIsNat
<1>4. PICK a \in Nat, b \in Nat, c \in Nat, d \in Nat :
        a = 2^v /\ b = 2^w /\ c = 2^(v-1) /\ d = 2^(w-1) /\ a <= b /\ c <= d
  BY <1>1, <1>3
<1>5. -c..(c-1) \subseteq -d..(d-1) /\ 0..(a-1) \subseteq 0..(b-1)
  BY <1>4
<1> QED BY <1>4, <1>5 DEF Signed, Unsigned

LEMMA IntegersNest ==
  /\ Integer("char") \subseteq Integer("int")
  /\ Integer("uchar") \subseteq Integer("unsigned")
  /\ \A t \in Wide : Bits(t) <= LongBits =>
        Integer(t) \subseteq Integer(IF IsSigned(t) THEN "int64" ELSE "uint64")
<1>1. /\ Integer("char") = Signed(ShortBits) /\ Integer("int") = Signed(IntBits)
      /\ Integer("uchar") = Unsigned(ShortBits) /\ Integer("unsigned") = Unsigned(IntBits)
      /\ Integer("int64") = Signed(LongBits) /\ Integer("uint64") = Unsigned(LongBits)
  BY DEF Integer, IsSigned, Bits, SignedBits, UnsignedBits
<1>2. ShortBits \in Nat \ {0} /\ IntBits \in Nat \ {0} /\ LongBits \in Nat \ {0}
      /\ ShortBits <= IntBits
  BY WidthsAreOrdered
<1>3. ASSUME NEW t \in Wide, Bits(t) <= LongBits
      PROVE  Integer(t) \subseteq Integer(IF IsSigned(t) THEN "int64" ELSE "uint64")
  <2>1. Bits(t) \in Nat \ {0}
    BY Widths, TypesAre
  <2>2. Signed(Bits(t)) \subseteq Signed(LongBits) /\ Unsigned(Bits(t)) \subseteq Unsigned(LongBits)
    BY <1>2, <1>3, <2>1, WidthsNest
  <2> QED BY <1>1, <2>2 DEF Integer
<1> QED BY <1>1, <1>2, <1>3, WidthsNest

\* Reading back what an object of type t with content x was packed into.
Back(t, x, y) == Unpack(t, Pack(t, x), y)

LEMMA NumbersComeBack ==
  ASSUME NEW t \in WidthTypes \cup Reals \cup FxTypes \cup {"bool"}, NEW x, IsContent(t, x),
         x # NoNumber \/ t \notin FixedTypes, NEW y
  PROVE  Back(t, x, y) = Done(x)
<1>1. DoubleBits \in Nat \ {0} /\ FloatBits \in Nat \ {0} /\ FloatBits <= DoubleBits
  BY WidthsAreOrdered
<1>2. CASE t \in Integers4
  <2>1. Pack(t, x) = <<"integer", x>> /\ x \in Integer(t)
    BY <1>2, PackIs, ContentIs, TypesAre
  <2>2. IsInteger(<<"integer", x>>, t)
    BY <2>1 DEF IsInteger
  <2> QED BY <1>2, <2>1, <2>2, UnpackIs DEF Back
<1>3. CASE t \in Narrow
  <2>1. Pack(t, x) = <<"integer", x>> /\ x \in Integer(t) /\ t \in WidthTypes
    BY <1>3, PackIs, ContentIs, TypesAre
  <2>2. Wrap(t, x) = x
    BY <2>1, IntegersAre, WrapKeeps
  <2>3. \E u \in {"int", "unsigned"} :
          /\ Integer(t) \subseteq Integer(u)
          /\ Unpack(t, <<"integer", x>>, y) =
               IF IsInteger(<<"integer", x>>, u) THEN Done(Wrap(t, x)) ELSE Refused(y)
    BY <1>3, DelegateIs, IntegersNest DEF Narrow
  <2> QED BY <2>1, <2>2, <2>3 DEF IsInteger, Back
<1>4. CASE t = "bool"
  <2>1. Pack(t, x) = <<"bool", x>>
    BY <1>4, PackIs
  <2> QED BY <1>4, <2>1, UnpackIs DEF IsBool, Back
<1>5. CASE t = "double"
  <2>1. Pack(t, x) = <<"real", x>> /\ Float(x, DoubleBits) = x
    BY <1>5, PackIs, ContentIs DEF Reals
  <2> QED BY <1>5, <2>1, UnpackIs DEF IsNumber, GetDouble, Back
<1>6. CASE t = "float"
  <2>1. Pack(t, x) = <<"real", x>> /\ x \in Number /\ Float(x, FloatBits) = x
    BY <1>6, PackIs, ContentIs DEF Reals
  <2>2. Float(x, DoubleBits) = x
    BY <1>1, <2>1, FloatInMoreBits
  <2> QED BY <1>6, <2>1, <2>2, DelegateIs DEF IsNumber, GetDouble, Back
<1>7. CASE t = "sc_fxval_fast"
  <2>1. Pack(t, x) = <<"real", x>> /\ x \in Number /\ Float(x, DoubleBits) = x
    BY <1>7, PackIs, ContentIs DEF Reals
  <2>2. FxKept(t, x) = x /\ t \in FxTypes /\ t \notin FixedTypes
    BY <1>7, <2>1, FxKeptIs DEF FxTypes, FixedTypes
  <2>3. Unpack(t, <<"real", x>>, y) = UnpackFx(t, <<"real", x>>, y)
    BY <2>2, UnpackIs
  <2>4. UnpackFx(t, <<"real", x>>, y) = Done(x)
    BY <2>2, TypesAre DEF UnpackFx, IsNumber, IsString
  <2> QED BY <2>1, <2>3, <2>4 DEF Back
<1>8. CASE t \in {"sc_fxval"} \cup FixedTypes
  <2>1. x \in Number /\ t \in FxTypes
    BY <1>8, FxContent DEF FxTypes
  <2>2. PICK s : s = FxText(x) /\ TextNumber(s) = x
    BY <2>1, FxTextIs
  <2>3. Pack(t, x) = <<"string", s>>
    BY <1>8, <2>2, PackIs
  <2>4. FxKept(t, x) = x
    <3>1. CASE t \in FixedTypes
      <4>1. x \in Int /\ x \in Integer(Fixed[t]) /\ Fixed[t] \in WidthTypes
        BY <2>1, <3>1, ContentIs, FixedIs DEF Number
      <4>2. Wrap(Fixed[t], x) = x
        BY <4>1, WrapKeeps
      <4> QED BY <2>1, <3>1, <4>1, <4>2, FxKeptIs
    <3> QED BY <1>8, <2>1, <3>1, FxKeptIs
  <2>5. Unpack(t, <<"string", s>>, y) = UnpackFx(t, <<"string", s>>, y)
    BY <2>1, UnpackIs
  <2>6. UnpackFx(t, <<"string", s>>, y) = Done(x)
    BY <2>2, <2>4, TypesAre DEF UnpackFx, IsNumber, IsString
  <2> QED BY <2>3, <2>5, <2>6 DEF Back
<1>9. CASE t \in Wide
  <2>1. x \in Integer(t) /\ x \in Int /\ t \in WidthTypes /\ Wrap(t, x) = x
    BY <1>9, ContentIs, TypesAre, IntegersAre, WrapKeeps
  <2>2. CASE Bits(t) <= LongBits
    <3>1. Pack(t, x) = <<"integer", x>>
      BY <1>9, <2>2, PackIs DEF PackWide, PackInteger, Wide, WideText
    <3>2. IsInteger(<<"integer", x>>, IF IsSigned(t) THEN "int64" ELSE "uint64")
      <4>1. Integer(t) \subseteq Integer(IF IsSigned(t) THEN "int64" ELSE "uint64")
        BY <1>9, <2>2, IntegersNest
      <4> QED BY <2>1, <4>1 DEF IsInteger
    <3>3. Unpack(t, <<"integer", x>>, y) = UnpackWide(t, <<"integer", x>>, y)
      BY <1>9, UnpackIs
    <3>4. UnpackWide(t, <<"integer", x>>, y) = Done(Wrap(t, x))
      BY <3>2 DEF UnpackWide, IsInteger, IsString
    <3> QED BY <2>1, <3>1, <3>3, <3>4 DEF Back
  <2>3. CASE ~(Bits(t) <= LongBits)
    <3>1. t \in WideText
      BY <1>9, <2>3, WidthsAreOrdered
         DEF Wide, WideText, Bits, IsSigned, SignedBits, UnsignedBits
    <3>2. PICK s : s = Numeral(x) /\ IsNumeral(s) /\ NumeralValue(s) = x
      BY <2>1, NumeralIsRead
    <3>3. Pack(t, x) = <<"string", s>>
      BY <2>3, <3>1, <3>2, PackIs DEF PackWide, PackString
    <3>4. Unpack(t, <<"string", s>>, y) = Done(Wrap(t, NumeralValue(s)))
      <4>1. Unpack(t, <<"string", s>>, y) = UnpackWide(t, <<"string", s>>, y)
        BY <1>9, UnpackIs
      <4>2. UnpackWide(t, <<"string", s>>, y) = FromNumeral(t, s, y)
        BY DEF UnpackWide, IsInteger, IsString
      <4> QED BY <3>2, <4>1, <4>2 DEF FromNumeral
    <3> QED BY <2>1, <3>2, <3>3, <3>4 DEF Back
  <2> QED BY <2>2, <2>3
<1> QED BY <1>2, <1>3, <1>4, <1>5, <1>6, <1>7, <1>8, <1>9, TypesAre DEF Reals, FxTypes

LEMMA TextsComeBack ==
  ASSUME NEW t \in BitVector \cup {"string", "chars", "sc_logic"}, NEW x, IsContent(t, x), NEW y
  PROVE  Back(t, x, y) = Done(x)
<1>1. CASE t = "string"
  <2>1. Pack(t, x) = <<"string", x>>
    BY <1>1, PackIs
  <2> QED BY <1>1, <2>1, UnpackIs DEF IsString, Back
<1>2. CASE t = "chars"
  <2>1. Pack(t, x) = <<"string", x>> /\ Len(x) < CharN
    BY <1>2, PackIs, ContentIs
  <2>2. Unpack(t, <<"string", x>>, y) = Done(x)
    BY <1>2, <2>1, UnpackIs DEF UnpackChars, IsString
  <2> QED BY <2>1, <2>2 DEF Back
<1>3. Range(Logic) = {"0", "1", "Z", "X"} /\ Logic[1] = "0" /\ Logic[2] = "1"
  BY DEF Logic, Range
<1>4. CASE t = "sc_logic"
  <2>1. x \in Range(Logic) /\ Pack(t, x) = PackLogic(x)
    BY <1>4, ContentIs, PackIs
  <2>2. \A c : Unpack(t, c, y) = UnpackLogic(c, y)
    BY <1>4, UnpackIs
  <2>3. CASE x \in {"0", "1"}
    <3>1. PICK i \in {0, 1} : Pack(t, x) = <<"bool", i>> /\ Logic[i+1] = x
      BY <1>3, <2>1, <2>3 DEF PackLogic
    <3>2. UnpackLogic(<<"bool", i>>, y) = Done(Logic[i+1])
      BY DEF UnpackLogic, IsBool, IsInteger, IsString
    <3> QED BY <2>2, <3>1, <3>2 DEF Back
  <2>4. CASE x \notin {"0", "1"}
    <3>1. Pack(t, x) = <<"string", <<x>>>>
      BY <2>1, <2>4 DEF PackLogic, PackString
    <3>2. Len(<<x>>) = 1 /\ <<x>>[1] = x
      OBVIOUS
    <3>3. UnpackLogic(<<"string", <<x>>>>, y) = Done(LogicOf(x))
      BY <2>1, <3>2 DEF UnpackLogic, IsBool, IsInteger, IsString
    <3>4. LogicOf(x) = x
      BY <2>1, LogicOfIs
    <3> QED BY <2>2, <3>1, <3>3, <3>4 DEF Back
  <2> QED BY <2>3, <2>4
<1>5. CASE t \in BitVector
  <2> DEFINE allowed == IF t = "sc_bv" THEN {"0", "1"} ELSE Range(Logic)
  <2>1. Pack(t, x) = <<"string", x>>
    BY <1>5, PackIs
  <2>2. x \in [1..VectorBits -> allowed] /\ VectorBits \in Nat \ {0}
    BY <1>5, ContentIs, WidthsAreOrdered DEF BitVector
  <2>3. Len(x) = VectorBits /\ x # <<>>
    <3>1. DOMAIN x = 1..VectorBits /\ x = [i \in 1..VectorBits |-> x[i]]
      BY <2>2
    <3>2. Len(x) = VectorBits
      BY <2>2, <3>1, FunctionIsSequence
    <3>3. Len(<<>>) = 0
      OBVIOUS
    <3> QED BY <2>2, <3>2, <3>3
  <2>4. \A i \in 1..VectorBits : DigitFor(x, i) = x[i] /\ x[i] \in allowed
    <3>1. ASSUME NEW i \in 1..VectorBits
          PROVE  DigitFor(x, i) = x[i]
      <4>1. PICK j : j = Len(x) - VectorBits + i
        OBVIOUS
      <4>2. j = i /\ j >= 1
        BY <2>2, <2>3, <4>1
      <4> QED BY <4>1, <4>2 DEF DigitFor
    <3> QED BY <2>2, <3>1
  <2>8. PICK c : c = <<"string", x>>
    OBVIOUS
  <2>5. c = <<"string", x>> /\ IsString(c) /\ c[2] = x
    BY <2>8 DEF IsString
  <2>6. CASE t = "sc_bv"
    <3> DEFINE set(i) == \A j \in i..VectorBits : DigitFor(x, j) \in {"0", "1"}
               z == [i \in 1..VectorBits |-> IF set(i) THEN DigitFor(x, i) ELSE y[i]]
    <3>1. UnpackBits(c, y) = IF set(1) THEN Done(z) ELSE Thrown(z)
      BY <2>3, <2>5 DEF UnpackBits
    <3>2. \A i \in 1..VectorBits : set(i)
      <4>1. \A i \in 1..VectorBits : i..VectorBits \subseteq 1..VectorBits
        BY <2>2
      <4> QED BY <2>4, <2>6, <4>1
    <3>3. set(1)
      BY <2>2, <3>2
    <3>4. z = x
      BY <2>2, <2>4, <3>2
    <3>5. Unpack(t, c, y) = UnpackBits(c, y)
      BY <2>6, UnpackIs
    <3> QED BY <2>1, <2>5, <3>1, <3>3, <3>4, <3>5 DEF Back
  <2>7. CASE t = "sc_lv"
    <3> DEFINE z == [i \in 1..VectorBits |-> LogicOf(DigitFor(x, i))]
    <3>1. UnpackLogicVector(c, y) = Done(z)
      BY <2>3, <2>5 DEF UnpackLogicVector
    <3>2. \A i \in 1..VectorBits : LogicOf(DigitFor(x, i)) = x[i]
      BY <2>4, <2>7, LogicOfIs
    <3>3. z = x
      BY <2>2, <3>2
    <3>4. Unpack(t, c, y) = UnpackLogicVector(c, y)
      BY <2>7, UnpackIs
    <3> QED BY <2>1, <2>5, <3>1, <3>3, <3>4 DEF Back
  <2> QED BY <1>5, <2>6, <2>7 DEF BitVector
<1> QED BY <1>1, <1>2, <1>4, <1>5

LEMMA ListsComeBack ==
  ASSUME NEW t \in Vector \cup {"array"}, NEW x, IsContent(t, x), NEW y
  PROVE  Back(t, x, y) = Done(x)
<1> PICK u : u = IF t = "array" THEN "int" ELSE Element[t]
  OBVIOUS
<1>1. PICK n \in Nat : /\ DOMAIN x = 1..n /\ Len(x) = n /\ x = [i \in 1..n |-> x[i]]
                       /\ t = "array" => n = ArrayN
                       /\ \A i \in 1..n : x[i] \in Integer(u)
  BY ListLength
<1>2. PICK k : /\ PackList(x) = <<"list", k>> /\ Len(k) = n
               /\ \A i \in 1..n : k[i] = <<"integer", x[i]>>
  BY <1>1, PackListIs
<1>3. u \in Integers4
  BY ElementIs DEF Integers4
<1>4. \A i \in 1..n : Is(u, k[i]) /\ k[i][2] = x[i]
  BY <1>1, <1>2, <1>3, ElementIs
<1>5. Convertible(u, k) = n
  <2>1. PICK m \in Nat : m = Convertible(u, k) /\ m <= n /\ (m < n => ~Is(u, k[m+1]))
    <3>1. Len(k) \in Nat
      BY <1>2
    <3>2. /\ Convertible(u, k) \in 0..n
          /\ Convertible(u, k) < n => ~Is(u, k[Convertible(u, k) + 1])
      BY <1>2, <3>1, ConvertibleIs
    <3> QED BY <3>2
  <2>2. ~(m < n)
    <3>1. m < n => m + 1 \in 1..n
      BY <2>1
    <3> QED BY <1>4, <2>1, <3>1
  <2> QED BY <2>1, <2>2
<1>6. Pack(t, x) = <<"list", k>>
  BY <1>2, PackIs
<1>7. CASE t \in Vector
  <2>1. u = Element[t]
    BY <1>7 DEF Vector
  <2> DEFINE z == [i \in 1..n |-> k[i][2]]
  <2>2. Unpack(t, <<"list", k>>, y) = UnpackVector(t, <<"list", k>>, y)
    BY <1>7, UnpackIs
  <2>3. UnpackVector(t, <<"list", k>>, y) = Done(z)
    BY <1>2, <1>5, <2>1 DEF UnpackVector, IsList
  <2>4. z = x
    BY <1>1, <1>4
  <2> QED BY <1>6, <2>2, <2>3, <2>4 DEF Back
<1>8. CASE t = "array"
  <2> DEFINE z == [i \in 1..ArrayN |-> IF i <= n THEN k[i][2] ELSE y[i]]
  <2>1. n = ArrayN /\ u = "int" /\ Min({ArrayN, n}) = n
    BY <1>1, <1>8, MinOfTwo
  <2>2. Unpack(t, <<"list", k>>, y) = UnpackArray(<<"list", k>>, y)
    BY <1>8, UnpackIs
  <2>3. UnpackArray(<<"list", k>>, y) = Done(z)
    BY <1>2, <1>5, <2>1 DEF UnpackArray, IsList
  <2>4. z = x
    BY <1>1, <1>4, <2>1
  <2> QED BY <1>6, <2>2, <2>3, <2>4 DEF Back
<1> QED BY <1>7, <1>8

LEMMA TimesComeBack ==
  ASSUME NEW x \in Nat, NEW y
  PROVE  \E u \in DOMAIN Unit :
            /\ x % Unit[u] = 0
            /\ Back("sc_time", x, y) = Done(Unit[u] * Round(x \div Unit[u], DoubleBits))
<1>1. DOMAIN Unit = {"u", "k"} /\ Unit["u"] = 1 /\ Unit["k"] = 4
  BY DEF Unit
<1>2. PICK u \in DOMAIN Unit : u = (IF x % Unit["k"] = 0 THEN "k" ELSE "u") /\ x % Unit[u] = 0
  BY <1>1
<1>3. PICK q \in Int, m \in Nat : q = x \div Unit[u] /\ m = Unit[u]
  BY <1>1
<1>4. PICK v : v = <<"integer", q>>
  OBVIOUS
<1>5. PICK w : w = <<"string", <<u>>>>
  OBVIOUS
<1>6. PICK c : c = <<"list", <<v, w>>>>
  OBVIOUS
<1>7. Pack("sc_time", x) = c
  <2>1. Pack("sc_time", x) = PackTime(x)
    BY PackIs
  <2>2. PackTime(x) = <<"list", <<PackInteger(x \div Unit[u]), PackString(<<u>>)>>>>
    BY <1>2 DEF PackTime
  <2> QED BY <1>3, <1>4, <1>5, <1>6, <2>1, <2>2 DEF PackInteger, PackString
<1>8. PICK p : p = <<v, w>>
  OBVIOUS
<1>9. Len(p) = 2 /\ p[1] = v /\ p[2] = w
  BY <1>8
<1>10. IsList(c) /\ ~IsString(c) /\ c[2] = p
  BY <1>6, <1>8 DEF IsList, IsString
<1>11. IsNumber(v) /\ IsString(w) /\ w[2] = <<u>>
  BY <1>4, <1>5 DEF IsNumber, IsString
<1>12. w[2] # <<>> /\ Len(w[2]) = 1 /\ w[2][1] = u
  BY <1>11
<1>13. UnpackTime(c, y) = Done(GetDouble(v) * Unit[u])
  <2>1. UnpackTime(c, y) = TimeFrom(c, y, v, w)
    BY <1>9, <1>10, TimeMeans
  <2>2. PICK z : z = w[2] /\ z # <<>> /\ Len(z) = 1 /\ z[1] \in DOMAIN Unit /\ z[1] = u
    BY <1>2, <1>12
  <2>3. TimeFrom(c, y, v, w) = Done(GetDouble(v) * Unit[z[1]])
    BY <1>10, <1>11, <2>2 DEF TimeFrom, IsInteger, IsString
  <2> QED BY <2>1, <2>2, <2>3
<1>14. PICK r \in Int : r = Round(q, DoubleBits) /\ GetDouble(v) = r
  <2>1. DoubleBits \in Nat \ {0} /\ q \in Number
    BY WidthsAreOrdered DEF Number
  <2>2. Round(q, DoubleBits) \in Int /\ Float(q, DoubleBits) = Round(q, DoubleBits)
    BY <2>1, RoundKeeps, FloatKeeps
  <2> QED BY <1>4, <2>2 DEF GetDouble
<1>15. GetDouble(v) * Unit[u] = Unit[u] * Round(x \div Unit[u], DoubleBits)
  BY <1>3, <1>14
<1>16. Back("sc_time", x, y) = UnpackTime(c, y)
  BY <1>7, UnpackIs DEF Back
<1> QED BY <1>2, <1>13, <1>15, <1>16

LEMMA TypedRoundTrips == Typed => RoundTrips
<1> SUFFICES ASSUME Typed, stage = "value", obj[1] \in Types \ FixedWithoutNumber
             PROVE  LET t == obj[1]
                        out == Unpack(t, val, Held(t))
                    IN /\ out[1] = "done"
                       /\ t # "sc_time" => out[2] = obj[2]
                       /\ t = "sc_time" => \E u \in DOMAIN Unit :
                            /\ obj[2] % Unit[u] = 0
                            /\ out[2] = Unit[u] * Round(obj[2] \div Unit[u], DoubleBits)
  BY DEF RoundTrips
<1>1. PICK t, x, out : t = obj[1] /\ x = obj[2] /\ out = Unpack(t, val, Held(t))
  OBVIOUS
<1>2. t \in Types /\ IsContent(t, x) /\ out = Back(t, x, Held(t))
  BY <1>1 DEF Typed, Back
<1>5. x # NoNumber \/ t \notin FixedTypes
  BY <1>1, TypesAre DEF FixedWithoutNumber
<1>3. CASE t # "sc_time"
  <2>1. out = Done(x)
    <3>1. t \in (WidthTypes \cup Reals \cup FxTypes \cup {"bool"}) \cup (Vector \cup {"array"})
                \cup (BitVector \cup {"string", "chars", "sc_logic"})
      BY <1>2, <1>3, TypesAre DEF Others, Reals, FxTypes
    <3> QED BY <1>2, <1>5, <3>1, NumbersComeBack, TextsComeBack, ListsComeBack
  <2>2. out[1] = "done" /\ out[2] = x
    BY <2>1 DEF Done
  <2> QED BY <1>1, <1>3, <2>2
<1>4. CASE t = "sc_time"
  <2>1. x \in Nat
    <3>1. x \in 0..(2^LongBits - 1) /\ 2^LongBits \in Nat
      BY <1>2, <1>4, ContentIs, PowerIsNat, WidthsAreOrdered
    <3> QED BY <3>1
  <2>2. PICK u \in DOMAIN Unit :
          /\ x % Unit[u] = 0
          /\ out = Done(Unit[u] * Round(x \div Unit[u], DoubleBits))
    BY <1>2, <1>4, <2>1, TimesComeBack
  <2>3. out[1] = "done" /\ out[2] = Unit[u] * Round(x \div Unit[u], DoubleBits)
    BY <2>2 DEF Done
  <2> QED BY <1>1, <1>4, <2>2, <2>3
<1> QED BY <1>3, <1>4

\* What is packed is read back by the same type as it was: every integer within
\* its width, through a numeral when 64 bits do not suffice; every float through
\* a double; bits, logic values, strings and lists; a time up to the precision of
\* a double.
THEOREM PackedValuesComeBack == Spec => []RoundTrips
<1> QED BY TypedRoundTrips, ConvertersKeepTypes, PTL DEF Spec

-----------------------------------------------------------------------------
(* The number on its way.                                                     *)

\* The number a value stands for.
Carried(c) ==
  CASE c[1] \in {"bool", "integer", "real"} -> c[2]
    [] c[1] = "string" -> TextNumber(c[2])
    [] OTHER -> NoNumber

LEMMA NumberIsTyped ==
  ASSUME NEW t \in Types, NEW x, IsContent(t, x)
  PROVE  NumberOf(t, x) \in Int \cup {NoNumber}
<1>1. CASE t \in WidthTypes \cup Reals \cup FxTypes \cup {"bool"}
  <2>1. x \in Number
    <3>1. CASE t \in WidthTypes \cup {"bool"}
      BY <3>1, ContentIs, IntegersAre DEF Number
    <3>2. CASE t \in Reals
      BY <3>2, ContentIs DEF Reals
    <3>3. CASE t \in {"sc_fxval"} \cup FixedTypes
      BY <3>3, FxContent
    <3> QED BY <1>1, <3>1, <3>2, <3>3 DEF FxTypes, Reals
  <2> QED BY <1>1, <2>1, NumberIs DEF Number
<1>2. CASE t = "sc_logic"
  BY <1>2, NumberIs
<1>3. CASE t \in {"string", "chars"}
  <2>1. x \in Seq(Char)
    BY <1>3, ContentIs
  <2>2. NumberOf(t, x) = TextNumber(x)
    BY <1>3, NumberIs
  <2> QED BY <2>1, <2>2, TextIsNumber
<1>4. CASE t \in BitVector \cup Vector \cup {"sc_time", "array"}
  BY <1>4, NumberIs
<1> QED BY <1>1, <1>2, <1>3, <1>4, TypesAre DEF Others, Reals, FxTypes

LEMMA PackCarries ==
  ASSUME NEW t \in Types, NEW x, IsContent(t, x), NumberOf(t, x) # NoNumber
  PROVE  Carried(Pack(t, x)) = NumberOf(t, x)
<1>1. \A k \in {"bool", "integer", "real"} : Carried(<<k, x>>) = x
  BY DEF Carried
<1>2. \A s : Carried(<<"string", s>>) = TextNumber(s)
  BY DEF Carried
<1>3. CASE t \in WidthTypes
  <2>1. x \in Int
    BY <1>3, ContentIs, IntegersAre
  <2>2. Pack(t, x) \in {<<"integer", x>>, <<"string", Numeral(x)>>}
    BY <1>3, PackIs, TypesAre DEF PackWide, PackInteger, PackString, Wide, WideText
  <2>3. Carried(<<"string", Numeral(x)>>) = x
    BY <1>2, <2>1, NumeralIsRead DEF TextNumber
  <2>4. NumberOf(t, x) = x
    BY <1>3, NumberIs
  <2> QED BY <1>1, <2>2, <2>3, <2>4
<1>4. CASE t \in Reals \cup {"bool"}
  <2>1. \E k \in {"bool", "integer", "real"} : Pack(t, x) = <<k, x>>
    BY <1>4, PackIs
  <2>2. NumberOf(t, x) = x
    BY <1>4, NumberIs
  <2> QED BY <1>1, <2>1, <2>2
<1>5. CASE t \in {"sc_fxval"} \cup FixedTypes
  <2>1. x \in Number /\ Pack(t, x) = <<"string", FxText(x)>> /\ NumberOf(t, x) = x
    BY <1>5, FxContent, PackIs, NumberIs DEF FxTypes
  <2> QED BY <1>2, <2>1, FxTextIs
<1>6. CASE t = "sc_logic"
  <2>1. NumberOf(t, x) = CASE x = "1" -> 1 [] x = "0" -> 0 [] OTHER -> NoNumber
    BY <1>6, NumberIs
  <2>2. Pack(t, x) = PackLogic(x)
    BY <1>6, PackIs
  <2>3. x \in {"0", "1"}
    BY <2>1
  <2>4. Pack(t, x) = <<"bool", IF x = "1" THEN 1 ELSE 0>>
    BY <2>2, <2>3 DEF PackLogic
  <2>5. Carried(<<"bool", IF x = "1" THEN 1 ELSE 0>>) = IF x = "1" THEN 1 ELSE 0
    BY DEF Carried
  <2> QED BY <2>1, <2>3, <2>4, <2>5
<1>7. CASE t \in {"string", "chars"}
  <2>1. Pack(t, x) = <<"string", x>>
    BY <1>7, PackIs
  <2>2. NumberOf(t, x) = TextNumber(x)
    BY <1>7, NumberIs
  <2> QED BY <1>2, <2>1, <2>2
<1>8. CASE t \in BitVector \cup Vector \cup {"sc_time", "array"}
  BY <1>8, NumberIs
<1> QED BY <1>3, <1>4, <1>5, <1>6, <1>7, <1>8, TypesAre DEF Others, Reals

\* What type t makes of the number n, read with success.
Arrives(t, n, y) ==
  /\ Holds(t, n) => NumberOf(t, y) = n
  /\ LowBits(t) > 0 => NumberOf(t, y) \in Int /\ Same(NumberOf(t, y), n, 2^LowBits(t))

LEMMA IntegerArrives ==
  ASSUME NEW t \in WidthTypes, NEW n \in Int
  PROVE  Arrives(t, n, Wrap(t, n)) /\ (n \in Integer(t) => Arrives(t, n, n))
<1>1. /\ Wrap(t, n) \in Int /\ Same(Wrap(t, n), n, 2^Bits(t))
      /\ n \in Integer(t) => Wrap(t, n) = n
  BY WrapKeeps
<1>2. \A y : NumberOf(t, y) = y
  BY NumberIs
<1>3. LowBits(t) = Bits(t) /\ (Holds(t, n) <=> n \in Integer(t))
  BY LowBitsIs, HoldsIs
<1>4. Arrives(t, n, Wrap(t, n))
  BY <1>1, <1>2, <1>3 DEF Arrives
<1> QED BY <1>1, <1>4

LEMMA CarriedIs ==
  ASSUME NEW c, IsTyped(c), NEW n \in Int, Carried(c) = n
  PROVE  /\ c[1] \in {"bool", "integer", "real", "string"}
         /\ IsBool(c) \/ IsNumber(c) \/ c[1] = "integer" => c[2] = n
         /\ IsString(c) => /\ c[2] \in Seq(Char) /\ IsNumeral(c[2]) /\ NumeralValue(c[2]) = n
                           /\ TextNumber(c[2]) = n
BY NoNumberIsNone DEF Carried, IsTyped, IsBool, IsNumber, IsString, TextNumber

LEMMA UnpackCarries ==
  ASSUME NEW t \in Types, NEW c, IsTyped(c), NEW n \in Int, Carried(c) = n,
         NEW x, NEW y, Unpack(t, c, x) = Done(y)
  PROVE  Arrives(t, n, y)
<1>1. \A a, b : Done(a) = Done(b) => a = b
  BY DEF Done
<1>2. \A a, b : Done(a) # Refused(b) /\ Done(a) # Thrown(b)
  BY DEF Done, Refused, Thrown
<1>3. \A u : IsInteger(c, u) => c[2] = n /\ n \in Integer(u)
  BY CarriedIs DEF IsInteger
<1>4. DoubleBits \in Nat \ {0} /\ FloatBits \in Nat \ {0} /\ FloatBits <= DoubleBits
  BY WidthsAreOrdered
<1>5. CASE t \in Integers4
  <2>1. Unpack(t, c, x) = IF IsInteger(c, t) THEN Done(c[2]) ELSE Refused(x)
    BY <1>5, UnpackIs
  <2>2. y = n /\ n \in Integer(t) /\ t \in WidthTypes
    BY <1>5, <1>1, <1>2, <1>3, <2>1, TypesAre
  <2> QED BY <2>2, IntegerArrives
<1>6. CASE t \in Narrow
  <2>1. \E u \in {"int", "unsigned"} :
          Unpack(t, c, x) = IF IsInteger(c, u) THEN Done(Wrap(t, c[2])) ELSE Refused(x)
    BY <1>6, DelegateIs DEF Narrow
  <2>2. y = Wrap(t, n) /\ t \in WidthTypes
    BY <1>6, <1>1, <1>2, <1>3, <2>1, TypesAre
  <2> QED BY <2>2, IntegerArrives
<1>7. CASE t \in Wide
  <2>1. \E u \in Integers4 :
          Unpack(t, c, x) = CASE IsInteger(c, u) -> Done(Wrap(t, c[2]))
                              [] IsString(c) -> FromNumeral(t, c[2], x)
                              [] OTHER -> Refused(x)
    BY <1>7, UnpackIs DEF UnpackWide, Integers4
  <2>2. IsString(c) => FromNumeral(t, c[2], x) = Done(Wrap(t, n))
    BY CarriedIs DEF FromNumeral
  <2>3. y = Wrap(t, n) /\ t \in WidthTypes
    BY <1>7, <1>1, <1>2, <1>3, <2>1, <2>2, TypesAre
  <2> QED BY <2>3, IntegerArrives
<1>8. ASSUME LowBits(t) = 0
      PROVE  Arrives(t, n, y) <=> (Holds(t, n) => NumberOf(t, y) = n)
  BY <1>8 DEF Arrives
<1>9. \A u \in Types \ (WidthTypes \cup Exactly) : LowBits(u) = 0
  BY LowBitsIs
<1>10. CASE t = "bool"
  <2>1. y = n
    BY <1>10, <1>1, <1>2, UnpackIs, CarriedIs
  <2> QED BY <1>8, <1>9, <1>10, <2>1, NumberIs, TypesAre DEF Integers4, Narrow, Wide, Exactly, FixedTypes
<1>11. CASE t \in {"double", "float"}
  <2>1. IsNumber(c) /\ y = IF t = "double" THEN GetDouble(c) ELSE Float(GetDouble(c), FloatBits)
    BY <1>11, <1>1, <1>2, UnpackIs, DelegateIs
  <2>2. c[2] = n
    BY <2>1, CarriedIs
  <2>3. Holds(t, n) => Float(n, DoubleBits) = n /\ (t = "float" => Float(n, FloatBits) = n)
    <3>1. Holds(t, n) => Round(n, DoubleBits) = n /\ (t = "float" => Round(n, FloatBits) = n)
      BY <1>11, <1>4, HoldsIs, RoundInMoreBits
    <3>2. n \in Number
      BY DEF Number
    <3> QED BY <1>4, <3>1, <3>2, FloatKeeps
  <2>4. Holds(t, n) => y = n
    BY <1>11, <2>1, <2>2, <2>3 DEF GetDouble
  <2>5. NumberOf(t, y) = y
    BY <1>11, NumberIs DEF Reals
  <2>6. LowBits(t) = 0
    BY <1>9, <1>11, TypesAre DEF Integers4, Narrow, Wide, Exactly, FixedTypes
  <2> QED BY <1>8, <2>4, <2>5, <2>6
<1>12. Same(n, n, 2^WideBits)
  <2>1. 2^WideBits \in Nat \ {0}
    BY PowerIsNat, WidthsAreOrdered
  <2> QED BY <2>1, SameIsEquivalence
<1>13. CASE t = "string"
  <2>1. IsString(c) /\ y = c[2]
    BY <1>13, <1>1, <1>2, UnpackIs
  <2>2. NumberOf(t, y) = n
    BY <1>13, <2>1, CarriedIs, NumberIs
  <2>3. LowBits(t) = WideBits
    BY <1>13, LowBitsIs DEF Exactly
  <2> QED BY <1>12, <2>2, <2>3 DEF Arrives
<1>14. CASE t \in FxTypes
  <2>1. n \in Number /\ Unpack(t, c, x) = Done(FxKept(t, n))
    <3>1. n \in Number /\ n # NoNumber
      BY NoNumberIsNone DEF Number
    <3>2. PICK m \in Number :
            /\ IsNumber(c) \/ IsString(c)
            /\ m = IF IsNumber(c) THEN c[2] ELSE TextNumber(c[2])
            /\ Unpack(t, c, x) = IF FxKept(t, m) = NoNumber /\ t \in FixedTypes
                                 THEN Thrown(NoNumber) ELSE Done(FxKept(t, m))
      BY <1>2, <1>14, FxMeans
    <3>3. m = n
      BY <3>2, CarriedIs
    <3> QED BY <1>2, <3>1, <3>2, <3>3
  <2>2. y = FxKept(t, n)
    BY <1>1, <2>1
  <2>3. NumberOf(t, y) = y
    BY <1>14, NumberIs
  <2>4. CASE t = "sc_fxval"
    <3>1. y = n
      BY <1>14, <2>1, <2>2, <2>4, FxKeptIs
    <3>2. LowBits(t) = WideBits
      BY <2>4, LowBitsIs DEF Exactly
    <3> QED BY <1>12, <2>3, <3>1, <3>2 DEF Arrives
  <2>5. CASE t = "sc_fxval_fast"
    <3>1. y = Float(n, DoubleBits)
      BY <1>14, <2>1, <2>2, <2>5, FxKeptIs
    <3>2. Holds(t, n) => y = n
      BY <1>4, <2>1, <2>5, <3>1, HoldsIs, FloatKeeps
    <3>3. LowBits(t) = 0
      BY <1>9, <2>5, TypesAre DEF Integers4, Narrow, Wide, Exactly, FixedTypes
    <3> QED BY <1>8, <2>3, <3>2, <3>3
  <2>6. CASE t \in FixedTypes
    <3>1. PICK u \in WidthTypes : u = Fixed[t] /\ Bits(u) = WideBits
      BY <2>6, FixedIs
    <3>2. y = Wrap(u, n)
      BY <1>14, <2>1, <2>2, <2>6, <3>1, FxKeptIs
    <3>3. y \in Int /\ Same(y, n, 2^WideBits) /\ (n \in Integer(u) => y = n)
      BY <3>1, <3>2, WrapKeeps
    <3>4. LowBits(t) = WideBits /\ (Holds(t, n) <=> n \in Integer(u))
      BY <2>6, <3>1, LowBitsIs, HoldsIs DEF Exactly
    <3> QED BY <2>3, <3>3, <3>4 DEF Arrives
  <2> QED BY <1>14, <2>4, <2>5, <2>6 DEF FxTypes
<1>15. CASE t = "sc_logic"
  <2>1. LowBits(t) = 0
    BY <1>9, <1>15, TypesAre DEF Integers4, Narrow, Wide, Exactly, FixedTypes
  <2>2. ASSUME n \in {0, 1}
        PROVE  NumberOf(t, y) = n
    <3>1. Unpack(t, c, x) =
            CASE IsBool(c) -> Done(Logic[c[2] + 1])
              [] IsInteger(c, "int") -> IF c[2] \in 0..3 THEN Done(Logic[c[2] + 1]) ELSE Thrown(x)
              [] /\ IsString(c) /\ Len(c[2]) = 1
                 /\ c[2][1] \in Range(Logic) \cup {"z", "x"} -> Done(LogicOf(c[2][1]))
              [] OTHER -> Refused(x)
      BY <1>15, UnpackIs DEF UnpackLogic
    <3>2. NumberOf(t, "0") = 0 /\ NumberOf(t, "1") = 1
      BY <1>15, NumberIs
    <3>3. Logic[1] = "0" /\ Logic[2] = "1" /\ Range(Logic) = {"0", "1", "Z", "X"}
      BY DEF Logic, Range
    <3>4. CASE IsBool(c) \/ IsInteger(c, "int")
      <4>1. c[2] = n /\ n \in 0..3
        BY <2>2, <3>4, CarriedIs DEF IsInteger
      <4>2. Unpack(t, c, x) = Done(Logic[n+1])
        <5>1. c[2] \in 0..3 /\ Logic[c[2] + 1] = Logic[n+1]
          BY <4>1
        <5>2. CASE IsBool(c)
          BY <3>1, <5>1, <5>2 DEF IsBool, IsInteger, IsString
        <5>3. CASE ~IsBool(c)
          <6>1. IsInteger(c, "int")
            BY <3>4, <5>3
          <6> QED BY <3>1, <5>1, <5>3, <6>1 DEF IsBool, IsInteger, IsString
        <5> QED BY <5>2, <5>3
      <4>3. y = Logic[n+1]
        BY <1>1, <4>2
      <4> QED BY <2>2, <3>2, <3>3, <4>3
    <3>5. CASE ~(IsBool(c) \/ IsInteger(c, "int"))
      <4>1. PICK d : /\ IsString(c) /\ Len(c[2]) = 1 /\ d = c[2][1] /\ y = LogicOf(d)
                     /\ d \in {"0", "1", "Z", "X", "z", "x"}
        BY <1>1, <1>2, <3>1, <3>3, <3>5
      <4>2. c[2] \in Seq(Char) /\ IsNumeral(c[2]) /\ NumeralValue(c[2]) = n
        BY <4>1, CarriedIs
      <4>3. c[2] = <<d>>
        <5>1. d \in Char
          BY <4>1, <4>2, ElementOfSeq
        <5>2. <<d>> \in Seq(Char) /\ Len(<<d>>) = 1 /\ <<d>>[1] = d
          BY <5>1
        <5> QED BY <4>1, <4>2, <5>2, SeqEqual
      <4>4. d # "-" /\ DOMAIN <<d>> = 1..1 /\ <<d>>[1] = d /\ <<d>> # <<>>
        BY <4>1
      <4>5. Unsign(<<d>>) = <<d>>
        BY <4>4 DEF Unsign
      <4>6. d \in Digits
        BY <4>2, <4>3, <4>4, <4>5 DEF IsNumeral
      <4>7. n = DigitValue(d)
        BY <4>2, <4>3, <4>6, DigitIsNumeral
      <4>8. d \in {"0", "1"} /\ y = d
        <5>1. Digits = Range(Digit) /\ Range(Digit) = {Digit[i] : i \in 1..10}
          BY DigitFacts DEF Digits, Range
        <5>2. \A i \in 1..10 : Digit[i] \notin {"Z", "X", "z", "x"}
          BY DEF Digit
        <5>3. d \in {"0", "1"}
          BY <4>1, <4>6, <5>1, <5>2
        <5> QED BY <3>3, <4>1, <5>3, LogicOfIs
      <4>9. DigitValue("0") = 0 /\ DigitValue("1") = 1
        <5>1. Digit[1] = "0" /\ Digit[2] = "1"
          BY DEF Digit
        <5> QED BY <5>1, DigitFacts
      <4> QED BY <3>2, <4>7, <4>8, <4>9
    <3> QED BY <3>4, <3>5
  <2>3. Holds(t, n) => n \in {0, 1}
    BY <1>15, HoldsIs
  <2> QED BY <1>8, <2>1, <2>2, <2>3
<1>16. CASE t = "chars"
  <2>1. LowBits(t) = 0
    BY <1>9, <1>16, TypesAre DEF Integers4, Narrow, Wide, Exactly, FixedTypes
  <2>2. y = c[2] /\ IsString(c)
    <3>1. Unpack(t, c, x) =
            CASE c[1] = "null" -> Done(<<>>)
              [] IsString(c) -> IF Len(c[2]) < CharN THEN Done(c[2])
                                ELSE Refused(SubSeq(c[2], 1, CharN - 1))
              [] OTHER -> Refused(x)
      BY <1>16, UnpackIs DEF UnpackChars
    <3>2. c[1] # "null"
      BY CarriedIs
    <3> QED BY <1>1, <1>2, <3>1, <3>2
  <2>3. NumberOf(t, y) = n
    BY <1>16, <2>2, CarriedIs, NumberIs
  <2> QED BY <1>8, <2>1, <2>3
<1>17. CASE t \in BitVector \cup Vector \cup {"sc_time", "array"}
  <2>1. LowBits(t) = 0
    BY <1>9, <1>17, TypesAre
       DEF Integers4, Narrow, Wide, BitVector, Vector, Exactly, FixedTypes
  <2>2. ~Holds(t, n)
    BY <1>17, HoldsIs
  <2> QED BY <1>8, <2>1, <2>2
<1> QED BY <1>5, <1>6, <1>7, <1>10, <1>11, <1>13, <1>14, <1>15, <1>16, <1>17, TypesAre
        DEF Others, FxTypes

\* The ghost: which number is on its way, and what has become of it.
Sent == [number : Int \cup {NoNumber}, fits : BOOLEAN, low : Nat]

Tracked(t, x, s) ==
  /\ s \in Sent
  /\ s.fits => NumberOf(t, x) = s.number /\ s.number # NoNumber
  /\ s.low > 0 /\ s.number # NoNumber =>
        NumberOf(t, x) \in Int /\ Same(NumberOf(t, x), s.number, 2^s.low)

Survives ==
  /\ Tracked(obj[1], obj[2], sent)
  /\ obj[1] = "none" => sent.number = NoNumber

LEMMA FreshIsTracked ==
  ASSUME NEW t \in Types, NEW x, IsContent(t, x)
  PROVE  Tracked(t, x, Fresh(t, x))
<1>1. PICK n \in Int \cup {NoNumber} : n = NumberOf(t, x)
  BY NumberIsTyped
<1>2. PICK l \in Nat : l = LowBits(t)
  BY LowBitsIs
<1>3. Fresh(t, x) = [number |-> n, fits |-> n # NoNumber, low |-> l]
  BY <1>1, <1>2 DEF Fresh
<1>4. PICK s \in Sent : s = Fresh(t, x)
  BY <1>3 DEF Sent
<1>5. s.number = n /\ s.fits = (n # NoNumber) /\ s.low = l
  BY <1>3, <1>4
<1>6. s.fits => NumberOf(t, x) = s.number /\ s.number # NoNumber
  BY <1>1, <1>5
<1>7. ASSUME s.number # NoNumber
      PROVE  NumberOf(t, x) \in Int /\ Same(NumberOf(t, x), s.number, 2^s.low)
  <2>1. n \in Int
    BY <1>5, <1>7
  <2>2. 2^l \in Nat \ {0}
    BY PowerIsNat
  <2>3. Same(n, n, 2^l)
    BY <2>1, <2>2, SameIsEquivalence
  <2> QED BY <1>1, <1>5, <2>1, <2>3
<1> QED BY <1>4, <1>6, <1>7 DEF Tracked

LEMMA PassedIs ==
  ASSUME NEW t \in Types, sent \in Sent
  PROVE  \E s \in Sent :
            /\ s = Passed(t) /\ s.number = sent.number
            /\ s.fits => sent.fits /\ Holds(t, sent.number)
            /\ s.low <= sent.low /\ s.low <= LowBits(t)
<1>1. PICK l \in Nat : l = LowBits(t)
  BY LowBitsIs
<1>2. sent.low \in Nat /\ sent.fits \in BOOLEAN /\ sent.number \in Int \cup {NoNumber}
  BY DEF Sent
<1>3. PICK m \in Nat : m = Min({sent.low, l}) /\ m <= sent.low /\ m <= l
  BY <1>2, MinOfTwo
<1>4. PICK f \in BOOLEAN : f = (sent.fits /\ Holds(t, sent.number))
  OBVIOUS
<1>5. Passed(t) = [number |-> sent.number, fits |-> f, low |-> m]
  <2>1. Passed(t) = [sent EXCEPT !.fits = f, !.low = m]
    BY <1>1, <1>3, <1>4 DEF Passed
  <2> QED BY <2>1 DEF Sent
<1>6. Passed(t) \in Sent
  BY <1>2, <1>5 DEF Sent
<1>7. PICK s \in Sent : s = Passed(t)
  BY <1>6
<1>8. s.number = sent.number /\ s.fits = f /\ s.low = m
  BY <1>5, <1>7
<1> QED BY <1>1, <1>3, <1>4, <1>7, <1>8

\* A value that is read with success.
LEMMA PassedIsTracked ==
  ASSUME Typed, Survives, stage = "value", NEW t \in Types, NEW x, NEW y,
         Unpack(t, val, x) = Done(y)
  PROVE  Tracked(t, y, Passed(t))
<1>1. sent \in Sent
  BY DEF Survives, Tracked
<1>2. PICK s \in Sent :
        /\ s = Passed(t) /\ s.number = sent.number
        /\ s.fits => sent.fits /\ Holds(t, sent.number)
        /\ s.low <= sent.low /\ s.low <= LowBits(t)
  BY <1>1, PassedIs
<1>3. CASE sent.number = NoNumber
  BY <1>2, <1>3 DEF Survives, Tracked
<1>4. CASE sent.number # NoNumber
  <2>1. PICK n \in Int : n = sent.number
    BY <1>1, <1>4 DEF Sent
  <2>2. obj[1] \in Types /\ IsContent(obj[1], obj[2]) /\ val = Pack(obj[1], obj[2]) /\ IsTyped(val)
    BY <1>4 DEF Typed, Survives
  <2>3. PICK m : m = NumberOf(obj[1], obj[2])
    OBVIOUS
  <2>4. m \in Int => Carried(val) = m
    <3>1. m \in Int => m # NoNumber
      BY WidthsAreOrdered
    <3> QED BY <2>2, <2>3, <3>1, PackCarries
  <2>5. m \in Int => Arrives(t, m, y)
    BY <2>2, <2>4, UnpackCarries
  <2>6. ASSUME s.fits
        PROVE  NumberOf(t, y) = s.number /\ s.number # NoNumber
    <3>1. m = n /\ Holds(t, n)
      BY <1>2, <2>1, <2>3, <2>6 DEF Survives, Tracked
    <3> QED BY <1>2, <1>4, <2>1, <2>5, <3>1 DEF Arrives
  <2>7. ASSUME s.low > 0
        PROVE  NumberOf(t, y) \in Int /\ Same(NumberOf(t, y), s.number, 2^s.low)
    <3>1. s.low \in Nat /\ sent.low \in Nat /\ LowBits(t) \in Nat
      BY <1>1, LowBitsIs DEF Sent
    <3>2. sent.low > 0 /\ LowBits(t) > 0
      BY <1>2, <2>7, <3>1
    <3>3. m \in Int /\ Same(m, n, 2^sent.low)
      BY <1>4, <2>1, <2>3, <3>2 DEF Survives, Tracked
    <3>4. PICK k \in Int : k = NumberOf(t, y) /\ Same(k, m, 2^LowBits(t))
      BY <2>5, <3>2, <3>3 DEF Arrives
    <3>5. Same(m, n, 2^s.low) /\ Same(k, m, 2^s.low)
      BY <1>2, <3>1, <3>3, <3>4, SameInFewerBits
    <3>6. 2^s.low \in Nat \ {0}
      BY <3>1, PowerIsNat
    <3>7. Same(k, n, 2^s.low)
      BY <3>3, <3>5, <3>6, SameIsEquivalence
    <3> QED BY <1>2, <2>1, <3>4, <3>7
  <2> QED BY <1>2, <2>6, <2>7 DEF Tracked
<1> QED BY <1>3, <1>4

LEMMA InitSurvives == Init => Survives
<1> SUFFICES ASSUME Init PROVE Survives
  OBVIOUS
<1>1. PICK t \in Types : \E x \in Contents(t) : obj = <<t, x>> /\ sent = Fresh(t, x)
  BY DEF Init
<1>2. PICK x \in Contents(t) : obj = <<t, x>> /\ sent = Fresh(t, x)
  BY <1>1
<1>3. obj[1] = t /\ obj[2] = x /\ IsContent(t, x)
  BY <1>2, ContentsAreContent
<1>4. Tracked(t, x, sent)
  BY <1>2, <1>3, FreshIsTracked
<1> QED BY <1>3, <1>4, NoneIsNoType DEF Survives

LEMMA FromJsonSurvives ==
  ASSUME NEW c, FromJson(c)
  PROVE  Survives'
<1>1. obj' = <<"none", 0>> /\ sent' = [number |-> NoNumber, fits |-> FALSE, low |-> 0]
  BY DEF FromJson
<1>2. sent' \in Sent
  BY <1>1 DEF Sent
<1> QED BY <1>1, <1>2 DEF Survives, Tracked

LEMMA ReadSurvives ==
  ASSUME Typed, Survives, NEW t \in Types, TryGet(t, Held(t)) \/ Get(t, Held(t))
  PROVE  Survives'
<1>1. \E y : /\ obj' = <<t, y>>
             /\ \/ sent' = Fresh(t, y) /\ IsContent(t, y)
                \/ sent' = Passed(t) /\ Unpack(t, val, Held(t)) = Done(y) /\ stage = "value"
  <2>1. \A out : out[1] = "done" /\ Outcome(t, Held(t), out) => out = Done(out[2])
    BY DEF Outcome, Done
  <2>2. CASE TryGet(t, Held(t))
    <3>1. PICK out : /\ out = Unpack(t, val, Held(t)) /\ Outcome(t, Held(t), out)
                     /\ stage = "value" /\ obj' = <<t, out[2]>>
                     /\ sent' = IF out[1] = "done" THEN Passed(t) ELSE Fresh(t, out[2])
      BY <2>2, TryGetMeans
    <3> QED BY <2>1, <3>1 DEF Outcome
  <2>3. CASE Get(t, Held(t))
    <3>1. PICK out : /\ out = Unpack(t, val, Held(t)) /\ Outcome(t, Held(t), out)
                     /\ stage = "value"
                     /\ IF out[1] = "done" THEN obj' = <<t, out[2]>> /\ sent' = Passed(t)
                        ELSE obj' = <<t, Held(t)>> /\ sent' = Fresh(t, Held(t))
      BY <2>3, GetMeans
    <3> QED BY <2>1, <3>1, HeldIsContent
  <2> QED BY <2>2, <2>3
<1>2. PICK y : /\ obj' = <<t, y>>
               /\ \/ sent' = Fresh(t, y) /\ IsContent(t, y)
                  \/ sent' = Passed(t) /\ Unpack(t, val, Held(t)) = Done(y) /\ stage = "value"
  BY <1>1
<1>3. Tracked(t, y, sent')
  BY <1>2, FreshIsTracked, PassedIsTracked
<1> QED BY <1>2, <1>3, NoneIsNoType DEF Survives

LEMMA NextSurvives == Typed /\ Survives /\ [Next]_vars => Survives'
<1> SUFFICES ASSUME Typed, Survives, [Next]_vars PROVE Survives'
  OBVIOUS
<1>1. CASE Store
  BY <1>1 DEF Store, Survives
<1>2. ASSUME NEW c \in Documents, FromJson(c)
      PROVE  Survives'
  BY <1>2, FromJsonSurvives
<1>3. ASSUME NEW t \in Types, TryGet(t, Held(t)) \/ Get(t, Held(t))
      PROVE  Survives'
  BY <1>3, ReadSurvives
<1>4. CASE UNCHANGED vars
  BY <1>4 DEF Survives, vars
<1> QED BY <1>1, <1>2, <1>3, <1>4 DEF Next

LEMMA SurvivalMeans == Survives => NumbersSurvive
BY DEF Survives, Tracked, NumbersSurvive, Same

\* A number that every type on its way can hold arrives unchanged, however often
\* it is packed and read; and of any number that passes integer types, numerals
\* and sc_fxvals only, the low-order bits for which the narrowest of them has room
\* arrive, although no converter tests a range. For every width of the types.
THEOREM NumbersArrive == Spec => []NumbersSurvive
<1> QED BY InitSurvives, NextSurvives, SurvivalMeans, ConvertersKeepTypes, PTL DEF Spec

=============================================================================
