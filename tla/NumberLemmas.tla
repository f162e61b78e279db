---------------------------- MODULE NumberLemmas ----------------------------
(* Facts about numbers that the proofs about the components need: least    *)
(* elements, powers of two, the arithmetic of FastMath, and sums.          *)
EXTENDS FastMath, Totals, FiniteSetTheorems, WellFoundedInduction, TLAPS

(* A set of numbers that is not empty has a least one.  (What replaces     *)
(* induction in the proofs: of the counterexamples there is a least one.)  *)
LEMMA LeastOf ==
  ASSUME NEW S \in SUBSET Nat, S # {}
  PROVE  \E m \in S : \A k \in S : m <= k
<1>1. PICK T : T = {1 .. i : i \in S}
  OBVIOUS
<1>2. T \subseteq FiniteSubsetsOf(Nat)
  <2> SUFFICES ASSUME NEW i \in S PROVE 1 .. i \in FiniteSubsetsOf(Nat)
    BY <1>1
  <2>1. IsFiniteSet(1 .. i)
    BY FS_Interval
  <2>2. 1 .. i \in SUBSET Nat
    OBVIOUS
  <2> QED
    BY <2>1, <2>2 DEF FiniteSubsetsOf
<1>3. T # {}
  BY <1>1
<1>4. PICK x \in T : \A y \in T : ~ (<<y, x>> \in StrictSubsetOrdering(Nat))
  <2>1. IsWellFoundedOn(StrictSubsetOrdering(Nat), FiniteSubsetsOf(Nat))
    BY FS_StrictSubsetOrderingWellFounded
  <2> QED
    BY <2>1, <1>2, <1>3, WFMin
<1>5. PICK m \in S : x = 1 .. m
  BY <1>1
<1>6. ASSUME NEW k \in S, k < m PROVE FALSE
  <2>1. 1 .. k \in T
    BY <1>1
  <2>2. 1 .. k \subseteq 1 .. m /\ m \in 1 .. m /\ m \notin 1 .. k
    BY <1>6
  <2>3. 1 .. k \in SUBSET Nat /\ 1 .. m \in SUBSET Nat
    OBVIOUS
  <2>4. <<1 .. k, 1 .. m>> \in StrictSubsetOrdering(Nat)
    BY <2>2, <2>3 DEF StrictSubsetOrdering
  <2> QED
    BY <2>1, <2>4, <1>4, <1>5
<1> QED
  BY <1>6

-----------------------------------------------------------------------------
(* Powers of two count subsets. *)
LEMMA PowCounts ==
  ASSUME NEW k \in Nat
  PROVE  /\ IsFiniteSet(SUBSET (1 .. k)) /\ Cardinality(SUBSET (1 .. k)) = 2^k
         /\ 2^k \in Nat
<1>1. IsFiniteSet(1 .. k) /\ Cardinality(1 .. k) = k
  BY FS_Interval
<1>2. IsFiniteSet(SUBSET (1 .. k)) /\ Cardinality(SUBSET (1 .. k)) = 2^k
  BY <1>1, FS_SUBSET
<1> QED
  BY <1>2, FS_CardinalityType

LEMMA PowZero == 2^0 = 1
<1>1. SUBSET (1 .. 0) = {{}}
  OBVIOUS
<1>2. Cardinality({{}}) = 1
  BY FS_Singleton
<1> QED
  BY <1>1, <1>2, PowCounts

LEMMA PowMonotone ==
  ASSUME NEW j \in Nat, NEW k \in Nat, j <= k
  PROVE  2^j <= 2^k
<1>1. SUBSET (1 .. j) \in SUBSET (SUBSET (1 .. k))
  OBVIOUS
<1>2. IsFiniteSet(SUBSET (1 .. k))
  BY PowCounts
<1>3. Cardinality(SUBSET (1 .. j)) <= Cardinality(SUBSET (1 .. k))
  BY <1>1, <1>2, FS_Subset
<1>4. Cardinality(SUBSET (1 .. j)) = 2^j
  BY PowCounts
<1>5. Cardinality(SUBSET (1 .. k)) = 2^k
  BY PowCounts
<1> QED
  BY <1>3, <1>4, <1>5

LEMMA PowGrows ==
  ASSUME NEW k \in Nat
  PROVE  2^(k + 1) = 2 * 2^k
<1> DEFINE A == SUBSET (1 .. k)
           B == {x \cup {k + 1} : x \in A}
<1>1. IsFiniteSet(A) /\ Cardinality(A) = 2^k /\ 2^k \in Nat
  BY PowCounts
<1>2. SUBSET (1 .. k + 1) = A \cup B
  <2>1. 1 .. k + 1 = (1 .. k) \cup {k + 1}
    OBVIOUS
  <2>2. ASSUME NEW y \in SUBSET (1 .. k + 1), k + 1 \in y PROVE y \in B
    <3>1. y \ {k + 1} \in A /\ y = (y \ {k + 1}) \cup {k + 1}
      BY <2>1, <2>2
    <3> QED
      BY <3>1
  <2>3. ASSUME NEW y \in SUBSET (1 .. k + 1), k + 1 \notin y PROVE y \in A
    BY <2>1, <2>3
  <2>4. A \subseteq SUBSET (1 .. k + 1) /\ B \subseteq SUBSET (1 .. k + 1)
    BY <2>1
  <2> QED
    BY <2>2, <2>3, <2>4
<1>3. k + 1 \notin 1 .. k
  OBVIOUS
<1>4. A \cap B = {}
  BY <1>3
<1>5. IsFiniteSet(B) /\ Cardinality(B) = Cardinality(A)
  <2> DEFINE f == [x \in A |-> x \cup {k + 1}]
  <2>1. f \in [A -> B] /\ \A y \in B : \E x \in A : f[x] = y
    OBVIOUS
  <2>2. ASSUME NEW x \in A, NEW y \in A, f[x] = f[y] PROVE x = y
    BY <2>2, <1>3
  <2>3. f \in Bijection(A, B)
    BY <2>1, <2>2 DEF Bijection, Injection, Surjection, IsInjective
  <2> QED
    BY <2>3, <1>1, FS_Bijection DEF ExistsBijection
<1>6. Cardinality(A \cup B) = Cardinality(A) + Cardinality(B) - Cardinality(A \cap B)
  BY <1>1, <1>5, FS_Union
<1>7. Cardinality(A \cap B) = 0
  BY <1>4, FS_EmptySet
<1>8. Cardinality(SUBSET (1 .. k + 1)) = 2^(k + 1)
  <2>1. k + 1 \in Nat
    OBVIOUS
  <2> QED
    BY <2>1, PowCounts
<1>9. Cardinality(A \cup B) = 2^k + 2^k
  BY <1>1, <1>5, <1>6, <1>7
<1>10. 2^(k + 1) = 2^k + 2^k
  BY <1>2, <1>8, <1>9
<1> QED
  BY <1>1, <1>10

LEMMA PowLarge ==
  ASSUME NEW k \in Nat
  PROVE  k < 2^(k + 1)
<1> DEFINE f == [i \in 1 .. k |-> {i}]
<1>1. f \in Injection(1 .. k, SUBSET (1 .. k))
  BY DEF Injection, IsInjective
<1>2. Cardinality(1 .. k) = k
  BY FS_Interval
<1>3. k <= 2^k
  <2>1. IsFiniteSet(SUBSET (1 .. k)) /\ Cardinality(SUBSET (1 .. k)) = 2^k
    BY PowCounts
  <2>2. Cardinality(1 .. k) <= Cardinality(SUBSET (1 .. k))
    BY <1>1, <2>1, FS_Injection
  <2> QED
    BY <2>1, <2>2, <1>2
<1>4. 1 <= 2^k /\ 2^k \in Nat
  <2>1. 2^0 <= 2^k
    <3>1. 0 \in Nat /\ 0 <= k
      OBVIOUS
    <3> QED
      BY <3>1, PowMonotone
  <2>2. 2^k \in Nat
    BY PowCounts
  <2> QED
    BY <2>1, <2>2, PowZero
<1> QED
  BY <1>3, <1>4, PowGrows

-----------------------------------------------------------------------------
(* fast_math_fastlog2 is the position of the top bit. *)
LEMMA Log2DownIs ==
  ASSUME NEW x \in Nat \ {0}
  PROVE  /\ Log2Down(x) \in Nat
         /\ 2^Log2Down(x) <= x /\ x < 2^(Log2Down(x) + 1)
<1> DEFINE S == {k \in Nat : x < 2^(k + 1)}
<1>1. x \in S
  BY PowLarge
<1>2. PICK m \in S : \A k \in S : m <= k
  BY <1>1, LeastOf
<1>3. m \in 0 .. x /\ x < 2^(m + 1)
  BY <1>1, <1>2
<1>4. 2^m <= x
  <2>1. CASE m = 0
    BY <2>1, PowZero
  <2>2. CASE m # 0
    <3>1. m - 1 \in Nat /\ (m - 1) + 1 = m /\ ~(m <= m - 1)
      BY <2>2
    <3>2. ~(x < 2^m)
      BY <3>1, <1>2
    <3>3. 2^m \in Nat
      BY PowCounts
    <3> QED
      BY <3>2, <3>3
  <2> QED
    BY <2>1, <2>2
<1>5. \E k \in 0 .. x : 2^k <= x /\ x < 2^(k + 1)
  BY <1>3, <1>4
<1>6. Log2Down(x) = CHOOSE k \in 0 .. x : 2^k <= x /\ x < 2^(k + 1)
  BY DEF Log2Down
<1>7. Log2Down(x) \in 0 .. x /\ 2^Log2Down(x) <= x /\ x < 2^(Log2Down(x) + 1)
  BY <1>5, <1>6
<1> QED
  BY <1>7

LEMMA Log2DownType ==
  ASSUME NEW x \in Nat
  PROVE  Log2Down(x) \in Nat
<1>1. CASE x = 0
  BY <1>1 DEF Log2Down
<1>2. CASE x # 0
  BY <1>2, Log2DownIs
<1> QED
  BY <1>1, <1>2

LEMMA Log2DownMonotone ==
  ASSUME NEW x \in Nat, NEW y \in Nat, x <= y
  PROVE  Log2Down(x) <= Log2Down(y)
<1>1. CASE x = 0
  BY <1>1, Log2DownType DEF Log2Down
<1>2. CASE x # 0
  <2> DEFINE a == Log2Down(x)
             b == Log2Down(y)
  <2>1. a \in Nat /\ b \in Nat /\ 2^a <= x /\ y < 2^(b + 1)
    BY <1>2, Log2DownIs
  <2> HIDE DEF a, b
  <2>2. 2^a \in Nat /\ 2^(b + 1) \in Nat
    <3>1. a \in Nat /\ b + 1 \in Nat
      BY <2>1
    <3> QED
      BY <3>1, PowCounts
  <2>3. ASSUME b + 1 <= a PROVE FALSE
    <3>1. 2^(b + 1) <= 2^a
      BY <2>1, <2>3, PowMonotone
    <3> QED
      BY <3>1, <2>1, <2>2
  <2>4. a <= b
    BY <2>1, <2>3
  <2> QED
    BY <2>4 DEF a, b
<1> QED
  BY <1>1, <1>2

(* Rounded up, the power is at least x.                                    *)
LEMMA Log2UpIs ==
  ASSUME NEW x \in Nat \ {0}
  PROVE  Log2Up(x) \in Nat /\ x <= 2^Log2Up(x)
<1>1. Log2Down(x) \in Nat /\ x < 2^(Log2Down(x) + 1)
  BY Log2DownIs
<1>2. CASE 2^Log2Down(x) = x
  BY <1>1, <1>2 DEF Log2Up
<1>3. CASE 2^Log2Down(x) # x
  <2>1. Log2Up(x) = Log2Down(x) + 1
    BY <1>3 DEF Log2Up
  <2>2. 2^(Log2Down(x) + 1) \in Nat
    BY <1>1, PowCounts
  <2> QED
    BY <1>1, <2>1, <2>2
<1> QED
  BY <1>2, <1>3

LEMMA Log2UpType ==
  ASSUME NEW x \in Nat
  PROVE  Log2Up(x) \in Nat
BY Log2DownType DEF Log2Up

-----------------------------------------------------------------------------
(* Division. *)
LEMMA DivIs ==
  ASSUME NEW x \in Nat, NEW y \in Nat \ {0}
  PROVE  x \div y \in Nat /\ y * (x \div y) <= x
OBVIOUS

LEMMA DivMonotone ==
  ASSUME NEW x \in Nat, NEW z \in Nat, NEW y \in Nat \ {0}, x <= z
  PROVE  x \div y <= z \div y
OBVIOUS

LEMMA DivUpIs ==
  ASSUME NEW x \in Nat, NEW y \in Nat \ {0}
  PROVE  DivUp(x, y) \in Nat /\ x <= y * DivUp(x, y)
<1>1. /\ x \div y \in Nat /\ x = y * (x \div y) + (x % y) /\ x % y \in 0 .. y - 1
  OBVIOUS
<1>2. CASE x % y = 0
  <2>1. DivUp(x, y) = x \div y
    BY <1>1, <1>2 DEF DivUp
  <2> QED
    BY <1>1, <1>2, <2>1
<1>3. CASE x % y # 0
  <2>1. DivUp(x, y) = x \div y + 1
    BY <1>3 DEF DivUp
  <2>2. y * (x \div y + 1) = y * (x \div y) + y
    BY <1>1
  <2> QED
    BY <1>1, <2>1, <2>2
<1> QED
  BY <1>2, <1>3

LEMMA TimesMonotone ==
  ASSUME NEW a \in Nat, NEW b \in Nat, NEW y \in Nat, a <= b
  PROVE  y * a <= y * b
OBVIOUS

LEMMA DivMod ==
  ASSUME NEW a \in Int, NEW m \in Nat \ {0}
  PROVE  a \div m \in Int /\ a % m \in 0 .. m - 1 /\ a = m * (a \div m) + (a % m)
OBVIOUS

LEMMA FactorIsZero ==
  ASSUME NEW m \in Nat \ {0}, NEW k \in Int, NEW d \in Int, d = m * k, -m < d, d < m
  PROVE  k = 0
<1>1. CASE k >= 1
  <2>1. PICK j \in Nat : k = j + 1
    BY <1>1
  <2>2. m * (j + 1) = m * j + m /\ m * j \in Nat
    OBVIOUS
  <2> QED
    BY <2>1, <2>2
<1>2. CASE k <= -1
  <2>1. PICK j \in Nat : k = - j - 1
    <3>1. - k - 1 \in Nat /\ k = - (- k - 1) - 1
      BY <1>2
    <3> QED
      BY <3>1
  <2>2. m * (- j - 1) = - (m * j) - m /\ m * j \in Nat
    OBVIOUS
  <2> QED
    BY <2>1, <2>2
<1> QED
  BY <1>1, <1>2

LEMMA ModUnique ==
  ASSUME NEW m \in Nat \ {0}, NEW q \in Int, NEW r \in 0 .. m - 1, NEW p \in Int, NEW s \in 0 .. m - 1,
         m * q + r = m * p + s
  PROVE  r = s /\ q = p
<1>1. m * (q - p) = s - r
  <2>1. m * (q - p) = m * q - m * p /\ m * q \in Int /\ m * p \in Int
    OBVIOUS
  <2> QED
    BY <2>1
<1>2. q - p = 0
  <2>1. PICK k, d : k = q - p /\ d = s - r
    OBVIOUS
  <2>2. k \in Int /\ d \in Int /\ -m < d /\ d < m /\ d = m * k
    BY <1>1, <2>1
  <2>3. k = 0
    BY <2>2, FactorIsZero
  <2> QED
    BY <2>1, <2>3
<1> QED
  BY <1>1, <1>2

(* Counting modulo m: what was reduced before is reduced all the same. *)
LEMMA ModAdd ==
  ASSUME NEW a \in Int, NEW b \in Int, NEW m \in Nat \ {0}
  PROVE  ((a % m) + b) % m = (a + b) % m
<1>1. PICK q, r : q = a \div m /\ r = a % m
  OBVIOUS
<1>2. q \in Int /\ r \in 0 .. m - 1 /\ a = m * q + r
  BY <1>1, DivMod
<1>3. PICK u, v, x, y : u = (r + b) \div m /\ v = (r + b) % m /\ x = (a + b) \div m /\ y = (a + b) % m
  OBVIOUS
<1>4. u \in Int /\ v \in 0 .. m - 1 /\ r + b = m * u + v
  <2>1. r + b \in Int
    BY <1>2
  <2> QED
    BY <2>1, <1>3, DivMod
<1>5. x \in Int /\ y \in 0 .. m - 1 /\ a + b = m * x + y
  <2>1. PICK c : c = a + b
    OBVIOUS
  <2>2. c \in Int /\ x = c \div m /\ y = c % m
    BY <2>1, <1>3
  <2>3. c = m * x + y /\ x \in Int /\ y \in 0 .. m - 1
    BY <2>2, DivMod
  <2> QED
    BY <2>1, <2>3
<1>6. m * (q + u) + v = m * x + y
  <2>1. m * (q + u) = m * q + m * u /\ m * q \in Int /\ m * u \in Int /\ m * x \in Int
    BY <1>2, <1>4, <1>5
  <2> QED
    BY <2>1, <1>2, <1>4, <1>5
<1>7. v = y
  <2>1. PICK w : w = q + u
    OBVIOUS
  <2>2. w \in Int /\ m * w + v = m * x + y
    BY <2>1, <1>2, <1>4, <1>6
  <2>3. x \in Int /\ v \in 0 .. m - 1 /\ y \in 0 .. m - 1
    BY <1>4, <1>5
  <2> QED
    BY <2>2, <2>3, ModUnique
<1> QED
  BY <1>1, <1>3, <1>7

(* Rounded up, a division gives the first multiple that is not below x.    *)
LEMMA DivUpBounds ==
  ASSUME NEW x \in Nat, NEW y \in Nat \ {0}
  PROVE  /\ DivUp(x, y) \in Nat /\ x <= y * DivUp(x, y) /\ y * DivUp(x, y) \in Nat
         /\ y * DivUp(x, y) < x + y
<1>1. PICK q, r : q = x \div y /\ r = x % y
  OBVIOUS
<1>2. q \in Nat /\ r \in 0 .. y - 1 /\ x = y * q + r /\ y * q \in Nat
  BY <1>1
<1>3. CASE r = 0
  <2>1. DivUp(x, y) = q
    BY <1>1, <1>2, <1>3 DEF DivUp
  <2> QED
    BY <1>2, <1>3, <2>1
<1>4. CASE r # 0
  <2>1. DivUp(x, y) = q + 1
    BY <1>1, <1>4 DEF DivUp
  <2>2. y * (q + 1) = y * q + y
    BY <1>2
  <2> QED
    BY <1>2, <1>4, <2>1, <2>2
<1> QED
  BY <1>3, <1>4

(* It is the least such multiple. *)
LEMMA DivUpLeast ==
  ASSUME NEW x \in Nat, NEW y \in Nat \ {0}, NEW k \in Nat, x <= y * k
  PROVE  DivUp(x, y) <= k
<1>1. PICK d : d = DivUp(x, y)
  OBVIOUS
<1>2. d \in Nat /\ y * d \in Nat /\ y * d < x + y /\ y * k \in Nat
  BY <1>1, DivUpBounds
<1>3. ASSUME k + 1 <= d PROVE FALSE
  <2>1. y * (k + 1) <= y * d
    <3>1. k + 1 \in Nat
      OBVIOUS
    <3> QED
      BY <3>1, <1>2, <1>3, TimesMonotone
  <2>2. y * (k + 1) = y * k + y
    OBVIOUS
  <2> QED
    BY <2>1, <2>2, <1>2
<1> QED
  BY <1>1, <1>2, <1>3

LEMMA DivUpMonotone ==
  ASSUME NEW x \in Nat, NEW z \in Nat, NEW y \in Nat \ {0}, x <= z
  PROVE  DivUp(x, y) <= DivUp(z, y)
<1>1. PICK d : d = DivUp(z, y)
  OBVIOUS
<1>2. d \in Nat /\ z <= y * d /\ y * d \in Nat
  BY <1>1, DivUpBounds
<1>3. x <= y * d
  BY <1>2
<1> QED
  BY <1>1, <1>2, <1>3, DivUpLeast

(* Alignment. *)
LEMMA AlignToIs ==
  ASSUME NEW x \in Nat, NEW y \in Nat \ {0}
  PROVE  AlignTo(x, y) \in Nat /\ x <= AlignTo(x, y) /\ AlignTo(x, y) < x + y
BY DivUpBounds DEF AlignTo

LEMMA AlignToMonotone ==
  ASSUME NEW x \in Nat, NEW z \in Nat, NEW y \in Nat \ {0}, x <= z
  PROVE  AlignTo(x, y) <= AlignTo(z, y)
<1>1. DivUp(x, y) \in Nat /\ DivUp(z, y) \in Nat /\ DivUp(x, y) <= DivUp(z, y)
  BY DivUpBounds, DivUpMonotone
<1> QED
  BY <1>1, TimesMonotone DEF AlignTo

(* Aligned beyond a multiple y * h, a number and its double differ, once   *)
(* the double is beyond where the first number after it is aligned to.     *)
LEMMA AlignDouble ==
  ASSUME NEW y \in Nat \ {0}, NEW h \in Nat, NEW a \in Nat \ {0}, NEW x \in Nat \ {0},
         AlignTo(a + y * h, y) < AlignTo(2 * x + y * h, y)
  PROVE  AlignTo(x + y * h, y) < AlignTo(2 * x + y * h, y)
<1>1. PICK g, k, m : /\ g = DivUp(x + y * h, y) /\ k = DivUp(2 * x + y * h, y)
                     /\ m = DivUp(a + y * h, y)
  OBVIOUS
<1>2. y * h \in Nat /\ x + y * h \in Nat /\ 2 * x + y * h \in Nat /\ a + y * h \in Nat
  OBVIOUS
<1>3. /\ g \in Nat /\ x + y * h <= y * g /\ y * g \in Nat /\ y * g < (x + y * h) + y
      /\ k \in Nat /\ 2 * x + y * h <= y * k /\ y * k \in Nat
      /\ m \in Nat /\ a + y * h <= y * m /\ y * m \in Nat
  BY <1>1, <1>2, DivUpBounds
<1>4. AlignTo(x + y * h, y) = y * g /\ AlignTo(2 * x + y * h, y) = y * k
      /\ AlignTo(a + y * h, y) = y * m
  BY <1>1 DEF AlignTo
<1>5. y * h < y * m /\ y * m < y * k
  BY <1>2, <1>3, <1>4
<1>6. h + 1 <= m
  <2>1. ASSUME m <= h PROVE FALSE
    <3>1. y * m <= y * h
      BY <2>1, <1>3, TimesMonotone
    <3> QED
      BY <3>1, <1>2, <1>3, <1>5
  <2> QED
    BY <2>1, <1>3
<1>7. m + 1 <= k
  <2>1. ASSUME k <= m PROVE FALSE
    <3>1. y * k <= y * m
      BY <2>1, <1>3, TimesMonotone
    <3> QED
      BY <3>1, <1>3, <1>5
  <2> QED
    BY <2>1, <1>3
<1>8. ASSUME k <= g PROVE FALSE
  <2>1. PICK u \in Nat : k = h + 2 + u
    <3>1. k - h - 2 \in Nat /\ k = h + 2 + (k - h - 2)
      BY <1>3, <1>6, <1>7
    <3> QED
      BY <3>1
  <2>2. y * (h + 2 + u) = y * h + (y + y) + y * u /\ y * u \in Nat
    OBVIOUS
  <2>3. y * k <= y * g
    BY <1>3, <1>8, TimesMonotone
  <2>4. PICK p, q : p = y * h /\ q = y * u
    OBVIOUS
  <2>5. p \in Nat /\ q \in Nat /\ y * k = p + (y + y) + q
    BY <1>2, <2>1, <2>2, <2>4
  <2>6. p + (y + y) + q < (x + p) + y /\ 2 * x + p <= p + (y + y) + q
    BY <1>3, <2>3, <2>4, <2>5
  <2> QED
    BY <2>5, <2>6
<1>9. g + 1 <= k
  BY <1>3, <1>8
<1>10. y * g < y * k
  <2>1. y * (g + 1) <= y * k /\ y * (g + 1) = y * g + y
    <3>1. g + 1 \in Nat
      BY <1>3
    <3>2. y * (g + 1) <= y * k
      BY <3>1, <1>3, <1>9, TimesMonotone
    <3> QED
      BY <3>2, <1>3
  <2> QED
    BY <2>1, <1>3
<1> QED
  BY <1>4, <1>10

-----------------------------------------------------------------------------
(* Sums *)

(* S are the running sums of the n numbers x. *)
Running(S, x, n) == S[0] = 0 /\ \A k \in 1 .. n : S[k] = S[k - 1] + x[k]

Sums(x, n, total) == \E S \in [0 .. n -> Int] : Running(S, x, n) /\ S[n] = total

LEMMA SumOfIs ==
  ASSUME NEW n \in Nat, NEW x \in [1 .. n -> Int], NEW total, Sums(x, n, total)
  PROVE  SumOf(x) = total
<1>1. PICK S \in [0 .. n -> Int] : Running(S, x, n) /\ S[n] = total
  BY DEF Sums
<1> DEFINE G(h) == [k \in 0 .. n |-> IF k = 0 THEN 0 ELSE h[k - 1] + x[k]]
<1>2. S = G(S)
  <2>1. ASSUME NEW k \in 0 .. n PROVE S[k] = G(S)[k]
    <3>1. CASE k = 0
      BY <3>1, <1>1 DEF Running
    <3>2. CASE k # 0
      <4>1. k \in 1 .. n
        BY <3>2
      <4> QED
        BY <4>1, <3>2, <1>1 DEF Running
    <3> QED
      BY <3>1, <3>2
  <2> QED
    BY <2>1
<1>3. Len(x) = n
  OBVIOUS
<1>4. PICK h : h = CHOOSE g : g = G(g)
  OBVIOUS
<1>5. SumOf(x) = h[n]
  BY <1>3, <1>4 DEF SumOf
<1>6. h = G(h)
  <2> HIDE DEF G
  <2> QED
    BY <1>2, <1>4
<1>7. \A k \in 0 .. n : h[k] = IF k = 0 THEN 0 ELSE h[k - 1] + x[k]
  BY <1>6
<1> HIDE DEF G
<1>8. PICK D : D = {k \in 0 .. n : h[k] # S[k]}
  OBVIOUS
<1>9. ASSUME D # {} PROVE FALSE
  <2>1. D \in SUBSET Nat
    BY <1>8
  <2>2. PICK m \in D : \A k \in D : m <= k
    BY <2>1, <1>9, LeastOf
  <2>3. m \in 0 .. n /\ h[m] # S[m]
    BY <2>2, <1>8
  <2>4. CASE m = 0
    BY <2>3, <2>4, <1>1, <1>7 DEF Running
  <2>5. CASE m # 0
    <3>1. m - 1 \in 0 .. n /\ ~ (m <= m - 1) /\ m \in 1 .. n
      BY <2>3, <2>5
    <3>2. h[m - 1] = S[m - 1]
      BY <3>1, <2>2, <1>8
    <3>3. h[m] = h[m - 1] + x[m]
      BY <2>3, <2>5, <1>7
    <3>4. S[m] = S[m - 1] + x[m]
      BY <3>1, <1>1 DEF Running
    <3> QED
      BY <3>2, <3>3, <3>4, <2>3
  <2> QED
    BY <2>4, <2>5
<1>10. n \notin D /\ n \in 0 .. n
  BY <1>9
<1>11. h[n] = S[n]
  BY <1>8, <1>10
<1> QED
  BY <1>1, <1>5, <1>11

LEMMA SumsNatural ==
  ASSUME NEW n \in Nat, NEW x \in [1 .. n -> Nat], NEW total, Sums(x, n, total)
  PROVE  total \in Nat
<1>1. PICK S \in [0 .. n -> Int] : Running(S, x, n) /\ S[n] = total
  BY DEF Sums
<1>2. PICK D : D = {k \in 0 .. n : S[k] \notin Nat}
  OBVIOUS
<1>3. ASSUME D # {} PROVE FALSE
  <2>1. D \in SUBSET Nat
    BY <1>2
  <2>2. PICK m \in D : \A k \in D : m <= k
    BY <2>1, <1>3, LeastOf
  <2>3. m \in 0 .. n /\ S[m] \notin Nat
    BY <2>2, <1>2
  <2>4. m # 0
    BY <2>3, <1>1 DEF Running
  <2>5. m - 1 \in 0 .. n /\ ~ (m <= m - 1) /\ m \in 1 .. n
    BY <2>3, <2>4
  <2>6. S[m - 1] \in Nat
    BY <2>2, <2>5, <1>2
  <2>7. S[m] = S[m - 1] + x[m] /\ x[m] \in Nat
    BY <2>5, <1>1 DEF Running
  <2> QED
    BY <2>3, <2>6, <2>7
<1>4. n \notin D /\ n \in 0 .. n
  BY <1>3
<1> QED
  BY <1>1, <1>2, <1>4

LEMMA RunningExists ==
  ASSUME NEW n \in Nat, NEW x \in [1 .. n -> Int]
  PROVE  \E S \in [0 .. n -> Int] : Running(S, x, n)
<1>1. PICK D : D = {m \in 0 .. n : ~ \E S \in [0 .. m -> Int] : Running(S, x, m)}
  OBVIOUS
<1>2. ASSUME D # {} PROVE FALSE
  <2>1. D \in SUBSET Nat
    BY <1>1
  <2>2. PICK m \in D : \A k \in D : m <= k
    BY <2>1, <1>2, LeastOf
  <2>3. m \in 0 .. n /\ ~ \E S \in [0 .. m -> Int] : Running(S, x, m)
    BY <2>2, <1>1
  <2>4. CASE m = 0
    <3>1. PICK S : S = [k \in 0 .. 0 |-> 0]
      OBVIOUS
    <3>2. S \in [0 .. 0 -> Int] /\ S[0] = 0
      BY <3>1
    <3>3. Running(S, x, 0)
      BY <3>2 DEF Running
    <3> QED
      BY <3>2, <3>3, <2>3, <2>4
  <2>5. CASE m # 0
    <3>1. m - 1 \in 0 .. n /\ ~ (m <= m - 1) /\ m \in 1 .. n /\ m \in Nat
      BY <2>3, <2>5
    <3>2. m - 1 \notin D
      BY <3>1, <2>2
    <3>3. PICK R \in [0 .. m - 1 -> Int] : Running(R, x, m - 1)
      BY <3>1, <3>2, <1>1
    <3>4. PICK S : S = [k \in 0 .. m |-> IF k = m THEN R[m - 1] + x[m] ELSE R[k]]
      OBVIOUS
    <3>5. R[m - 1] \in Int /\ x[m] \in Int
      BY <3>1, <3>3
    <3>6. \A k \in 0 .. m - 1 : S[k] = R[k] /\ R[k] \in Int
      BY <3>1, <3>3, <3>4
    <3>7. S[m] = R[m - 1] + x[m] /\ S[m] \in Int
      BY <3>1, <3>4, <3>5
    <3>8. S \in [0 .. m -> Int]
      <4>1. ASSUME NEW k \in 0 .. m PROVE S[k] \in Int
        <5>1. CASE k = m
          BY <5>1, <3>7
        <5>2. CASE k # m
          <6>1. k \in 0 .. m - 1
            BY <5>2, <3>1
          <6> QED
            BY <6>1, <3>6
        <5> QED
          BY <5>1, <5>2
      <4> QED
        BY <4>1, <3>4
    <3>9. S[0] = 0
      <4>1. 0 \in 0 .. m - 1
        BY <3>1
      <4> QED
        BY <4>1, <3>3, <3>6 DEF Running
    <3>10. ASSUME NEW k \in 1 .. m PROVE S[k] = S[k - 1] + x[k]
      <4>1. CASE k = m
        <5>1. m - 1 \in 0 .. m - 1
          BY <3>1
        <5>2. S[m - 1] = R[m - 1]
          BY <5>1, <3>6
        <5> QED
          BY <5>2, <4>1, <3>7
      <4>2. CASE k # m
        <5>1. k \in 1 .. m - 1 /\ k \in 0 .. m - 1 /\ k - 1 \in 0 .. m - 1
          BY <4>2, <3>1
        <5>2. R[k] = R[k - 1] + x[k]
          BY <5>1, <3>3 DEF Running
        <5> QED
          BY <5>1, <5>2, <3>6
      <4> QED
        BY <4>1, <4>2
    <3>11. Running(S, x, m)
      BY <3>9, <3>10 DEF Running
    <3> QED
      BY <3>8, <3>11, <2>3
  <2> QED
    BY <2>4, <2>5
<1>3. n \notin D /\ n \in 0 .. n
  BY <1>2
<1> QED
  BY <1>1, <1>3

LEMMA SumOfNatural ==
  ASSUME NEW n \in Nat, NEW x \in [1 .. n -> Nat]
  PROVE  SumOf(x) \in Nat
<1>1. x \in [1 .. n -> Int]
  OBVIOUS
<1>2. PICK S \in [0 .. n -> Int] : Running(S, x, n)
  BY <1>1, RunningExists
<1>3. PICK total : total = S[n]
  OBVIOUS
<1>4. Sums(x, n, total)
  BY <1>2, <1>3 DEF Sums
<1>5. SumOf(x) = total
  BY <1>1, <1>4, SumOfIs
<1>6. total \in Nat
  BY <1>4, SumsNatural
<1> QED
  BY <1>5, <1>6

LEMMA SumOfZero ==
  ASSUME NEW n \in Nat, NEW x \in [1 .. n -> Int], \A k \in 1 .. n : x[k] = 0
  PROVE  SumOf(x) = 0
<1>1. PICK S : S = [k \in 0 .. n |-> 0]
  OBVIOUS
<1>2. S \in [0 .. n -> Int] /\ \A k \in 0 .. n : S[k] = 0
  BY <1>1
<1>3. Running(S, x, n)
  <2>1. ASSUME NEW k \in 1 .. n PROVE S[k] = S[k - 1] + x[k]
    <3>1. k \in 0 .. n /\ k - 1 \in 0 .. n
      OBVIOUS
    <3> QED
      BY <3>1, <1>2
  <2>2. S[0] = 0
    BY <1>2
  <2> QED
    BY <2>1, <2>2 DEF Running
<1>4. S[n] = 0
  BY <1>2
<1>5. Sums(x, n, 0)
  BY <1>2, <1>3, <1>4 DEF Sums
<1> QED
  BY <1>5, SumOfIs

(* Where one number changes, the sum changes by as much. *)
LEMMA SumChanges ==
  ASSUME NEW n \in Nat, NEW x \in [1 .. n -> Nat], NEW y \in [1 .. n -> Nat],
         NEW k \in 1 .. n, \A j \in (1 .. n) \ {k} : y[j] = x[j]
  PROVE  SumOf(y) = SumOf(x) - x[k] + y[k]
<1>1. x \in [1 .. n -> Int] /\ y \in [1 .. n -> Int]
  OBVIOUS
<1>2. PICK S \in [0 .. n -> Int] : Running(S, x, n)
  BY <1>1, RunningExists
<1>3. PICK d : d = y[k] - x[k]
  OBVIOUS
<1>4. x[k] \in Nat /\ y[k] \in Nat /\ d \in Int /\ y[k] = x[k] + d
  BY <1>3
<1>5. PICK T : T = [j \in 0 .. n |-> IF j < k THEN S[j] ELSE S[j] + d]
  OBVIOUS
<1>6. T \in [0 .. n -> Int]
  <2>1. ASSUME NEW j \in 0 .. n PROVE T[j] \in Int
    <3>1. S[j] \in Int
      OBVIOUS
    <3> QED
      BY <3>1, <1>4, <1>5
  <2> QED
    BY <2>1, <1>5
<1>7. S[0] = 0 /\ \A j \in 1 .. n : S[j] = S[j - 1] + x[j]
  BY <1>2 DEF Running
<1>8. T[0] = 0
  BY <1>5, <1>7
<1>9. ASSUME NEW j \in 1 .. n PROVE T[j] = T[j - 1] + y[j]
  <2>1. j \in 0 .. n /\ j - 1 \in 0 .. n
    OBVIOUS
  <2>2. S[j] = S[j - 1] + x[j] /\ S[j] \in Int /\ S[j - 1] \in Int /\ x[j] \in Int
    BY <2>1, <1>1, <1>7
  <2>3. CASE j < k
    <3>1. T[j] = S[j] /\ T[j - 1] = S[j - 1]
      BY <2>1, <2>3, <1>5
    <3>2. y[j] = x[j]
      BY <2>3
    <3> QED
      BY <3>1, <3>2, <2>2
  <2>4. CASE j = k
    <3>1. T[j] = S[j] + d /\ T[j - 1] = S[j - 1]
      BY <2>1, <2>4, <1>5
    <3>2. PICK u, v : u = S[j - 1] /\ v = x[j]
      OBVIOUS
    <3>3. u \in Int /\ v \in Int /\ T[j] = (u + v) + d /\ T[j - 1] = u /\ y[j] = v + d
      BY <3>1, <3>2, <2>2, <2>4, <1>4
    <3>4. (u + v) + d = u + (v + d)
      BY <3>3, <1>4
    <3> QED
      BY <3>3, <3>4
  <2>5. CASE j > k
    <3>1. T[j] = S[j] + d /\ T[j - 1] = S[j - 1] + d
      BY <2>1, <2>5, <1>5
    <3>2. y[j] = x[j]
      BY <2>5
    <3>3. PICK u, v : u = S[j - 1] /\ v = x[j]
      OBVIOUS
    <3>4. u \in Int /\ v \in Int /\ T[j] = (u + v) + d /\ T[j - 1] = u + d /\ y[j] = v
      BY <3>1, <3>2, <3>3, <2>2
    <3>5. (u + v) + d = (u + d) + v
      BY <3>4, <1>4
    <3> QED
      BY <3>4, <3>5
  <2>6. j < k \/ j = k \/ j > k
    OBVIOUS
  <2> QED
    BY <2>3, <2>4, <2>5, <2>6
<1>10. Running(T, y, n)
  BY <1>8, <1>9 DEF Running
<1>11. T[n] = S[n] + d /\ S[n] \in Int
  BY <1>5
<1>12. PICK a, b : a = S[n] /\ b = T[n]
  OBVIOUS
<1>13. SumOf(x) = a
  <2>1. Sums(x, n, a)
    BY <1>2, <1>12 DEF Sums
  <2> QED
    BY <2>1, <1>1, SumOfIs
<1>14. SumOf(y) = b
  <2>1. Sums(y, n, b)
    BY <1>6, <1>10, <1>12 DEF Sums
  <2> QED
    BY <2>1, <1>1, SumOfIs
<1>15. a \in Int /\ b = a + d
  BY <1>11, <1>12
<1> QED
  BY <1>3, <1>4, <1>13, <1>14, <1>15

(* No number is more than the sum. *)
LEMMA SumHolds ==
  ASSUME NEW n \in Nat, NEW x \in [1 .. n -> Nat], NEW k \in 1 .. n
  PROVE  x[k] <= SumOf(x)
<1>1. PICK y : y = [x EXCEPT ![k] = 0]
  OBVIOUS
<1>2. y \in [1 .. n -> Nat] /\ y[k] = 0 /\ \A j \in (1 .. n) \ {k} : y[j] = x[j]
  BY <1>1
<1>3. SumOf(y) = SumOf(x) - x[k] + 0
  BY <1>2, SumChanges
<1>4. SumOf(y) \in Nat /\ SumOf(x) \in Nat
  BY <1>2, SumOfNatural
<1>5. x[k] \in Nat
  OBVIOUS
<1> QED
  BY <1>3, <1>4, <1>5
=============================================================================
