---------------------------- MODULE SlabsProofs -----------------------------
(***************************************************************************)
(* The safety of Slabs for any classes, requests, chunks and allocators,   *)
(* as the module that checks it instantiates it (MCAllocators).            *)
(***************************************************************************)
EXTENDS MCAllocators, NumberLemmas, SequenceTheorems

Power == uptype = "POWER"

LEMMA Parameters ==
  /\ ChunkLinkSize \in Nat \ {0} /\ ALIGN \in Nat \ {0} /\ SizeMod \in Nat \ {0}
  /\ item_size_min \in Nat \ {0} /\ item_size_max \in Nat \ {0}
  /\ FAST_SLAB_LINEAR_FACTOR \in Nat \ {0}
  /\ Room \in Nat /\ ManagerSize \in Nat /\ SlabclassSize \in Nat /\ MaxMissed \in Nat
BY AllocatorsAssumption DEF SL!SlabsAssumption

(* The arithmetic that Slabs computes with is that of NumberLemmas.        *)
LEMMA SameArithmetic ==
  /\ \A x, y : SL!DivUp(x, y) = DivUp(x, y) /\ SL!AlignTo(x, y) = AlignTo(x, y)
  /\ \A x : SL!Log2Up(x) = Log2Up(x)
  /\ \A x : SL!SumOf(x) = SumOf(x)
<1>1. \A x, y : SL!DivUp(x, y) = DivUp(x, y)
  BY DEF SL!DivUp, DivUp
<1>2. \A x, y : SL!AlignTo(x, y) = AlignTo(x, y)
  BY <1>1 DEF SL!AlignTo, AlignTo
<1>3. \A x : SL!Log2Down(x) = Log2Down(x)
  BY DEF SL!Log2Down, Log2Down
<1>4. \A x : SL!Log2Up(x) = Log2Up(x)
  BY <1>3 DEF SL!Log2Up, Log2Up
<1>5. \A x : SL!SumOf(x) = SumOf(x)
  BY DEF SL!SumOf, SumOf
<1> QED
  BY <1>1, <1>2, <1>4, <1>5

-----------------------------------------------------------------------------
(* Size classes *)

(* The request size a class is made for. *)
Raw(i) == IF Power THEN item_size_min * 2^i ELSE item_size_min + i * FAST_SLAB_LINEAR_FACTOR

LEMMA RawIs ==
  ASSUME NEW i \in Nat
  PROVE  Raw(i) \in Nat \ {0} /\ SL!ClassSize(i) = SL!ChunkSize(Raw(i))
<1>1. 2^i \in Nat \ {0}
  <2>1. 0 \in Nat /\ 0 <= i
    OBVIOUS
  <2>2. 2^0 <= 2^i /\ 2^i \in Nat
    BY <2>1, PowMonotone, PowCounts
  <2> QED
    BY <2>2, PowZero
<1>2. Raw(i) \in Nat \ {0}
  <2>1. CASE Power
    <3>1. PICK p, m : p = 2^i /\ m = item_size_min
      OBVIOUS
    <3>2. p \in Nat \ {0} /\ m \in Nat \ {0} /\ Raw(i) = m * p
      BY <3>1, <2>1, <1>1, Parameters DEF Raw
    <3>3. m * p \in Nat \ {0}
      BY <3>2
    <3> QED
      BY <3>2, <3>3
  <2>2. CASE ~ Power
    <3>1. PICK f, m : f = FAST_SLAB_LINEAR_FACTOR /\ m = item_size_min
      OBVIOUS
    <3>2. f \in Nat \ {0} /\ m \in Nat \ {0} /\ Raw(i) = m + i * f
      BY <3>1, <2>2, Parameters DEF Raw
    <3>3. m + i * f \in Nat \ {0}
      BY <3>2
    <3> QED
      BY <3>2, <3>3
  <2> QED
    BY <2>1, <2>2
<1>3. SL!ClassSize(i) = SL!ChunkSize(Raw(i))
  BY DEF SL!ClassSize, Raw, Power
<1> QED
  BY <1>2, <1>3

LEMMA RawMonotone ==
  ASSUME NEW i \in Nat, NEW j \in Nat, i <= j
  PROVE  Raw(i) <= Raw(j)
<1>1. CASE Power
  <2>1. 2^i \in Nat /\ 2^j \in Nat /\ 2^i <= 2^j
    BY PowCounts, PowMonotone
  <2>2. item_size_min * 2^i <= item_size_min * 2^j
    BY <2>1, Parameters, TimesMonotone
  <2> QED
    BY <2>2, <1>1 DEF Raw
<1>2. CASE ~ Power
  <2>1. PICK f, m : f = FAST_SLAB_LINEAR_FACTOR /\ m = item_size_min
    OBVIOUS
  <2>2. f \in Nat /\ m \in Nat /\ f * i <= f * j /\ i * f = f * i /\ j * f = f * j
        /\ f * i \in Nat /\ f * j \in Nat
    BY <2>1, Parameters, TimesMonotone
  <2>3. Raw(i) = m + i * f /\ Raw(j) = m + j * f
    BY <2>1, <1>2 DEF Raw
  <2> QED
    BY <2>2, <2>3
<1> QED
  BY <1>1, <1>2

LEMMA ChunkSizeIs ==
  ASSUME NEW size \in Nat
  PROVE  SL!ChunkSize(size) \in Nat /\ size + ChunkLinkSize <= SL!ChunkSize(size)
<1>1. PICK x, y : x = size + ChunkLinkSize /\ y = ALIGN
  OBVIOUS
<1>2. x \in Nat /\ y \in Nat \ {0}
  BY <1>1, Parameters
<1>3. AlignTo(x, y) \in Nat /\ x <= AlignTo(x, y)
  BY <1>2, AlignToIs
<1>4. SL!ChunkSize(size) = AlignTo(x, y)
  BY <1>1, SameArithmetic DEF SL!ChunkSize
<1> QED
  BY <1>1, <1>3, <1>4

LEMMA ChunkSizeMonotone ==
  ASSUME NEW s \in Nat, NEW z \in Nat, s <= z
  PROVE  SL!ChunkSize(s) <= SL!ChunkSize(z)
<1>1. PICK v, w, y : v = s + ChunkLinkSize /\ w = z + ChunkLinkSize /\ y = ALIGN
  OBVIOUS
<1>2. v \in Nat /\ w \in Nat /\ y \in Nat \ {0} /\ v <= w
  BY <1>1, Parameters
<1>3. AlignTo(v, y) <= AlignTo(w, y)
  BY <1>2, AlignToMonotone
<1>4. SL!ChunkSize(s) = AlignTo(v, y) /\ SL!ChunkSize(z) = AlignTo(w, y)
  BY <1>1, SameArithmetic DEF SL!ChunkSize
<1> QED
  BY <1>3, <1>4

LEMMA ClassSizeIs ==
  ASSUME NEW i \in Nat
  PROVE  SL!ClassSize(i) \in Nat /\ ChunkLinkSize < SL!ClassSize(i)
<1>1. PICK r : r = Raw(i)
  OBVIOUS
<1>2. r \in Nat \ {0} /\ SL!ClassSize(i) = SL!ChunkSize(r)
  BY <1>1, RawIs
<1>3. SL!ChunkSize(r) \in Nat /\ r + ChunkLinkSize <= SL!ChunkSize(r)
  BY <1>2, ChunkSizeIs
<1> QED
  BY <1>2, <1>3, Parameters

LEMMA ClassSizeMonotone ==
  ASSUME NEW i \in Nat, NEW j \in Nat, i <= j
  PROVE  SL!ClassSize(i) <= SL!ClassSize(j)
<1>1. PICK r, s : r = Raw(i) /\ s = Raw(j)
  OBVIOUS
<1>2. /\ r \in Nat /\ SL!ClassSize(i) = SL!ChunkSize(r)
      /\ s \in Nat /\ SL!ClassSize(j) = SL!ChunkSize(s)
  BY <1>1, RawIs
<1>3. r <= s
  BY <1>1, RawMonotone
<1> QED
  BY <1>2, <1>3, ChunkSizeMonotone

(* Power classes that are larger than the smallest are larger than the one *)
(* before: only classes that alignment makes as large as the first repeat. *)
LEMMA ClassSizeStrict ==
  ASSUME Power, NEW j \in Nat, SL!ClassSize(0) < SL!ClassSize(j + 1)
  PROVE  SL!ClassSize(j) < SL!ClassSize(j + 1)
<1>1. PICK a, x, y, c : a = item_size_min /\ x = item_size_min * 2^j /\ y = ALIGN /\ c = ChunkLinkSize
  OBVIOUS
<1>2. y \in Nat \ {0} /\ a \in Nat \ {0} /\ c \in Nat
  BY <1>1, Parameters
<1>3. PICK h \in Nat : c = y * h
  <2>1. c % y = 0
    BY <1>1, AllocatorsAssumption DEF SL!SlabsAssumption
  <2>2. c \div y \in Nat /\ c = y * (c \div y) + (c % y) /\ y * (c \div y) \in Nat
    BY <1>2
  <2>3. c = y * (c \div y)
    BY <2>1, <2>2
  <2> QED
    BY <2>2, <2>3
<1>4. x \in Nat \ {0} /\ x = Raw(j)
  BY <1>1, RawIs DEF Raw
<1>5. a = Raw(0)
  <2>1. a * 1 = a
    BY <1>2
  <2> QED
    BY <2>1, <1>1, PowZero DEF Raw
<1>6. 2 * x = Raw(j + 1)
  <2>1. PICK p : p = 2^j
    OBVIOUS
  <2>2. p \in Nat /\ 2^(j + 1) = 2 * p /\ x = a * p
    BY <2>1, <1>1, PowCounts, PowGrows
  <2>3. a * (2 * p) = 2 * (a * p)
    BY <2>2, <1>2
  <2>4. Raw(j + 1) = a * (2 * p)
    BY <2>2, <1>1 DEF Raw
  <2> QED
    BY <2>2, <2>3, <2>4
<1>7. /\ SL!ClassSize(0) = AlignTo(a + y * h, y)
      /\ SL!ClassSize(j) = AlignTo(x + y * h, y)
      /\ SL!ClassSize(j + 1) = AlignTo(2 * x + y * h, y)
  <2>1. 0 \in Nat /\ j + 1 \in Nat
    OBVIOUS
  <2>2. /\ SL!ClassSize(0) = SL!ChunkSize(Raw(0)) /\ SL!ClassSize(j) = SL!ChunkSize(Raw(j))
        /\ SL!ClassSize(j + 1) = SL!ChunkSize(Raw(j + 1))
    BY <2>1, RawIs
  <2>3. \A s : SL!ChunkSize(s) = AlignTo(s + c, y)
    BY <1>1, SameArithmetic DEF SL!ChunkSize
  <2>4. /\ SL!ClassSize(0) = AlignTo(a + c, y) /\ SL!ClassSize(j) = AlignTo(x + c, y)
        /\ SL!ClassSize(j + 1) = AlignTo(2 * x + c, y)
    BY <2>2, <2>3, <1>4, <1>5, <1>6
  <2> QED
    BY <2>4, <1>3
<1> QED
  BY <1>2, <1>4, <1>7, AlignDouble

LEMMA FreeLenIs ==
  ASSUME uptype \in {"POWER", "LINEAR"}
  PROVE  /\ SL!max_id \in Nat \ {0} /\ SL!free_len = SL!max_id + 1
         /\ SL!Classes = 0 .. SL!max_id
         /\ item_size_max <= Raw(SL!max_id)
         /\ Power /\ DivUp(item_size_max, item_size_min) > 2 => SL!max_id >= 2
<1>1. PICK a, b, f : a = item_size_min /\ b = item_size_max /\ f = FAST_SLAB_LINEAR_FACTOR
  OBVIOUS
<1>2. a \in Nat \ {0} /\ b \in Nat \ {0} /\ f \in Nat \ {0} /\ b \div a >= 2
  BY <1>1, Parameters, AllocatorsAssumption DEF SL!SlabsAssumption
<1>3. b \div a \in Nat /\ a * (b \div a) <= b
  BY <1>2, DivIs
<1>4. a * 2 <= b /\ a * 2 \in Nat
  <2>1. PICK q : q = b \div a
    OBVIOUS
  <2>2. q \in Nat /\ 2 <= q /\ a * q <= b /\ a * q \in Nat
    BY <2>1, <1>2, <1>3
  <2>3. a * 2 <= a * q
    BY <2>2, <1>2, TimesMonotone
  <2> QED
    BY <2>2, <2>3, <1>2
<1>5. CASE Power
  <2>1. PICK d, n : d = DivUp(b, a) /\ n = Log2Up(d)
    OBVIOUS
  <2>2. d \in Nat /\ b <= a * d /\ a * d \in Nat
    BY <2>1, <1>2, DivUpBounds
  <2>3. d >= 2
    <3>1. ASSUME d <= 1 PROVE FALSE
      <4>1. a * d <= a * 1 /\ a * 1 = a
        BY <3>1, <2>2, <1>2, TimesMonotone
      <4> QED
        BY <4>1, <2>2, <1>2, <1>4
    <3> QED
      BY <3>1, <2>2
  <2>4. n \in Nat /\ d <= 2^n
    BY <2>1, <2>2, <2>3, Log2UpIs
  <2>5. SL!free_len = 1 + n /\ SL!max_id = n
    <3>1. SL!free_len = 1 + n
      <4>1. SL!free_len = 1 + (IF uptype = "POWER" THEN Log2Up(DivUp(b, a)) ELSE DivUp(b - a, f))
        BY <1>1, SameArithmetic DEF SL!free_len
      <4>2. uptype = "POWER"
        BY <1>5 DEF Power
      <4> QED
        BY <4>1, <4>2, <2>1
    <3> QED
      BY <3>1, <2>4 DEF SL!max_id
  <2>6. 2^0 = 1 /\ 2^1 = 2
    <3>1. 0 \in Nat /\ 0 + 1 = 1
      OBVIOUS
    <3>2. 2^(0 + 1) = 2 * 2^0
      BY <3>1, PowGrows
    <3>3. PICK p : p = 2^0
      OBVIOUS
    <3>4. p = 1 /\ 2^1 = 2 * p
      BY <3>1, <3>2, <3>3, PowZero
    <3>5. 2 * p = 2
      BY <3>4
    <3> QED
      BY <3>3, <3>4, <3>5
  <2>7. n # 0
    <3>1. n = 0 => d <= 1
      BY <2>4, <2>6
    <3> QED
      BY <3>1, <2>2, <2>3
  <2>8. d > 2 => n >= 2
    <3>1. n = 1 => d <= 2
      BY <2>4, <2>6
    <3> QED
      BY <3>1, <2>2, <2>4, <2>7
  <2>9. b <= Raw(n)
    <3>1. PICK p : p = 2^n
      OBVIOUS
    <3>2. p \in Nat /\ d <= p
      BY <3>1, <2>4, PowCounts
    <3>3. a * d <= a * p /\ a * p \in Nat
      BY <3>2, <2>2, <1>2, TimesMonotone
    <3>4. Raw(n) = a * p
      BY <3>1, <1>1, <1>5 DEF Raw
    <3> QED
      BY <3>3, <3>4, <2>2, <1>2
  <2>10. SL!Classes = 0 .. n
    BY <2>4, <2>5 DEF SL!Classes
  <2> QED
    BY <2>1, <2>4, <2>5, <2>7, <2>8, <2>9, <2>10, <1>1
<1>6. CASE ~ Power
  <2>1. PICK n : n = DivUp(b - a, f)
    OBVIOUS
  <2>2. b - a \in Nat \ {0}
    BY <1>2, <1>4
  <2>3. n \in Nat /\ b - a <= f * n /\ f * n \in Nat
    BY <2>1, <2>2, <1>2, DivUpBounds
  <2>4. n # 0
    <3>1. n = 0 => f * n = 0
      BY <1>2
    <3> QED
      BY <3>1, <2>2, <2>3
  <2>5. SL!free_len = 1 + n /\ SL!max_id = n
    <3>1. SL!free_len = 1 + n
      <4>1. SL!free_len = 1 + (IF uptype = "POWER" THEN Log2Up(DivUp(b, a)) ELSE DivUp(b - a, f))
        BY <1>1, SameArithmetic DEF SL!free_len
      <4>2. uptype # "POWER"
        BY <1>6 DEF Power
      <4> QED
        BY <4>1, <4>2, <2>1
    <3> QED
      BY <3>1, <2>3 DEF SL!max_id
  <2>6. b <= Raw(n)
    <3>1. Raw(n) = a + n * f /\ n * f = f * n
      BY <1>1, <1>2, <1>6, <2>3 DEF Raw
    <3> QED
      BY <3>1, <2>3, <1>2
  <2>7. SL!Classes = 0 .. n
    BY <2>3, <2>5 DEF SL!Classes
  <2> QED
    BY <2>3, <2>4, <2>5, <2>6, <2>7, <1>1, <1>6
<1> QED
  BY <1>5, <1>6

-----------------------------------------------------------------------------
(* The binary search *)

Pairs == (1 .. SL!free_len) \X (0 .. SL!max_id)

(* One step of the search among the classes from low to high, with g for   *)
(* the search that goes on.                                                *)
Look(g, all_size, r) ==
  LET low == r[1]  high == r[2]  mid == (low + high) \div 2 IN
  IF low > high THEN SL!INVALID_ID
  ELSE IF all_size > SL!ClassSize(mid)
       THEN IF all_size <= SL!ClassSize(mid + 1) THEN mid + 1 ELSE g[<<mid + 1, high>>]
  ELSE IF all_size > SL!ClassSize(mid - 1) THEN mid
  ELSE IF all_size = SL!ClassSize(mid - 1) THEN mid - 1
  ELSE g[<<low, mid - 1>>]

Search(g, all_size) == g = [r \in Pairs |-> Look(g, all_size, r)]

Lengths == SL!max_id \in Nat \ {0} /\ SL!free_len = SL!max_id + 1

LEMMA PowerIdIs ==
  ASSUME NEW f, NEW all_size, f = CHOOSE g : Search(g, all_size)
  PROVE  SL!PowerId(all_size) = f[<<1, SL!max_id - 1>>]
BY DEF SL!PowerId, Search, Look, Pairs

LEMMA MidIs ==
  ASSUME NEW low \in Nat, NEW high \in Nat, low <= high
  PROVE  (low + high) \div 2 \in Nat /\ low <= (low + high) \div 2 /\ (low + high) \div 2 <= high
OBVIOUS

(* A step of the search is made among these classes, or the search goes on *)
(* with fewer.                                                             *)
LookAt(g, all_size, low, high, mid, x) ==
  x = IF all_size > SL!ClassSize(mid)
      THEN IF all_size <= SL!ClassSize(mid + 1) THEN mid + 1 ELSE g[<<mid + 1, high>>]
      ELSE IF all_size > SL!ClassSize(mid - 1) THEN mid
      ELSE IF all_size = SL!ClassSize(mid - 1) THEN mid - 1
      ELSE g[<<low, mid - 1>>]

LEMMA LookIs ==
  ASSUME NEW g, NEW all_size, NEW low \in 1 .. SL!free_len, NEW high \in 0 .. SL!max_id, Lengths,
         low <= high
  PROVE  \E mid \in low .. high :
           LookAt(g, all_size, low, high, mid, Look(g, all_size, <<low, high>>))
<1>1. PICK mid : mid = (low + high) \div 2
  OBVIOUS
<1>2. low \in Nat /\ high \in Nat
  BY DEF Lengths
<1>3. mid \in low .. high
  BY <1>1, <1>2, MidIs
<1>4. ~ (low > high)
  BY <1>2
<1> QED
  BY <1>1, <1>3, <1>4 DEF Look, LookAt

LEMMA LookEnds ==
  ASSUME NEW g, NEW all_size, NEW low \in Int, NEW high \in Int, low > high
  PROVE  Look(g, all_size, <<low, high>>) = SL!INVALID_ID
BY DEF Look

Near(r, n) == r[2] - r[1] < n

(* What a step gives depends only on searches among fewer classes. *)
LEMMA LookAgrees ==
  ASSUME NEW g, NEW h, NEW all_size, NEW n \in Int, NEW r \in Pairs, Near(r, n + 1), Lengths,
         \A q \in Pairs : Near(q, n) => g[q] = h[q]
  PROVE  Look(g, all_size, r) = Look(h, all_size, r)
<1>1. PICK low \in 1 .. SL!free_len, high \in 0 .. SL!max_id : r = <<low, high>>
  BY DEF Pairs
<1>2. low \in Int /\ high \in Int /\ high - low < n + 1
  BY <1>1 DEF Near, Lengths
<1>3. CASE low > high
  BY <1>1, <1>2, <1>3, LookEnds
<1>4. CASE low <= high
  <2>1. PICK mid : mid = (low + high) \div 2
    OBVIOUS
  <2>2. low \in Nat /\ high \in Nat
    BY DEF Lengths
  <2>3. mid \in low .. high
    BY <2>1, <2>2, <1>4, MidIs
  <2>4. mid + 1 \in 1 .. SL!free_len /\ mid - 1 \in 0 .. SL!max_id
    BY <2>2, <2>3 DEF Lengths
  <2>5. <<mid + 1, high>> \in Pairs /\ <<low, mid - 1>> \in Pairs
    BY <2>4 DEF Pairs
  <2>6. Near(<<mid + 1, high>>, n) /\ Near(<<low, mid - 1>>, n)
    BY <2>2, <2>3, <1>2 DEF Near
  <2>7. g[<<mid + 1, high>>] = h[<<mid + 1, high>>] /\ g[<<low, mid - 1>>] = h[<<low, mid - 1>>]
    BY <2>5, <2>6
  <2> QED
    BY <1>1, <2>1, <2>7 DEF Look
<1> QED
  BY <1>2, <1>3, <1>4

SearchNear(g, all_size, n) ==
  /\ g = [r \in Pairs |-> g[r]]
  /\ \A r \in Pairs : Near(r, n) => g[r] = Look(g, all_size, r)

LEMMA SearchStarts ==
  ASSUME NEW all_size, Lengths
  PROVE  \E g : SearchNear(g, all_size, 0)
<1>1. PICK g : g = [r \in Pairs |-> SL!INVALID_ID]
  OBVIOUS
<1>2. ASSUME NEW r \in Pairs, Near(r, 0) PROVE g[r] = Look(g, all_size, r)
  <2>1. PICK low \in 1 .. SL!free_len, high \in 0 .. SL!max_id : r = <<low, high>>
    BY DEF Pairs
  <2>2. low \in Int /\ high \in Int /\ low > high
    BY <2>1, <1>2 DEF Near, Lengths
  <2> QED
    BY <2>1, <2>2, <1>1, LookEnds
<1> QED
  BY <1>1, <1>2 DEF SearchNear

LEMMA SearchGrows ==
  ASSUME NEW all_size, NEW n \in Nat, NEW g, SearchNear(g, all_size, n), Lengths
  PROVE  \E h : SearchNear(h, all_size, n + 1)
<1>1. PICK h : h = [r \in Pairs |-> Look(g, all_size, r)]
  OBVIOUS
<1>2. \A q \in Pairs : Near(q, n) => g[q] = h[q]
  BY <1>1 DEF SearchNear
<1>3. ASSUME NEW r \in Pairs, Near(r, n + 1) PROVE h[r] = Look(h, all_size, r)
  <2>1. Look(g, all_size, r) = Look(h, all_size, r)
    <3>1. n \in Int
      OBVIOUS
    <3> QED
      BY <3>1, <1>2, <1>3, LookAgrees
  <2> QED
    BY <2>1, <1>1
<1> QED
  BY <1>1, <1>3 DEF SearchNear

LEMMA SearchExists ==
  ASSUME NEW all_size, Lengths
  PROVE  \E g : Search(g, all_size)
<1>1. PICK S : S = {n \in Nat : ~ \E g : SearchNear(g, all_size, n)}
  OBVIOUS
<1>2. ASSUME S # {} PROVE FALSE
  <2>1. S \in SUBSET Nat
    BY <1>1
  <2>2. PICK m \in S : \A k \in S : m <= k
    BY <2>1, <1>2, LeastOf
  <2>3. m \in Nat /\ ~ \E g : SearchNear(g, all_size, m)
    BY <2>2, <1>1
  <2>4. m # 0
    BY <2>3, SearchStarts
  <2>5. m - 1 \in Nat /\ ~ (m <= m - 1) /\ (m - 1) + 1 = m
    BY <2>3, <2>4
  <2>6. PICK k : k = m - 1
    OBVIOUS
  <2>7. k \in Nat /\ k \notin S /\ k + 1 = m
    BY <2>2, <2>5, <2>6
  <2>8. PICK g : SearchNear(g, all_size, k)
    BY <2>7, <1>1
  <2>9. \E h : SearchNear(h, all_size, k + 1)
    BY <2>7, <2>8, SearchGrows
  <2> QED
    BY <2>3, <2>7, <2>9
<1>3. SL!free_len \in Nat /\ SL!free_len \notin S
  BY <1>2 DEF Lengths
<1>4. PICK g : SearchNear(g, all_size, SL!free_len)
  BY <1>1, <1>3
<1>5. ASSUME NEW r \in Pairs PROVE Near(r, SL!free_len)
  <2>1. PICK low \in 1 .. SL!free_len, high \in 0 .. SL!max_id : r = <<low, high>>
    BY DEF Pairs
  <2> QED
    BY <2>1 DEF Near, Lengths
<1>6. g = [r \in Pairs |-> g[r]] /\ \A r \in Pairs : g[r] = Look(g, all_size, r)
  BY <1>4, <1>5 DEF SearchNear
<1>7. [r \in Pairs |-> g[r]] = [r \in Pairs |-> Look(g, all_size, r)]
  BY <1>6
<1> QED
  BY <1>6, <1>7 DEF Search

(* The class to take: the smallest that holds so much. *)
Smallest(id, all_size) ==
  /\ id \in 0 .. SL!max_id
  /\ all_size <= SL!ClassSize(id)
  /\ \A i \in 0 .. SL!max_id : i < id => SL!ClassSize(i) < all_size

(* Between the class before low and the class after high. *)
Between(low, high, all_size) ==
  SL!ClassSize(low - 1) < all_size /\ all_size <= SL!ClassSize(high + 1)

LEMMA ClassSizeType == \A i \in Nat : SL!ClassSize(i) \in Nat
BY ClassSizeIs

LEMMA AboveBelow ==
  ASSUME NEW i \in Nat, NEW all_size \in Nat, SL!ClassSize(i) < all_size
  PROVE  \A j \in Nat : j <= i => SL!ClassSize(j) < all_size
<1> SUFFICES ASSUME NEW j \in Nat, j <= i PROVE SL!ClassSize(j) < all_size
  OBVIOUS
<1>1. SL!ClassSize(j) <= SL!ClassSize(i)
  BY ClassSizeMonotone
<1> QED
  BY <1>1, ClassSizeType

(* The search finds the smallest class, or an earlier search does. *)
(* The search goes on between two classes that are closer together.        *)
Narrows(f, all_size, low, high) ==
  \E l, h \in Nat : /\ 1 <= l /\ l <= h /\ h < SL!max_id /\ h - l < high - low
                    /\ Between(l, h, all_size)
                    /\ Look(f, all_size, <<low, high>>) = f[<<l, h>>]

LEMMA LookFinds ==
  ASSUME NEW f, NEW all_size \in Nat, Lengths, Power,
         NEW low \in Nat, NEW high \in Nat, 1 <= low, low <= high, high < SL!max_id,
         Between(low, high, all_size)
  PROVE  \/ Smallest(Look(f, all_size, <<low, high>>), all_size)
         \/ Narrows(f, all_size, low, high)
<1>1. PICK x : x = Look(f, all_size, <<low, high>>)
  OBVIOUS
<1>2. low \in 1 .. SL!free_len /\ high \in 0 .. SL!max_id
  BY DEF Lengths
<1>3. PICK mid \in low .. high : LookAt(f, all_size, low, high, mid, x)
  BY <1>1, <1>2, LookIs
<1>4. mid \in Nat /\ mid + 1 \in Nat /\ mid - 1 \in Nat /\ low <= mid /\ mid <= high
  BY <1>3
<1>5. SL!max_id \in Nat
  BY DEF Lengths
<1>6. PICK c, d, e : c = SL!ClassSize(mid) /\ d = SL!ClassSize(mid + 1) /\ e = SL!ClassSize(mid - 1)
  OBVIOUS
<1>7. c \in Nat /\ d \in Nat /\ e \in Nat
  BY <1>4, <1>6, ClassSizeType
<1>8. CASE c < all_size /\ all_size <= d
  <2>1. x = mid + 1
    BY <1>3, <1>6, <1>7, <1>8 DEF LookAt
  <2>2. \A j \in Nat : j <= mid => SL!ClassSize(j) < all_size
    BY <1>4, <1>6, <1>8, AboveBelow
  <2>3. mid + 1 \in 0 .. SL!max_id
    BY <1>4, <1>5
  <2>4. ASSUME NEW i \in 0 .. SL!max_id, i < mid + 1 PROVE SL!ClassSize(i) < all_size
    <3>1. i \in Nat /\ i <= mid
      BY <2>4, <1>4
    <3> QED
      BY <3>1, <2>2
  <2> QED
    BY <2>1, <2>3, <2>4, <1>1, <1>6, <1>8 DEF Smallest
<1>9. CASE c < all_size /\ d < all_size
  <2>1. x = f[<<mid + 1, high>>]
    BY <1>3, <1>6, <1>7, <1>9 DEF LookAt
  <2>2. mid # high
    <3>1. ASSUME mid = high PROVE FALSE
      <4>1. all_size <= d
        BY <3>1, <1>6 DEF Between
      <4> QED
        BY <4>1, <1>7, <1>9
    <3> QED
      BY <3>1
  <2>3. 1 <= mid + 1 /\ mid + 1 <= high /\ high - (mid + 1) < high - low
    BY <2>2, <1>4
  <2>4. Between(mid + 1, high, all_size)
    <3>1. (mid + 1) - 1 = mid
      BY <1>4
    <3> QED
      BY <3>1, <1>6, <1>9 DEF Between
  <2>5. PICK l : l = mid + 1
    OBVIOUS
  <2>6. /\ l \in Nat /\ 1 <= l /\ l <= high /\ high < SL!max_id /\ high - l < high - low
        /\ Between(l, high, all_size) /\ Look(f, all_size, <<low, high>>) = f[<<l, high>>]
    BY <2>1, <2>3, <2>4, <2>5, <1>1, <1>4
  <2> QED
    BY <2>6 DEF Narrows
<1>10. CASE all_size <= c /\ e < all_size
  <2>1. x = mid
    BY <1>3, <1>6, <1>7, <1>10 DEF LookAt
  <2>2. \A j \in Nat : j <= mid - 1 => SL!ClassSize(j) < all_size
    BY <1>4, <1>6, <1>10, AboveBelow
  <2>3. mid \in 0 .. SL!max_id
    BY <1>4, <1>5
  <2>4. ASSUME NEW i \in 0 .. SL!max_id, i < mid PROVE SL!ClassSize(i) < all_size
    <3>1. i \in Nat /\ i <= mid - 1
      BY <2>4, <1>4
    <3> QED
      BY <3>1, <2>2
  <2> QED
    BY <2>1, <2>3, <2>4, <1>1, <1>6, <1>10 DEF Smallest
<1>11. ASSUME all_size <= c, all_size <= e PROVE low <= mid - 1
  <2>1. ASSUME mid = low PROVE FALSE
    <3>1. e < all_size
      BY <2>1, <1>6 DEF Between
    <3> QED
      BY <3>1, <1>7, <1>11
  <2> QED
    BY <2>1, <1>4
<1>12. CASE all_size <= c /\ all_size = e
  <2>1. x = mid - 1
    BY <1>3, <1>6, <1>7, <1>12 DEF LookAt
  <2>2. low <= mid - 1
    BY <1>11, <1>12, <1>7
  <2>3. PICK j : j = mid - 2
    OBVIOUS
  <2>4. j \in Nat /\ j + 1 = mid - 1
    BY <2>2, <2>3, <1>4
  <2>5. SL!ClassSize(0) < SL!ClassSize(j + 1)
    <3>1. SL!ClassSize(low - 1) < all_size /\ low - 1 \in Nat /\ 0 \in Nat /\ 0 <= low - 1
      BY DEF Between
    <3>2. SL!ClassSize(0) <= SL!ClassSize(low - 1)
      BY <3>1, ClassSizeMonotone
    <3>3. SL!ClassSize(0) \in Nat /\ SL!ClassSize(low - 1) \in Nat
      BY <3>1, ClassSizeType
    <3>4. SL!ClassSize(0) < all_size
      BY <3>1, <3>2, <3>3
    <3> QED
      BY <3>4, <2>4, <1>6, <1>12
  <2>6. SL!ClassSize(j) < all_size
    BY <2>4, <2>5, <1>6, <1>12, ClassSizeStrict
  <2>7. \A i \in Nat : i <= j => SL!ClassSize(i) < all_size
    BY <2>4, <2>6, AboveBelow
  <2>8. mid - 1 \in 0 .. SL!max_id
    BY <1>4, <1>5
  <2>9. ASSUME NEW i \in 0 .. SL!max_id, i < mid - 1 PROVE SL!ClassSize(i) < all_size
    <3>1. i \in Nat /\ i <= j
      BY <2>9, <2>3, <1>4
    <3> QED
      BY <3>1, <2>7
  <2>10. all_size <= SL!ClassSize(mid - 1)
    BY <1>6, <1>7, <1>12
  <2> QED
    BY <2>1, <2>8, <2>9, <2>10, <1>1 DEF Smallest
<1>13. CASE all_size <= c /\ all_size < e
  <2>1. x = f[<<low, mid - 1>>]
    BY <1>3, <1>6, <1>7, <1>13 DEF LookAt
  <2>2. low <= mid - 1
    BY <1>11, <1>13, <1>7
  <2>3. mid - 1 < SL!max_id /\ (mid - 1) - low < high - low
    BY <1>4, <1>5
  <2>4. Between(low, mid - 1, all_size)
    <3>1. (mid - 1) + 1 = mid
      BY <1>4
    <3> QED
      BY <3>1, <1>6, <1>13 DEF Between
  <2>5. PICK h : h = mid - 1
    OBVIOUS
  <2>6. /\ h \in Nat /\ 1 <= low /\ low <= h /\ h < SL!max_id /\ h - low < high - low
        /\ Between(low, h, all_size) /\ Look(f, all_size, <<low, high>>) = f[<<low, h>>]
    BY <2>1, <2>2, <2>3, <2>4, <2>5, <1>1, <1>4
  <2> QED
    BY <2>6 DEF Narrows
<1>14. \/ c < all_size /\ all_size <= d
       \/ c < all_size /\ d < all_size
       \/ all_size <= c /\ e < all_size
       \/ all_size <= c /\ all_size = e
       \/ all_size <= c /\ all_size < e
  BY <1>7
<1> QED
  BY <1>8, <1>9, <1>10, <1>12, <1>13, <1>14

LEMMA SearchFinds ==
  ASSUME NEW f, NEW all_size \in Nat, Lengths, Power, Search(f, all_size),
         NEW low \in Nat, NEW high \in Nat, 1 <= low, low <= high, high < SL!max_id,
         Between(low, high, all_size)
  PROVE  Smallest(f[<<low, high>>], all_size)
<1> DEFINE Bad(n) == \E l, h \in Nat : /\ 1 <= l /\ l <= h /\ h < SL!max_id
                                       /\ Between(l, h, all_size) /\ n = h - l
                                       /\ ~ Smallest(f[<<l, h>>], all_size)
<1>1. PICK S : S = {n \in Nat : Bad(n)}
  OBVIOUS
<1>2. ASSUME S # {} PROVE FALSE
  <2>1. S \in SUBSET Nat
    BY <1>1
  <2>2. PICK m \in S : \A k \in S : m <= k
    BY <2>1, <1>2, LeastOf
  <2>3. Bad(m)
    BY <2>2, <1>1
  <2>4. PICK l, h \in Nat : /\ 1 <= l /\ l <= h /\ h < SL!max_id
                            /\ Between(l, h, all_size) /\ m = h - l
                            /\ ~ Smallest(f[<<l, h>>], all_size)
    BY <2>3
  <2>5. <<l, h>> \in Pairs
    BY <2>4 DEF Pairs, Lengths
  <2>6. f[<<l, h>>] = Look(f, all_size, <<l, h>>)
    BY <2>5 DEF Search
  <2>7. PICK p, q \in Nat : /\ 1 <= p /\ p <= q /\ q < SL!max_id /\ q - p < h - l
                            /\ Between(p, q, all_size)
                            /\ Look(f, all_size, <<l, h>>) = f[<<p, q>>]
    <3>1. l \in Nat /\ h \in Nat /\ 1 <= l /\ l <= h /\ h < SL!max_id /\ Between(l, h, all_size)
      BY <2>4
    <3>2. Smallest(Look(f, all_size, <<l, h>>), all_size) \/ Narrows(f, all_size, l, h)
      BY <3>1, LookFinds
    <3>3. ~ Smallest(Look(f, all_size, <<l, h>>), all_size)
      BY <2>4, <2>6
    <3> QED
      BY <3>2, <3>3 DEF Narrows
  <2>8. ~ Smallest(f[<<p, q>>], all_size)
    BY <2>4, <2>6, <2>7
  <2>9. q - p \in Nat /\ ~ (m <= q - p)
    BY <2>4, <2>7
  <2>10. Bad(q - p)
    BY <2>7, <2>8
  <2> QED
    BY <2>9, <2>10, <2>2, <1>1
<1>3. high - low \in Nat /\ high - low \notin S
  BY <1>2
<1>4. ~ Bad(high - low)
  BY <1>1, <1>3
<1> QED
  BY <1>4

(* Of more than two power classes, the search finds the smallest that      *)
(* holds so much.                                                          *)
LEMMA PowerIdFinds ==
  ASSUME NEW all_size \in Nat, Lengths, Power, SL!max_id >= 2,
         SL!ClassSize(0) < all_size, all_size < SL!ClassSize(SL!max_id)
  PROVE  Smallest(SL!PowerId(all_size), all_size)
<1>1. PICK f : f = CHOOSE g : Search(g, all_size)
  OBVIOUS
<1>2. Search(f, all_size)
  BY <1>1, SearchExists
<1>3. PICK high : high = SL!max_id - 1
  OBVIOUS
<1>4. high \in Nat /\ 1 <= high /\ high < SL!max_id /\ high + 1 = SL!max_id /\ 1 - 1 = 0 /\ 1 \in Nat /\ 1 <= 1
  BY <1>3 DEF Lengths
<1>5. Between(1, high, all_size)
  <2>1. SL!ClassSize(SL!max_id) \in Nat
    BY ClassSizeType DEF Lengths
  <2>2. all_size <= SL!ClassSize(SL!max_id)
    BY <2>1
  <2> QED
    BY <2>2, <1>4 DEF Between
<1>6. Smallest(f[<<1, high>>], all_size)
  BY <1>2, <1>4, <1>5, SearchFinds
<1> QED
  BY <1>1, <1>3, <1>6, PowerIdIs

(* Of two there is nothing to search: no class is found. *)
LEMMA PowerIdOfTwo ==
  ASSUME NEW all_size, Lengths, SL!max_id = 1
  PROVE  SL!PowerId(all_size) = SL!INVALID_ID
<1>1. PICK f : f = CHOOSE g : Search(g, all_size)
  OBVIOUS
<1>2. Search(f, all_size)
  BY <1>1, SearchExists
<1>3. <<1, 0>> \in Pairs
  BY DEF Pairs, Lengths
<1>4. f[<<1, 0>>] = Look(f, all_size, <<1, 0>>)
  BY <1>2, <1>3 DEF Search
<1>5. Look(f, all_size, <<1, 0>>) = SL!INVALID_ID
  BY LookEnds
<1>6. SL!PowerId(all_size) = f[<<1, 0>>]
  <2>1. SL!max_id - 1 = 0
    OBVIOUS
  <2> QED
    BY <2>1, <1>1, PowerIdIs
<1> QED
  BY <1>4, <1>5, <1>6

-----------------------------------------------------------------------------
(* fast_slabs_clsid *)

TypeKnown == uptype \in {"POWER", "LINEAR"}

LEMMA LinearIdFits ==
  ASSUME NEW size \in Nat, NEW n \in Nat, ~ Power,
         SL!ClassSize(0) < SL!ChunkSize(size), SL!ChunkSize(size) < SL!ClassSize(n)
  PROVE  /\ SL!LinearId(size) \in 0 .. n
         /\ SL!ChunkSize(size) <= SL!ClassSize(SL!LinearId(size))
<1>1. PICK a, f : a = item_size_min /\ f = FAST_SLAB_LINEAR_FACTOR
  OBVIOUS
<1>2. a \in Nat \ {0} /\ f \in Nat \ {0}
  BY <1>1, Parameters
<1>3. \A i \in Nat : Raw(i) = a + f * i /\ f * i \in Nat
  <2>1. ASSUME NEW i \in Nat PROVE Raw(i) = a + f * i /\ f * i \in Nat
    <3>1. Raw(i) = a + i * f
      BY <1>1 DEF Raw
    <3>2. i * f = f * i /\ f * i \in Nat
      BY <1>2
    <3> QED
      BY <3>1, <3>2
  <2> QED
    BY <2>1
<1>4. /\ SL!ClassSize(0) = SL!ChunkSize(Raw(0)) /\ Raw(0) \in Nat
      /\ SL!ClassSize(n) = SL!ChunkSize(Raw(n)) /\ Raw(n) \in Nat
  <2>1. 0 \in Nat
    OBVIOUS
  <2> QED
    BY <2>1, RawIs
<1>5. SL!ChunkSize(size) \in Nat /\ SL!ChunkSize(Raw(0)) \in Nat /\ SL!ChunkSize(Raw(n)) \in Nat
  BY <1>4, ChunkSizeIs
<1>6. a < size
  <2>1. ASSUME size <= Raw(0) PROVE FALSE
    <3>1. SL!ChunkSize(size) <= SL!ChunkSize(Raw(0))
      BY <2>1, <1>4, ChunkSizeMonotone
    <3> QED
      BY <3>1, <1>4, <1>5
  <2>2. Raw(0) = a + f * 0 /\ f * 0 = 0
    BY <1>2, <1>3
  <2> QED
    BY <2>1, <2>2, <1>2
<1>7. size < Raw(n)
  <2>1. ASSUME Raw(n) <= size PROVE FALSE
    <3>1. SL!ChunkSize(Raw(n)) <= SL!ChunkSize(size)
      BY <2>1, <1>4, ChunkSizeMonotone
    <3> QED
      BY <3>1, <1>4, <1>5
  <2> QED
    BY <2>1, <1>4
<1>8. PICK z, d : z = size - a /\ d = DivUp(z, f)
  OBVIOUS
<1>9. z \in Nat /\ size = a + z
  BY <1>2, <1>6, <1>8
<1>10. d \in Nat /\ z <= f * d /\ f * d \in Nat
  BY <1>2, <1>8, <1>9, DivUpBounds
<1>11. z <= f * n
  <2>1. Raw(n) = a + f * n /\ f * n \in Nat
    BY <1>3
  <2> QED
    BY <2>1, <1>2, <1>7, <1>9
<1>12. d <= n
  BY <1>2, <1>8, <1>9, <1>11, DivUpLeast
<1>13. size <= Raw(d) /\ Raw(d) \in Nat
  <2>1. Raw(d) = a + f * d
    BY <1>3, <1>10
  <2> QED
    BY <2>1, <1>2, <1>9, <1>10
<1>14. SL!ChunkSize(size) <= SL!ChunkSize(Raw(d))
  BY <1>13, ChunkSizeMonotone
<1>15. SL!ClassSize(d) = SL!ChunkSize(Raw(d))
  BY <1>10, RawIs
<1>16. SL!LinearId(size) = d
  BY <1>1, <1>8, SameArithmetic DEF SL!LinearId
<1> QED
  BY <1>10, <1>12, <1>14, <1>15, <1>16

(* The class found holds the size; a power class is the smallest that does.*)
Holds(id, size) ==
  /\ id \in 0 .. SL!max_id
  /\ SL!ChunkSize(size) <= SL!ClassSize(id)
  /\ Power => \A i \in 0 .. SL!max_id : i < id => SL!ClassSize(i) < SL!ChunkSize(size)

LEMMA HoldsWhenSmallest ==
  ASSUME NEW id, NEW size, Smallest(id, SL!ChunkSize(size))
  PROVE  Holds(id, size)
BY DEF Holds, Smallest

LEMMA InvalidIsNoClass == \A n \in Nat : SL!INVALID_ID \notin 0 .. n /\ SL!INVALID_ID = -1
BY DEF SL!INVALID_ID

LEMMA ClsIdIs ==
  ASSUME NEW size \in Nat, TypeKnown
  PROVE  /\ SL!ClsId(size) = SL!INVALID_ID \/ Holds(SL!ClsId(size), size)
         /\ size <= item_size_max /\ (Power => SL!max_id >= 2) => Holds(SL!ClsId(size), size)
<1>1. PICK s, n, c, e, id : s = SL!ChunkSize(size) /\ n = SL!max_id /\ c = SL!ClassSize(0) /\ e = SL!ClassSize(n)
                            /\ id = SL!ClsId(size)
  OBVIOUS
<1>2. Lengths /\ n \in Nat \ {0} /\ item_size_max <= Raw(n)
  BY <1>1, FreeLenIs DEF TypeKnown, Lengths
<1>3. s \in Nat /\ c \in Nat /\ e \in Nat
  BY <1>1, <1>2, ChunkSizeIs, ClassSizeType
<1>4. id = IF s > e THEN SL!INVALID_ID
           ELSE IF s <= c THEN 0
           ELSE IF s = e THEN n
           ELSE IF uptype = "LINEAR" THEN SL!LinearId(size)
           ELSE SL!PowerId(s)
  BY <1>1 DEF SL!ClsId
<1>5. size <= item_size_max => s <= e
  <2>1. ASSUME size <= item_size_max PROVE s <= e
    <3>1. PICK r : r = Raw(n)
      OBVIOUS
    <3>2. r \in Nat /\ e = SL!ChunkSize(r)
      BY <3>1, <1>1, <1>2, RawIs
    <3>3. size <= r
      BY <3>1, <3>2, <2>1, <1>2, Parameters
    <3>4. SL!ChunkSize(size) <= SL!ChunkSize(r)
      BY <3>2, <3>3, ChunkSizeMonotone
    <3> QED
      BY <3>2, <3>4, <1>1
  <2> QED
    BY <2>1
<1>6. CASE s > e
  <2>1. id = SL!INVALID_ID /\ ~ (s <= e)
    BY <1>3, <1>4, <1>6
  <2> QED
    BY <2>1, <1>1, <1>5
<1>7. CASE s <= e /\ s <= c
  <2>1. id = 0
    BY <1>3, <1>4, <1>7
  <2>2. 0 \in 0 .. n /\ \A i \in 0 .. n : ~ (i < 0)
    BY <1>2
  <2>3. Holds(id, size)
    BY <2>1, <2>2, <1>1, <1>7 DEF Holds
  <2> QED
    BY <2>3, <1>1
<1>8. CASE c < s /\ s = e
  <2>1. id = n
    BY <1>3, <1>4, <1>8
  <2>2. n \in 0 .. n /\ s <= e
    BY <1>2, <1>3, <1>8
  <2>3. ASSUME Power PROVE \A i \in 0 .. n : i < n => SL!ClassSize(i) < s
    <3>1. PICK j : j = n - 1
      OBVIOUS
    <3>2. j \in Nat /\ j + 1 = n
      BY <3>1, <1>2
    <3>3. SL!ClassSize(j) < SL!ClassSize(j + 1)
      BY <3>2, <2>3, <1>1, <1>8, ClassSizeStrict
    <3>4. SL!ClassSize(j) < s
      BY <3>2, <3>3, <1>1, <1>8
    <3>5. \A i \in Nat : i <= j => SL!ClassSize(i) < s
      BY <3>2, <3>4, <1>3, AboveBelow
    <3> QED
      BY <3>2, <3>5
  <2>4. Holds(id, size)
    BY <2>1, <2>2, <2>3, <1>1 DEF Holds
  <2> QED
    BY <2>4, <1>1
<1>9. CASE c < s /\ s < e
  <2>1. ~ (s > e) /\ ~ (s <= c) /\ s # e
    BY <1>3, <1>9
  <2>2. CASE ~ Power
    <3>1. id = SL!LinearId(size)
      BY <2>1, <2>2, <1>4 DEF Power, TypeKnown
    <3>2. n \in Nat
      BY <1>2
    <3>3. SL!LinearId(size) \in 0 .. n /\ SL!ChunkSize(size) <= SL!ClassSize(SL!LinearId(size))
      BY <3>2, <2>2, <1>1, <1>9, LinearIdFits
    <3>4. Holds(id, size)
      BY <3>1, <3>3, <2>2, <1>1 DEF Holds
    <3> QED
      BY <3>4, <1>1
  <2>3. CASE Power
    <3>1. id = SL!PowerId(s)
      BY <2>1, <2>3, <1>4 DEF Power
    <3>2. CASE n >= 2
      <4>1. Smallest(SL!PowerId(s), s)
        BY <3>2, <2>3, <1>1, <1>2, <1>3, <1>9, PowerIdFinds
      <4>2. Holds(id, size)
        BY <4>1, <3>1, <1>1, HoldsWhenSmallest
      <4> QED
        BY <4>2, <1>1
    <3>3. CASE ~ (n >= 2)
      <4>1. n = 1
        BY <3>3, <1>2
      <4>2. SL!PowerId(s) = SL!INVALID_ID
        BY <4>1, <1>1, <1>2, PowerIdOfTwo
      <4> QED
        BY <4>2, <3>1, <3>3, <2>3, <1>1
    <3> QED
      BY <3>2, <3>3
  <2> QED
    BY <2>2, <2>3
<1>10. s > e \/ (s <= e /\ s <= c) \/ (c < s /\ s = e) \/ (c < s /\ s < e)
  BY <1>3
<1> QED
  BY <1>6, <1>7, <1>8, <1>9, <1>10

(* Power classes are more than two.  Of two the search finds none, and a   *)
(* size between them is refused although fast_slabs_create took the sizes. *)
MoreThanTwo == "POWER" \in Uptypes => DivUp(item_size_max, item_size_min) > 2

LEMMA EverySizeIsServed ==
  ASSUME uptype \in Uptypes, MoreThanTwo
  PROVE  SL!EverySizeHasClass
<1>1. TypeKnown
  BY AllocatorsAssumption DEF SL!SlabsAssumption, TypeKnown
<1>2. SL!Classes = 0 .. SL!max_id
  BY <1>1, FreeLenIs DEF TypeKnown
<1>3. Power => SL!max_id >= 2
  BY <1>1, FreeLenIs DEF TypeKnown, MoreThanTwo, Power
<1>4. ASSUME NEW size \in 1 .. item_size_max PROVE Holds(SL!ClsId(size), size)
  <2>1. size \in Nat /\ size <= item_size_max
    BY Parameters
  <2> QED
    BY <2>1, <1>1, <1>3, ClsIdIs
<1> QED
  BY <1>2, <1>4 DEF SL!EverySizeHasClass, Holds, Power

-----------------------------------------------------------------------------
(* Totals of the chunks *)

Have(c, S) == \A t \in S : c[t].size \in Nat

(* What the things of S come to by the chunks c, each with so much more.   *)
Worth(c, S, more) == [t \in Things |-> IF t \in S THEN c[t].size + more ELSE 0]
Tot(c, S, more) == SumOf(Worth(c, S, more))

LEMMA ThingsAre ==
  /\ Cardinality(Things) \in Nat /\ Things = 1 .. Cardinality(Things) /\ IsFiniteSet(Things)
<1>1. SL!IsFiniteSet(Things) /\ Things = 1 .. SL!Cardinality(Things)
  BY AllocatorsAssumption DEF SL!SlabsAssumption
<1>2. IsFiniteSet(Things)
  BY <1>1 DEF SL!IsFiniteSet, IsFiniteSet
<1>3. SL!Cardinality(Things) = Cardinality(Things)
  BY DEF SL!Cardinality, Cardinality
<1> QED
  BY <1>1, <1>2, <1>3, FS_CardinalityType

LEMMA WorthIs ==
  ASSUME NEW c, NEW S \in SUBSET Things, NEW more \in Nat, Have(c, S)
  PROVE  Worth(c, S, more) \in [1 .. Cardinality(Things) -> Nat]
<1>1. PICK n : n = Cardinality(Things)
  OBVIOUS
<1>2. Things = 1 .. n
  BY <1>1, ThingsAre
<1>3. ASSUME NEW t \in 1 .. n PROVE (IF t \in S THEN c[t].size + more ELSE 0) \in Nat
  <2>1. CASE t \in S
    <3>1. c[t].size \in Nat
      BY <2>1 DEF Have
    <3> QED
      BY <3>1, <2>1
  <2> QED
    BY <2>1
<1>4. Worth(c, S, more) = [t \in 1 .. n |-> IF t \in S THEN c[t].size + more ELSE 0]
  BY <1>2 DEF Worth
<1>5. [t \in 1 .. n |-> IF t \in S THEN c[t].size + more ELSE 0] \in [1 .. n -> Nat]
  BY <1>3
<1> QED
  BY <1>1, <1>4, <1>5

LEMMA TotIs ==
  ASSUME NEW c, NEW S \in SUBSET Things, NEW more \in Nat, Have(c, S)
  PROVE  Tot(c, S, more) \in Nat
<1>1. PICK n, x : n = Cardinality(Things) /\ x = Worth(c, S, more)
  OBVIOUS
<1>2. n \in Nat /\ x \in [1 .. n -> Nat]
  BY <1>1, ThingsAre, WorthIs
<1>3. SumOf(x) \in Nat
  BY <1>2, SumOfNatural
<1> QED
  BY <1>1, <1>3 DEF Tot

LEMMA TotOfNone ==
  ASSUME NEW c, NEW more \in Nat
  PROVE  Tot(c, {}, more) = 0
<1>1. PICK n, x : n = Cardinality(Things) /\ x = Worth(c, {}, more)
  OBVIOUS
<1>2. n \in Nat /\ Things = 1 .. n
  BY <1>1, ThingsAre
<1>3. x = [k \in 1 .. n |-> 0]
  BY <1>1, <1>2 DEF Worth
<1>4. x \in [1 .. n -> Int] /\ \A k \in 1 .. n : x[k] = 0
  BY <1>3
<1>5. SumOf(x) = 0
  BY <1>2, <1>4, SumOfZero
<1> QED
  BY <1>1, <1>5 DEF Tot

LEMMA TotSame ==
  ASSUME NEW c, NEW d, NEW S, NEW more, \A t \in S : d[t].size = c[t].size
  PROVE  Tot(d, S, more) = Tot(c, S, more)
<1>1. Worth(d, S, more) = Worth(c, S, more)
  BY DEF Worth
<1> QED
  BY <1>1 DEF Tot

LEMMA TotGrows ==
  ASSUME NEW c, NEW d, NEW S \in SUBSET Things, NEW more \in Nat, Have(c, S),
         NEW t \in Things \ S, d[t].size \in Nat, \A u \in S : d[u].size = c[u].size
  PROVE  Tot(d, S \cup {t}, more) = Tot(c, S, more) + d[t].size + more
<1>1. PICK n, x, y, R : /\ n = Cardinality(Things) /\ x = Worth(c, S, more)
                        /\ R = S \cup {t} /\ y = Worth(d, R, more)
  OBVIOUS
<1>2. n \in Nat /\ Things = 1 .. n /\ t \in 1 .. n
  BY <1>1, ThingsAre
<1>3. R \in SUBSET Things /\ Have(d, R)
  BY <1>1 DEF Have
<1>4. x \in [1 .. n -> Nat] /\ y \in [1 .. n -> Nat]
  BY <1>1, <1>3, WorthIs
<1>5. ASSUME NEW j \in (1 .. n) \ {t} PROVE y[j] = x[j]
  BY <1>1, <1>2 DEF Worth
<1>6. x[t] = 0 /\ y[t] = d[t].size + more
  BY <1>1 DEF Worth
<1>7. SumOf(y) = SumOf(x) - x[t] + y[t]
  BY <1>2, <1>4, <1>5, SumChanges
<1>8. SumOf(x) \in Nat
  BY <1>2, <1>4, SumOfNatural
<1>9. PICK p, q, s : p = SumOf(x) /\ q = SumOf(y) /\ s = d[t].size
  OBVIOUS
<1>10. q = p - 0 + (s + more) /\ p \in Nat /\ s \in Nat
  BY <1>6, <1>7, <1>8, <1>9
<1>11. q = p + s + more
  BY <1>10
<1> QED
  BY <1>1, <1>9, <1>11 DEF Tot

LEMMA TotShrinks ==
  ASSUME NEW c, NEW d, NEW S \in SUBSET Things, NEW more \in Nat, Have(c, S),
         NEW t \in S, \A u \in S \ {t} : d[u].size = c[u].size
  PROVE  Tot(d, S \ {t}, more) = Tot(c, S, more) - c[t].size - more
<1>1. PICK R : R = S \ {t}
  OBVIOUS
<1>2. R \in SUBSET Things /\ Have(d, R) /\ t \in Things \ R /\ R \cup {t} = S
  BY <1>1 DEF Have
<1>3. c[t].size \in Nat /\ \A u \in R : c[u].size = d[u].size
  BY <1>1 DEF Have
<1>4. Tot(c, R \cup {t}, more) = Tot(d, R, more) + c[t].size + more
  BY <1>2, <1>3, TotGrows
<1>5. Tot(d, R, more) \in Nat
  BY <1>2, TotIs
<1>6. PICK p, q, s : p = Tot(c, S, more) /\ q = Tot(d, R, more) /\ s = c[t].size
  OBVIOUS
<1>7. p = q + s + more /\ q \in Nat /\ s \in Nat
  BY <1>2, <1>3, <1>4, <1>5, <1>6
<1>8. q = p - s - more
  BY <1>7
<1> QED
  BY <1>1, <1>6, <1>8

LEMMA TotHolds ==
  ASSUME NEW c, NEW S \in SUBSET Things, NEW more \in Nat, Have(c, S), NEW t \in S
  PROVE  c[t].size + more <= Tot(c, S, more)
<1>1. Tot(c, S \ {t}, more) = Tot(c, S, more) - c[t].size - more
  BY TotShrinks
<1>2. Tot(c, S \ {t}, more) \in Nat
  <2>1. S \ {t} \in SUBSET Things /\ Have(c, S \ {t})
    BY DEF Have
  <2> QED
    BY <2>1, TotIs
<1>3. PICK p, q, s : p = Tot(c, S, more) /\ q = Tot(c, S \ {t}, more) /\ s = c[t].size
  OBVIOUS
<1>4. p \in Nat /\ q \in Nat /\ s \in Nat /\ q = p - s - more
  BY <1>1, <1>2, <1>3, TotIs DEF Have
<1>5. s + more <= p
  BY <1>4
<1> QED
  BY <1>3, <1>5

(* size_t counts: what was reduced before is reduced all the same.         *)
LEMMA SizeIs ==
  ASSUME NEW a \in Int
  PROVE  /\ SL!Size(a) \in 0 .. SizeMod - 1
         /\ \A b \in Int : SL!Size(SL!Size(a) + b) = SL!Size(a + b)
<1>1. PICK m : m = SizeMod
  OBVIOUS
<1>2. m \in Nat \ {0} /\ \A x : SL!Size(x) = x % m
  BY <1>1, Parameters DEF SL!Size
<1>3. a % m \in 0 .. m - 1
  BY <1>2, DivMod
<1>4. \A b \in Int : ((a % m) + b) % m = (a + b) % m
  BY <1>2, ModAdd
<1> QED
  BY <1>1, <1>2, <1>3, <1>4

(* Two counts come to t. *)
Come(u, f, t) == SL!Size(u + f) = SL!Size(t)

(* When they change by a and b, their sum changes by both. *)
LEMMA SizesAdd ==
  ASSUME NEW u \in Int, NEW f \in Int, NEW t \in Int, NEW a \in Int, NEW b \in Int,
         Come(u, f, t)
  PROVE  Come(SL!Size(u + a), SL!Size(f + b), t + (a + b))
<1>0. SL!Size(u + f) = SL!Size(t)
  BY DEF Come
<1>1. PICK v : v = SL!Size(f + b)
  OBVIOUS
<1>2. v \in Int
  <2>1. f + b \in Int
    OBVIOUS
  <2> QED
    BY <2>1, <1>1, SizeIs
<1>3. SL!Size(SL!Size(u + a) + v) = SL!Size((u + a) + v)
  <2>1. u + a \in Int
    OBVIOUS
  <2> QED
    BY <2>1, <1>2, SizeIs
<1>4. (u + a) + v = v + (u + a) /\ u + a \in Int /\ f + b \in Int
  BY <1>2
<1>5. SL!Size(SL!Size(f + b) + (u + a)) = SL!Size((f + b) + (u + a))
  BY <1>4, SizeIs
<1>6. (f + b) + (u + a) = (u + f) + (a + b) /\ u + f \in Int /\ a + b \in Int
  OBVIOUS
<1>7. SL!Size(SL!Size(u + f) + (a + b)) = SL!Size((u + f) + (a + b))
  BY <1>6, SizeIs
<1>8. SL!Size(SL!Size(t) + (a + b)) = SL!Size(t + (a + b))
  BY <1>6, SizeIs
<1> QED
  BY <1>0, <1>1, <1>3, <1>4, <1>5, <1>6, <1>7, <1>8 DEF Come

-----------------------------------------------------------------------------
(* Where the things are *)

Chunks == [size : Nat, req_size : Nat, id : Int]
ChunkMaps == [Things -> Chunks \cup {NoChunk}]
LentMaps == [Things -> {0, 1}]

GotOf(ch) == {t \in Things : ch[t] # NoChunk}
LentOf(le) == {t \in Things : le[t] > 0}

LEMMA NoChunkIsNone == NoChunk \notin Chunks
<1>1. NoChunk \notin [size : Int, req_size : Int, id : Int]
  BY AllocatorsAssumption DEF SL!SlabsAssumption
<1>2. ASSUME NEW c \in Chunks PROVE c \in [size : Int, req_size : Int, id : Int]
  <2>1. c = [size |-> c.size, req_size |-> c.req_size, id |-> c.id]
        /\ c.size \in Int /\ c.req_size \in Int /\ c.id \in Int
    BY DEF Chunks
  <2> QED
    BY <2>1
<1> QED
  BY <1>1, <1>2

LEMMA MapPut ==
  ASSUME NEW ch \in ChunkMaps, NEW t \in Things, NEW v \in Chunks
  PROVE  /\ [ch EXCEPT ![t] = v] \in ChunkMaps
         /\ GotOf([ch EXCEPT ![t] = v]) = GotOf(ch) \cup {t}
         /\ [ch EXCEPT ![t] = v][t] = v
         /\ \A u \in Things \ {t} : [ch EXCEPT ![t] = v][u] = ch[u]
<1>1. v # NoChunk
  BY NoChunkIsNone
<1>2. PICK d : d = [ch EXCEPT ![t] = v]
  OBVIOUS
<1>3. d \in ChunkMaps /\ d[t] = v /\ \A u \in Things \ {t} : d[u] = ch[u]
  BY <1>2 DEF ChunkMaps
<1>4. GotOf(d) = GotOf(ch) \cup {t}
  BY <1>1, <1>3 DEF GotOf
<1> QED
  BY <1>2, <1>3, <1>4

LEMMA MapTake ==
  ASSUME NEW ch \in ChunkMaps, NEW t \in Things
  PROVE  /\ [ch EXCEPT ![t] = NoChunk] \in ChunkMaps
         /\ GotOf([ch EXCEPT ![t] = NoChunk]) = GotOf(ch) \ {t}
         /\ [ch EXCEPT ![t] = NoChunk][t] = NoChunk
         /\ \A u \in Things \ {t} : [ch EXCEPT ![t] = NoChunk][u] = ch[u]
<1>1. PICK d : d = [ch EXCEPT ![t] = NoChunk]
  OBVIOUS
<1>2. d \in ChunkMaps /\ d[t] = NoChunk /\ \A u \in Things \ {t} : d[u] = ch[u]
  BY <1>1 DEF ChunkMaps
<1>3. GotOf(d) = GotOf(ch) \ {t}
  BY <1>2 DEF GotOf
<1> QED
  BY <1>1, <1>2, <1>3

LEMMA LentPut ==
  ASSUME NEW le \in LentMaps, NEW t \in Things
  PROVE  /\ [le EXCEPT ![t] = 1] \in LentMaps
         /\ LentOf([le EXCEPT ![t] = 1]) = LentOf(le) \cup {t}
         /\ [le EXCEPT ![t] = 1][t] = 1
         /\ \A u \in Things \ {t} : [le EXCEPT ![t] = 1][u] = le[u]
<1>1. PICK d : d = [le EXCEPT ![t] = 1]
  OBVIOUS
<1>2. d \in LentMaps /\ d[t] = 1 /\ \A u \in Things \ {t} : d[u] = le[u]
  BY <1>1 DEF LentMaps
<1>3. LentOf(d) = LentOf(le) \cup {t}
  BY <1>2 DEF LentOf
<1> QED
  BY <1>1, <1>2, <1>3

LEMMA LentTake ==
  ASSUME NEW le \in LentMaps, NEW t \in Things
  PROVE  /\ [le EXCEPT ![t] = 0] \in LentMaps
         /\ LentOf([le EXCEPT ![t] = 0]) = LentOf(le) \ {t}
         /\ [le EXCEPT ![t] = 0][t] = 0
         /\ \A u \in Things \ {t} : [le EXCEPT ![t] = 0][u] = le[u]
<1>1. PICK d : d = [le EXCEPT ![t] = 0]
  OBVIOUS
<1>2. d \in LentMaps /\ d[t] = 0 /\ \A u \in Things \ {t} : d[u] = le[u]
  BY <1>1 DEF LentMaps
<1>3. LentOf(d) = LentOf(le) \ {t}
  BY <1>2 DEF LentOf
<1> QED
  BY <1>1, <1>2, <1>3

LEMMA GotHave ==
  ASSUME NEW ch \in ChunkMaps
  PROVE  Have(ch, GotOf(ch)) /\ \A t \in GotOf(ch) : ch[t] \in Chunks /\ ch[t].size \in Nat
<1>1. ASSUME NEW t \in GotOf(ch) PROVE ch[t] \in Chunks /\ ch[t].size \in Nat
  <2>1. ch[t] \in Chunks
    BY DEF ChunkMaps, GotOf
  <2> QED
    BY <2>1 DEF Chunks
<1> QED
  BY <1>1 DEF Have

(* A thing is in one place: on the list of its class or with a caller; sz  *)
(* are the sizes of the classes, hf is whether the allocator can free.     *)
Placed(t, fl, ch, le, sz, hf) ==
  /\ \A i \in DOMAIN sz : t \in ToSet(fl[i]) =>
       ch[t] # NoChunk /\ le[t] = 0 /\ ch[t].id = i /\ ch[t].size = sz[i]
  /\ le[t] # 0 => ch[t] # NoChunk
  /\ ch[t] # NoChunk =>
       /\ ch[t].id \in DOMAIN sz => ch[t].size = sz[ch[t].id]
       /\ ch[t].id \in DOMAIN sz \cup {SL!FAST_SLAB_SPLIT_ID}
       /\ hf => le[t] # 0 \/ \E i \in DOMAIN sz : t \in ToSet(fl[i])

Places(fl, ch, le, sz, hf) ==
  /\ \A i \in DOMAIN sz : IsInjective(fl[i])
  /\ \A t \in Things : Placed(t, fl, ch, le, sz, hf)

LEMMA StaysPlaced ==
  ASSUME NEW t, NEW fl, NEW ch, NEW le, NEW sz, NEW hf, Placed(t, fl, ch, le, sz, hf),
         NEW gl, NEW dh, NEW me, dh[t] = ch[t], me[t] = le[t],
         \A i \in DOMAIN sz : t \in ToSet(gl[i]) <=> t \in ToSet(fl[i])
  PROVE  Placed(t, gl, dh, me, sz, hf)
BY DEF Placed

(* The head of a list without repetitions. *)
LEMMA PopIs ==
  ASSUME NEW s \in Seq(Things), s # <<>>, IsInjective(s)
  PROVE  /\ Head(s) \in Things /\ Head(s) \in ToSet(s)
         /\ Tail(s) \in Seq(Things) /\ IsInjective(Tail(s))
         /\ ToSet(Tail(s)) = ToSet(s) \ {Head(s)}
<1>1. PICK n : n = Len(s)
  OBVIOUS
<1>2. n \in Nat \ {0} /\ DOMAIN s = 1 .. n /\ s \in [1 .. n -> Things]
  BY <1>1, EmptySeq, LenProperties
<1>3. Head(s) = s[1] /\ 1 \in 1 .. n /\ Tail(s) \in Seq(Things) /\ Len(Tail(s)) = n - 1
      /\ \A k \in 1 .. n - 1 : Tail(s)[k] = s[k + 1]
  <2>1. Tail(s) \in Seq(Things) /\ Len(Tail(s)) = Len(s) - 1
        /\ \A k \in 1 .. Len(Tail(s)) : Tail(s)[k] = s[k + 1]
    BY HeadTailProperties
  <2>2. Head(s) = s[1] /\ 1 \in 1 .. n
    BY <1>2
  <2> QED
    BY <2>1, <2>2, <1>1
<1>4. PICK r : r = Tail(s)
  OBVIOUS
<1>5. r \in Seq(Things) /\ DOMAIN r = 1 .. n - 1 /\ \A k \in 1 .. n - 1 : r[k] = s[k + 1]
  BY <1>3, <1>4, LenProperties
<1>6. \A a, b \in 1 .. n : s[a] = s[b] => a = b
  BY <1>2 DEF IsInjective
<1>7. IsInjective(r)
  <2> SUFFICES ASSUME NEW a \in 1 .. n - 1, NEW b \in 1 .. n - 1, r[a] = r[b] PROVE a = b
    BY <1>5 DEF IsInjective
  <2>1. a + 1 \in 1 .. n /\ b + 1 \in 1 .. n /\ s[a + 1] = s[b + 1]
    BY <1>2, <1>5
  <2>2. a + 1 = b + 1
    BY <2>1, <1>6
  <2> QED
    BY <2>2
<1>8. ToSet(r) = ToSet(s) \ {s[1]}
  <2>1. ASSUME NEW x \in ToSet(r) PROVE x \in ToSet(s) \ {s[1]}
    <3>1. PICK k \in 1 .. n - 1 : x = r[k]
      BY <1>5 DEF ToSet
    <3>2. k + 1 \in 1 .. n /\ k + 1 # 1 /\ x = s[k + 1]
      BY <3>1, <1>2, <1>5
    <3>3. s[k + 1] # s[1]
      BY <3>2, <1>3, <1>6
    <3> QED
      BY <3>2, <3>3, <1>2 DEF ToSet
  <2>2. ASSUME NEW x \in ToSet(s), x # s[1] PROVE x \in ToSet(r)
    <3>1. PICK k \in 1 .. n : x = s[k]
      BY <1>2 DEF ToSet
    <3>2. k # 1
      BY <3>1, <2>2
    <3>3. k - 1 \in 1 .. n - 1 /\ (k - 1) + 1 = k
      BY <3>1, <3>2, <1>2
    <3>4. x = r[k - 1]
      BY <3>1, <3>3, <1>5
    <3> QED
      BY <3>3, <3>4, <1>5 DEF ToSet
  <2> QED
    BY <2>1, <2>2
<1>9. s[1] \in ToSet(s) /\ s[1] \in Things
  BY <1>2, <1>3 DEF ToSet
<1> QED
  BY <1>3, <1>4, <1>5, <1>7, <1>8, <1>9

LEMMA PushIs ==
  ASSUME NEW s \in Seq(Things), NEW t \in Things, t \notin ToSet(s), IsInjective(s)
  PROVE  /\ <<t>> \o s \in Seq(Things) /\ IsInjective(<<t>> \o s)
         /\ ToSet(<<t>> \o s) = ToSet(s) \cup {t}
<1>1. PICK n, r : n = Len(s) /\ r = <<t>> \o s
  OBVIOUS
<1>2. n \in Nat /\ DOMAIN s = 1 .. n
  BY <1>1, LenProperties
<1>3. r \in Seq(Things) /\ Len(r) = 1 + n /\ r[1] = t /\ \A k \in 2 .. n + 1 : r[k] = s[k - 1]
  <2>1. <<t>> \in Seq(Things) /\ Len(<<t>>) = 1 /\ <<t>>[1] = t
    OBVIOUS
  <2>2. /\ <<t>> \o s \in Seq(Things) /\ Len(<<t>> \o s) = Len(<<t>>) + Len(s)
        /\ \A i \in 1 .. Len(<<t>>) + Len(s) :
             (<<t>> \o s)[i] = IF i <= Len(<<t>>) THEN <<t>>[i] ELSE s[i - Len(<<t>>)]
    BY <2>1, ConcatProperties
  <2>3. \A i \in 1 .. 1 + n : r[i] = IF i <= 1 THEN <<t>>[i] ELSE s[i - 1]
    BY <2>1, <2>2, <1>1
  <2>4. r[1] = t
    <3>1. 1 \in 1 .. 1 + n
      BY <1>2
    <3> QED
      BY <3>1, <2>1, <2>3
  <2>5. ASSUME NEW k \in 2 .. n + 1 PROVE r[k] = s[k - 1]
    <3>1. k \in 1 .. 1 + n /\ ~ (k <= 1)
      BY <1>2
    <3> QED
      BY <3>1, <2>3
  <2> QED
    BY <2>1, <2>2, <2>4, <2>5, <1>1
<1>4. DOMAIN r = 1 .. n + 1
  BY <1>2, <1>3, LenProperties
<1>5. \A a, b \in 1 .. n : s[a] = s[b] => a = b
  BY <1>2 DEF IsInjective
<1>6. ASSUME NEW a \in 2 .. n + 1 PROVE a - 1 \in 1 .. n /\ r[a] = s[a - 1] /\ r[a] \in ToSet(s)
  <2>1. a - 1 \in 1 .. n
    BY <1>2
  <2> QED
    BY <2>1, <1>2, <1>3 DEF ToSet
<1>7. IsInjective(r)
  <2> SUFFICES ASSUME NEW a \in 1 .. n + 1, NEW b \in 1 .. n + 1, r[a] = r[b] PROVE a = b
    BY <1>4 DEF IsInjective
  <2>1. CASE a = 1 /\ b = 1
    BY <2>1
  <2>2. CASE a # 1 /\ b # 1
    <3>1. a \in 2 .. n + 1 /\ b \in 2 .. n + 1
      BY <2>2, <1>2
    <3>2. s[a - 1] = s[b - 1] /\ a - 1 \in 1 .. n /\ b - 1 \in 1 .. n
      BY <3>1, <1>6
    <3>3. a - 1 = b - 1
      BY <3>2, <1>5
    <3> QED
      BY <3>1, <3>3
  <2>3. CASE a # 1 /\ b = 1
    <3>1. a \in 2 .. n + 1
      BY <2>3, <1>2
    <3> QED
      BY <3>1, <2>3, <1>3, <1>6
  <2>4. CASE a = 1 /\ b # 1
    <3>1. b \in 2 .. n + 1
      BY <2>4, <1>2
    <3> QED
      BY <3>1, <2>4, <1>3, <1>6
  <2> QED
    BY <2>1, <2>2, <2>3, <2>4
<1>8. ToSet(r) = ToSet(s) \cup {t}
  <2>1. ASSUME NEW x \in ToSet(r) PROVE x \in ToSet(s) \cup {t}
    <3>1. PICK k \in 1 .. n + 1 : x = r[k]
      BY <1>4 DEF ToSet
    <3>2. k = 1 \/ k \in 2 .. n + 1
      BY <1>2
    <3> QED
      BY <3>1, <3>2, <1>3, <1>6
  <2>2. ASSUME NEW x \in ToSet(s) PROVE x \in ToSet(r)
    <3>1. PICK k \in 1 .. n : x = s[k]
      BY <1>2 DEF ToSet
    <3>2. k + 1 \in 2 .. n + 1 /\ (k + 1) - 1 = k /\ k + 1 \in 1 .. n + 1
      BY <1>2
    <3>3. x = r[k + 1]
      BY <3>1, <3>2, <1>3
    <3> QED
      BY <3>2, <3>3, <1>4 DEF ToSet
  <2>3. t \in ToSet(r)
    <3>1. 1 \in 1 .. n + 1
      BY <1>2
    <3> QED
      BY <3>1, <1>3, <1>4 DEF ToSet
  <2> QED
    BY <2>1, <2>2, <2>3
<1> QED
  BY <1>1, <1>3, <1>7, <1>8

-----------------------------------------------------------------------------
(* How the calls move things *)

Typed(fl, ch, le, sz) ==
  /\ fl \in [DOMAIN sz -> Seq(Things)] /\ ch \in ChunkMaps /\ le \in LentMaps
  /\ \A i \in DOMAIN sz : sz[i] \in Nat
  /\ SL!FAST_SLAB_SPLIT_ID \notin DOMAIN sz

LEMMA ListPut ==
  ASSUME NEW fl, NEW ch, NEW le, NEW sz, Typed(fl, ch, le, sz),
         NEW i \in DOMAIN sz, NEW s \in Seq(Things)
  PROVE  /\ [fl EXCEPT ![i] = s] \in [DOMAIN sz -> Seq(Things)]
         /\ [fl EXCEPT ![i] = s][i] = s
         /\ \A j \in DOMAIN sz : j # i => [fl EXCEPT ![i] = s][j] = fl[j]
BY DEF Typed

(* All but t stay where they are, and t has its new place. *)
LEMMA PlacesChange ==
  ASSUME NEW fl, NEW ch, NEW le, NEW sz, NEW hf, Places(fl, ch, le, sz, hf),
         NEW gl, NEW dh, NEW me, NEW t,
         \A u \in Things \ {t} : dh[u] = ch[u] /\ me[u] = le[u],
         \A i \in DOMAIN sz : IsInjective(gl[i]) /\ ToSet(gl[i]) \ {t} = ToSet(fl[i]) \ {t},
         Placed(t, gl, dh, me, sz, hf)
  PROVE  Places(gl, dh, me, sz, hf)
<1>1. ASSUME NEW u \in Things, u # t PROVE Placed(u, gl, dh, me, sz, hf)
  <2>1. Placed(u, fl, ch, le, sz, hf)
    BY DEF Places
  <2>2. \A i \in DOMAIN sz : u \in ToSet(gl[i]) <=> u \in ToSet(fl[i])
    BY <1>1
  <2>3. dh[u] = ch[u] /\ me[u] = le[u]
    BY <1>1
  <2> QED
    BY <2>1, <2>2, <2>3, StaysPlaced
<1>2. ASSUME NEW u \in Things PROVE Placed(u, gl, dh, me, sz, hf)
  BY <1>1
<1> QED
  BY <1>2 DEF Places

(* Without the head t of list i, the lists fl are gl. *)
Popped(fl, ch, le, sz, i, t, gl) ==
  /\ t \in Things /\ ch[t] # NoChunk /\ le[t] = 0 /\ ch[t].id = i /\ ch[t].size = sz[i]
  /\ gl \in [DOMAIN sz -> Seq(Things)]
  /\ \A j \in DOMAIN sz :
       /\ IsInjective(gl[j]) /\ t \notin ToSet(gl[j])
       /\ ToSet(gl[j]) \ {t} = ToSet(fl[j]) \ {t}
       /\ fl[j] = <<>> => gl[j] = <<>>

LEMMA PlacesPop ==
  ASSUME NEW fl, NEW ch, NEW le, NEW sz, NEW hf, Places(fl, ch, le, sz, hf), Typed(fl, ch, le, sz),
         NEW i \in DOMAIN sz, fl[i] # <<>>,
         NEW t, NEW gl, t = Head(fl[i]), gl = [fl EXCEPT ![i] = Tail(fl[i])]
  PROVE  Popped(fl, ch, le, sz, i, t, gl)
<1>1. PICK r : r = Tail(fl[i]) /\ gl = [fl EXCEPT ![i] = r]
  OBVIOUS
<1>2. fl[i] \in Seq(Things) /\ IsInjective(fl[i])
  BY DEF Typed, Places
<1>3. t \in Things /\ t \in ToSet(fl[i]) /\ r \in Seq(Things) /\ IsInjective(r)
      /\ ToSet(r) = ToSet(fl[i]) \ {t}
  BY <1>1, <1>2, PopIs
<1>4. Placed(t, fl, ch, le, sz, hf)
  BY <1>3 DEF Places
<1>5. ch[t] # NoChunk /\ le[t] = 0 /\ ch[t].id = i /\ ch[t].size = sz[i]
  BY <1>3, <1>4 DEF Placed
<1>6. gl \in [DOMAIN sz -> Seq(Things)] /\ gl[i] = r /\ \A j \in DOMAIN sz : j # i => gl[j] = fl[j]
  BY <1>1, <1>3, ListPut
<1>7. ASSUME NEW j \in DOMAIN sz
      PROVE  /\ IsInjective(gl[j]) /\ t \notin ToSet(gl[j])
             /\ ToSet(gl[j]) \ {t} = ToSet(fl[j]) \ {t}
             /\ fl[j] = <<>> => gl[j] = <<>>
  <2>1. CASE j = i
    BY <2>1, <1>3, <1>6
  <2>2. CASE j # i
    <3>1. gl[j] = fl[j]
      BY <2>2, <1>6
    <3>2. t \notin ToSet(fl[j])
      BY <2>2, <1>4, <1>5 DEF Placed
    <3>3. IsInjective(fl[j])
      BY DEF Places
    <3> QED
      BY <3>1, <3>2, <3>3
  <2> QED
    BY <2>1, <2>2
<1> QED
  BY <1>3, <1>5, <1>6, <1>7 DEF Popped

(* A chunk of a list is handed out. *)
LEMMA PlacesLend ==
  ASSUME NEW fl, NEW ch, NEW le, NEW sz, NEW hf, Places(fl, ch, le, sz, hf), Typed(fl, ch, le, sz),
         NEW i \in DOMAIN sz, fl[i] # <<>>, NEW v \in Chunks, v.id = i, v.size = sz[i],
         NEW t, t = Head(fl[i])
  PROVE  Places([fl EXCEPT ![i] = Tail(fl[i])], [ch EXCEPT ![t] = v], [le EXCEPT ![t] = 1], sz, hf)
<1>1. PICK gl, dh, me : /\ gl = [fl EXCEPT ![i] = Tail(fl[i])]
                        /\ dh = [ch EXCEPT ![t] = v] /\ me = [le EXCEPT ![t] = 1]
  OBVIOUS
<1>2. /\ t \in Things
      /\ \A j \in DOMAIN sz : /\ IsInjective(gl[j]) /\ t \notin ToSet(gl[j])
                              /\ ToSet(gl[j]) \ {t} = ToSet(fl[j]) \ {t}
  <2>1. Popped(fl, ch, le, sz, i, t, gl)
    BY <1>1, PlacesPop
  <2> QED
    BY <2>1 DEF Popped
<1>3. /\ dh[t] = v /\ me[t] = 1 /\ \A u \in Things \ {t} : dh[u] = ch[u] /\ me[u] = le[u]
  <2>1. ch \in ChunkMaps /\ le \in LentMaps
    BY DEF Typed
  <2>2. dh[t] = v /\ \A u \in Things \ {t} : dh[u] = ch[u]
    BY <2>1, <1>1, <1>2, MapPut
  <2>3. me[t] = 1 /\ \A u \in Things \ {t} : me[u] = le[u]
    BY <2>1, <1>1, <1>2, LentPut
  <2> QED
    BY <2>2, <2>3
<1>4. Placed(t, gl, dh, me, sz, hf)
  BY <1>2, <1>3, NoChunkIsNone DEF Placed
<1>5. Places(gl, dh, me, sz, hf)
  BY <1>2, <1>3, <1>4, PlacesChange
<1> QED
  BY <1>1, <1>5

(* A new chunk is handed out, of a class or split off. *)
LEMMA PlacesNew ==
  ASSUME NEW fl, NEW ch, NEW le, NEW sz, NEW hf, Places(fl, ch, le, sz, hf), Typed(fl, ch, le, sz),
         NEW t \in Things, ch[t] = NoChunk, NEW v \in Chunks,
         (v.id \in DOMAIN sz /\ v.size = sz[v.id]) \/ v.id = SL!FAST_SLAB_SPLIT_ID
  PROVE  Places(fl, [ch EXCEPT ![t] = v], [le EXCEPT ![t] = 1], sz, hf)
<1>1. PICK dh, me : dh = [ch EXCEPT ![t] = v] /\ me = [le EXCEPT ![t] = 1]
  OBVIOUS
<1>2. Placed(t, fl, ch, le, sz, hf)
  BY DEF Places
<1>3. /\ dh[t] = v /\ me[t] = 1 /\ \A u \in Things \ {t} : dh[u] = ch[u] /\ me[u] = le[u]
  <2>1. ch \in ChunkMaps /\ le \in LentMaps
    BY DEF Typed
  <2>2. dh[t] = v /\ \A u \in Things \ {t} : dh[u] = ch[u]
    BY <2>1, <1>1, MapPut
  <2>3. me[t] = 1 /\ \A u \in Things \ {t} : me[u] = le[u]
    BY <2>1, <1>1, LentPut
  <2> QED
    BY <2>2, <2>3
<1>4. \A j \in DOMAIN sz : t \notin ToSet(fl[j])
  BY <1>2 DEF Placed
<1>5. Placed(t, fl, dh, me, sz, hf)
  <2>1. v.id \in DOMAIN sz => v.size = sz[v.id]
    BY DEF Typed
  <2>2. v.id \in DOMAIN sz \cup {SL!FAST_SLAB_SPLIT_ID}
    OBVIOUS
  <2> QED
    BY <2>1, <2>2, <1>3, <1>4, NoChunkIsNone DEF Placed
<1>6. \A j \in DOMAIN sz : IsInjective(fl[j])
  BY DEF Places
<1>7. Places(fl, dh, me, sz, hf)
  BY <1>3, <1>5, <1>6, PlacesChange
<1> QED
  BY <1>1, <1>7

(* A chunk of a list is given back. *)
LEMMA PlacesBack ==
  ASSUME NEW fl, NEW ch, NEW le, NEW sz, NEW hf, Places(fl, ch, le, sz, hf), Typed(fl, ch, le, sz),
         NEW i \in DOMAIN sz, fl[i] # <<>>, NEW t, t = Head(fl[i])
  PROVE  Places([fl EXCEPT ![i] = Tail(fl[i])], [ch EXCEPT ![t] = NoChunk], le, sz, hf)
<1>1. PICK gl, dh : gl = [fl EXCEPT ![i] = Tail(fl[i])] /\ dh = [ch EXCEPT ![t] = NoChunk]
  OBVIOUS
<1>2. /\ t \in Things /\ le[t] = 0
      /\ \A j \in DOMAIN sz : /\ IsInjective(gl[j]) /\ t \notin ToSet(gl[j])
                              /\ ToSet(gl[j]) \ {t} = ToSet(fl[j]) \ {t}
  <2>1. Popped(fl, ch, le, sz, i, t, gl)
    BY <1>1, PlacesPop
  <2> QED
    BY <2>1 DEF Popped
<1>3. /\ dh[t] = NoChunk /\ \A u \in Things \ {t} : dh[u] = ch[u]
  <2>1. ch \in ChunkMaps /\ t \in Things
    BY <1>2 DEF Typed
  <2> QED
    BY <2>1, <1>1, MapTake
<1>4. Placed(t, gl, dh, le, sz, hf)
  BY <1>2, <1>3 DEF Placed
<1>5. Places(gl, dh, le, sz, hf)
  BY <1>2, <1>3, <1>4, PlacesChange
<1> QED
  BY <1>1, <1>5

(* A split chunk is freed. *)
LEMMA PlacesSplitFreed ==
  ASSUME NEW fl, NEW ch, NEW le, NEW sz, NEW hf, Places(fl, ch, le, sz, hf), Typed(fl, ch, le, sz),
         NEW t \in Things, le[t] # 0
  PROVE  Places(fl, [ch EXCEPT ![t] = NoChunk], [le EXCEPT ![t] = 0], sz, hf)
<1>1. PICK dh, me : dh = [ch EXCEPT ![t] = NoChunk] /\ me = [le EXCEPT ![t] = 0]
  OBVIOUS
<1>2. Placed(t, fl, ch, le, sz, hf)
  BY DEF Places
<1>3. /\ dh[t] = NoChunk /\ me[t] = 0 /\ \A u \in Things \ {t} : dh[u] = ch[u] /\ me[u] = le[u]
  <2>1. ch \in ChunkMaps /\ le \in LentMaps
    BY DEF Typed
  <2>2. dh[t] = NoChunk /\ \A u \in Things \ {t} : dh[u] = ch[u]
    BY <2>1, <1>1, MapTake
  <2>3. me[t] = 0 /\ \A u \in Things \ {t} : me[u] = le[u]
    BY <2>1, <1>1, LentTake
  <2> QED
    BY <2>2, <2>3
<1>4. \A j \in DOMAIN sz : t \notin ToSet(fl[j])
  BY <1>2 DEF Placed
<1>5. Placed(t, fl, dh, me, sz, hf)
  BY <1>3, <1>4 DEF Placed
<1>6. \A j \in DOMAIN sz : IsInjective(fl[j])
  BY DEF Places
<1>7. Places(fl, dh, me, sz, hf)
  BY <1>3, <1>5, <1>6, PlacesChange
<1> QED
  BY <1>1, <1>7

(* A chunk of a class is freed. *)
LEMMA PlacesFreed ==
  ASSUME NEW fl, NEW ch, NEW le, NEW sz, NEW hf, Places(fl, ch, le, sz, hf), Typed(fl, ch, le, sz),
         NEW t \in Things, le[t] # 0, ch[t].id # SL!FAST_SLAB_SPLIT_ID,
         NEW i, i = ch[t].id
  PROVE  /\ i \in DOMAIN sz /\ ch[t].size = sz[i]
         /\ [fl EXCEPT ![i] = <<t>> \o fl[i]] \in [DOMAIN sz -> Seq(Things)]
         /\ Places([fl EXCEPT ![i] = <<t>> \o fl[i]], ch, [le EXCEPT ![t] = 0], sz, hf)
<1>1. PICK r, gl, me : r = <<t>> \o fl[i] /\ gl = [fl EXCEPT ![i] = r] /\ me = [le EXCEPT ![t] = 0]
  OBVIOUS
<1>2. Placed(t, fl, ch, le, sz, hf)
  BY DEF Places
<1>3. i \in DOMAIN sz /\ ch[t] # NoChunk /\ ch[t].size = sz[i]
  BY <1>2 DEF Placed
<1>4. \A j \in DOMAIN sz : t \notin ToSet(fl[j])
  BY <1>2 DEF Placed
<1>5. me[t] = 0 /\ \A u \in Things \ {t} : me[u] = le[u]
  <2>1. le \in LentMaps /\ t \in Things
    BY DEF Typed
  <2>2. [le EXCEPT ![t] = 0][t] = 0 /\ \A u \in Things \ {t} : [le EXCEPT ![t] = 0][u] = le[u]
    BY <2>1, LentTake
  <2> QED
    BY <2>2, <1>1
<1>6. r \in Seq(Things) /\ IsInjective(r) /\ ToSet(r) = ToSet(fl[i]) \cup {t}
  <2>1. fl[i] \in Seq(Things) /\ IsInjective(fl[i])
    BY <1>3 DEF Typed, Places
  <2>2. t \notin ToSet(fl[i])
    BY <1>3, <1>4
  <2> QED
    BY <2>1, <2>2, <1>1, PushIs
<1>7. gl \in [DOMAIN sz -> Seq(Things)] /\ gl[i] = r /\ \A j \in DOMAIN sz : j # i => gl[j] = fl[j]
  BY <1>1, <1>3, <1>6, ListPut
<1>8. ASSUME NEW j \in DOMAIN sz
      PROVE  IsInjective(gl[j]) /\ ToSet(gl[j]) \ {t} = ToSet(fl[j]) \ {t}
  <2>1. CASE j = i
    BY <2>1, <1>6, <1>7
  <2>2. CASE j # i
    BY <2>2, <1>7 DEF Places
  <2> QED
    BY <2>1, <2>2
<1>9. ASSUME NEW j \in DOMAIN sz, t \in ToSet(gl[j]) PROVE j = i
  BY <1>4, <1>7, <1>9
<1>10. Placed(t, gl, ch, me, sz, hf)
  <2>1. t \in ToSet(gl[i])
    BY <1>6, <1>7
  <2> QED
    BY <2>1, <1>3, <1>5, <1>9 DEF Placed
<1>11. Places(gl, ch, me, sz, hf)
  BY <1>5, <1>8, <1>10, PlacesChange
<1> QED
  BY <1>1, <1>3, <1>7, <1>11

(* A chunk is dropped where the allocator cannot free. *)
LEMMA PlacesDropped ==
  ASSUME NEW fl, NEW ch, NEW le, NEW sz, NEW hf, Places(fl, ch, le, sz, hf), Typed(fl, ch, le, sz),
         NEW t \in Things, le[t] # 0, ~ hf
  PROVE  Places(fl, ch, [le EXCEPT ![t] = 0], sz, hf)
<1>1. PICK me : me = [le EXCEPT ![t] = 0]
  OBVIOUS
<1>2. Placed(t, fl, ch, le, sz, hf)
  BY DEF Places
<1>3. me[t] = 0 /\ \A u \in Things \ {t} : me[u] = le[u]
  <2>1. le \in LentMaps
    BY DEF Typed
  <2> QED
    BY <2>1, <1>1, LentTake
<1>4. Placed(t, fl, ch, me, sz, hf)
  BY <1>2, <1>3 DEF Placed
<1>5. \A j \in DOMAIN sz : IsInjective(fl[j])
  BY DEF Places
<1>6. Places(fl, ch, me, sz, hf)
  BY <1>3, <1>4, <1>5, PlacesChange
<1> QED
  BY <1>1, <1>6

-----------------------------------------------------------------------------
(* How the calls count *)

Accounts(ch, le, u, f, k, mi, hf) ==
  /\ u \in Int /\ f \in Int /\ mi \in Int
  /\ SL!Size(u + f) = SL!Size(Tot(ch, GotOf(ch), 0))
  /\ k = SL!Size(Cardinality(GotOf(ch)))
  /\ hf => u = SL!Size(Tot(ch, LentOf(le), 0) + mi)

(* What there is grows by a + b, j things more, and what is lent by a.     *)
Changes(ch, le, mi, dh, me, mj, a, b, j) ==
  /\ Tot(dh, GotOf(dh), 0) = Tot(ch, GotOf(ch), 0) + (a + b)
  /\ Cardinality(GotOf(dh)) = Cardinality(GotOf(ch)) + j
  /\ Tot(dh, LentOf(me), 0) + mj = (Tot(ch, LentOf(le), 0) + mi) + a

(* The memory that all chunks take grows by m. *)
Takes(ch, dh, m) == Tot(dh, GotOf(dh), ChunkLinkSize) = Tot(ch, GotOf(ch), ChunkLinkSize) + m

LEMMA GotIs ==
  ASSUME NEW ch \in ChunkMaps, NEW le \in LentMaps, LentOf(le) \subseteq GotOf(ch)
  PROVE  /\ GotOf(ch) \in SUBSET Things /\ LentOf(le) \in SUBSET Things
         /\ Have(ch, GotOf(ch)) /\ Have(ch, LentOf(le))
         /\ Tot(ch, GotOf(ch), 0) \in Nat /\ Tot(ch, LentOf(le), 0) \in Nat
         /\ Tot(ch, GotOf(ch), ChunkLinkSize) \in Nat
         /\ IsFiniteSet(GotOf(ch)) /\ Cardinality(GotOf(ch)) \in Nat
<1>1. GotOf(ch) \in SUBSET Things /\ LentOf(le) \in SUBSET Things
  BY DEF GotOf, LentOf
<1>2. Have(ch, GotOf(ch))
  BY GotHave
<1>3. Have(ch, LentOf(le))
  BY <1>2 DEF Have
<1>4. 0 \in Nat /\ ChunkLinkSize \in Nat
  BY Parameters
<1>5. Tot(ch, GotOf(ch), 0) \in Nat /\ Tot(ch, GotOf(ch), ChunkLinkSize) \in Nat
  BY <1>1, <1>2, <1>4, TotIs
<1>6. Tot(ch, LentOf(le), 0) \in Nat
  BY <1>1, <1>3, <1>4, TotIs
<1>7. IsFiniteSet(GotOf(ch))
  BY <1>1, ThingsAre, FS_Subset
<1>8. Cardinality(GotOf(ch)) \in Nat
  BY <1>7, FS_CardinalityType
<1> QED
  BY <1>1, <1>2, <1>3, <1>5, <1>6, <1>7, <1>8

LEMMA SizeOfSum ==
  ASSUME NEW x \in Int, NEW a \in Int, NEW u, u = SL!Size(x)
  PROVE  SL!Size(u + a) = SL!Size(x + a)
BY SizeIs

LEMMA AccountsChange ==
  ASSUME NEW ch \in ChunkMaps, NEW le \in LentMaps, LentOf(le) \subseteq GotOf(ch),
         NEW u, NEW f, NEW k, NEW mi, NEW hf, Accounts(ch, le, u, f, k, mi, hf),
         NEW dh, NEW me, NEW mj \in Int, NEW a \in Int, NEW b \in Int, NEW j \in Int,
         Changes(ch, le, mi, dh, me, mj, a, b, j)
  PROVE  Accounts(dh, me, SL!Size(u + a), SL!Size(f + b), SL!Size(k + j), mj, hf)
<1>1. PICK t, c, l : /\ t = Tot(ch, GotOf(ch), 0) /\ c = Cardinality(GotOf(ch))
                     /\ l = Tot(ch, LentOf(le), 0)
  OBVIOUS
<1>2. t \in Int /\ c \in Int /\ l \in Int
  BY <1>1, GotIs
<1>3. u \in Int /\ f \in Int /\ mi \in Int /\ SL!Size(u + f) = SL!Size(t) /\ k = SL!Size(c)
      /\ (hf => u = SL!Size(l + mi))
  BY <1>1 DEF Accounts
<1>4. SL!Size(SL!Size(u + a) + SL!Size(f + b)) = SL!Size(t + (a + b))
  <2>1. u \in Int /\ f \in Int /\ Come(u, f, t)
    BY <1>3 DEF Come
  <2>2. Come(SL!Size(u + a), SL!Size(f + b), t + (a + b))
    BY <2>1, <1>2, SizesAdd
  <2> QED
    BY <2>2 DEF Come
<1>5. SL!Size(k + j) = SL!Size(c + j)
  BY <1>2, <1>3, SizeOfSum
<1>6. hf => SL!Size(u + a) = SL!Size((l + mi) + a)
  <2>1. l + mi \in Int
    BY <1>2, <1>3
  <2> QED
    BY <2>1, <1>3, SizeOfSum
<1>7. SL!Size(u + a) \in Int /\ SL!Size(f + b) \in Int
  <2>1. u + a \in Int /\ f + b \in Int
    BY <1>3
  <2>2. SL!Size(u + a) \in 0 .. SizeMod - 1 /\ SL!Size(f + b) \in 0 .. SizeMod - 1
    BY <2>1, SizeIs
  <2> QED
    BY <2>2, Parameters
<1>8. /\ Tot(dh, GotOf(dh), 0) = t + (a + b) /\ Cardinality(GotOf(dh)) = c + j
      /\ Tot(dh, LentOf(me), 0) + mj = (l + mi) + a
  BY <1>1 DEF Changes
<1> QED
  BY <1>4, <1>5, <1>6, <1>7, <1>8 DEF Accounts

LEMMA ChangesLend ==
  ASSUME NEW ch \in ChunkMaps, NEW le \in LentMaps, LentOf(le) \subseteq GotOf(ch),
         NEW t \in Things, ch[t] # NoChunk, le[t] = 0, NEW v \in Chunks,
         NEW z \in Nat, v.size = z, ch[t].size = z, NEW mi \in Int
  PROVE  LET dh == [ch EXCEPT ![t] = v]
             me == [le EXCEPT ![t] = 1] IN
         Changes(ch, le, mi, dh, me, mi, z, -z, 0) /\ Takes(ch, dh, 0)
<1>1. PICK dh, me : dh = [ch EXCEPT ![t] = v] /\ me = [le EXCEPT ![t] = 1]
  OBVIOUS
<1>2. PICK G, L : G = GotOf(ch) /\ L = LentOf(le)
  OBVIOUS
<1>3. GotOf(dh) = G \cup {t} /\ dh[t] = v /\ \A u \in Things \ {t} : dh[u] = ch[u]
  <2>1. /\ GotOf([ch EXCEPT ![t] = v]) = GotOf(ch) \cup {t}
        /\ [ch EXCEPT ![t] = v][t] = v
        /\ \A u \in Things \ {t} : [ch EXCEPT ![t] = v][u] = ch[u]
    <3>1. ch \in ChunkMaps /\ t \in Things /\ v \in Chunks
      OBVIOUS
    <3> QED
      BY <3>1, MapPut
  <2> QED
    BY <2>1, <1>1, <1>2
<1>4. LentOf(me) = L \cup {t}
  BY <1>1, <1>2, LentPut
<1>5. t \in G /\ t \notin L
  BY <1>2 DEF GotOf, LentOf
<1>6. /\ G \in SUBSET Things /\ L \in SUBSET Things /\ Have(ch, L)
      /\ Tot(ch, G, 0) \in Nat /\ Tot(ch, L, 0) \in Nat /\ Tot(ch, G, ChunkLinkSize) \in Nat
      /\ Cardinality(G) \in Nat
  BY <1>2, GotIs
<1>7. GotOf(dh) = G
  BY <1>3, <1>5
<1>8. \A u \in G : dh[u].size = ch[u].size
  BY <1>3, <1>6
<1>9. Tot(dh, G, 0) = Tot(ch, G, 0) /\ Tot(dh, G, ChunkLinkSize) = Tot(ch, G, ChunkLinkSize)
  BY <1>8, TotSame
<1>10. Tot(dh, L \cup {t}, 0) = Tot(ch, L, 0) + z + 0
  <2>1. dh[t].size = z /\ \A u \in L : dh[u].size = ch[u].size
    BY <1>3, <1>5, <1>6
  <2>2. 0 \in Nat /\ t \in Things \ L /\ dh[t].size \in Nat
    BY <1>5, <2>1
  <2>3. Tot(dh, L \cup {t}, 0) = Tot(ch, L, 0) + dh[t].size + 0
    BY <2>1, <2>2, <1>6, TotGrows
  <2> QED
    BY <2>1, <2>3
<1>11. PICK p, q, r, c : /\ p = Tot(ch, G, 0) /\ q = Tot(ch, L, 0) /\ c = Cardinality(G)
                         /\ r = Tot(ch, G, ChunkLinkSize)
  OBVIOUS
<1>12. p \in Nat /\ q \in Nat /\ c \in Nat /\ r \in Nat
  BY <1>6, <1>11
<1>13. p = p + (z + -z) /\ c = c + 0 /\ (q + z + 0) + mi = (q + mi) + z /\ r = r + 0
  BY <1>12
<1>14. Changes(ch, le, mi, dh, me, mi, z, -z, 0)
  BY <1>2, <1>4, <1>7, <1>9, <1>10, <1>11, <1>13 DEF Changes
<1>15. Takes(ch, dh, 0)
  BY <1>2, <1>7, <1>9, <1>11, <1>13 DEF Takes
<1> QED
  BY <1>1, <1>14, <1>15

LEMMA ChangesNew ==
  ASSUME NEW ch \in ChunkMaps, NEW le \in LentMaps, LentOf(le) \subseteq GotOf(ch),
         NEW t \in Things, ch[t] = NoChunk, NEW v \in Chunks,
         NEW z \in Nat, v.size = z, NEW mi \in Int
  PROVE  LET dh == [ch EXCEPT ![t] = v]
             me == [le EXCEPT ![t] = 1] IN
         Changes(ch, le, mi, dh, me, mi, z, 0, 1) /\ Takes(ch, dh, z + ChunkLinkSize)
<1>1. PICK dh, me : dh = [ch EXCEPT ![t] = v] /\ me = [le EXCEPT ![t] = 1]
  OBVIOUS
<1>2. PICK G, L, h : G = GotOf(ch) /\ L = LentOf(le) /\ h = ChunkLinkSize
  OBVIOUS
<1>3. GotOf(dh) = G \cup {t} /\ dh[t] = v /\ \A u \in Things \ {t} : dh[u] = ch[u]
  <2>1. /\ GotOf([ch EXCEPT ![t] = v]) = GotOf(ch) \cup {t}
        /\ [ch EXCEPT ![t] = v][t] = v
        /\ \A u \in Things \ {t} : [ch EXCEPT ![t] = v][u] = ch[u]
    <3>1. ch \in ChunkMaps /\ t \in Things /\ v \in Chunks
      OBVIOUS
    <3> QED
      BY <3>1, MapPut
  <2> QED
    BY <2>1, <1>1, <1>2
<1>4. LentOf(me) = L \cup {t}
  BY <1>1, <1>2, LentPut
<1>5. t \notin G /\ t \notin L
  BY <1>2 DEF GotOf, LentOf
<1>6. /\ G \in SUBSET Things /\ L \in SUBSET Things /\ Have(ch, L) /\ Have(ch, G)
      /\ Tot(ch, G, 0) \in Nat /\ Tot(ch, L, 0) \in Nat /\ Tot(ch, G, h) \in Nat
      /\ IsFiniteSet(G) /\ Cardinality(G) \in Nat
  BY <1>2, GotIs
<1>7. dh[t].size = z /\ \A u \in G \cup L : dh[u].size = ch[u].size
  BY <1>3, <1>5, <1>6
<1>8. h \in Nat
  BY <1>2, Parameters
<1>9. Tot(dh, G \cup {t}, 0) = Tot(ch, G, 0) + z + 0 /\ Tot(dh, G \cup {t}, h) = Tot(ch, G, h) + z + h
  <2>1. 0 \in Nat /\ t \in Things \ G /\ dh[t].size \in Nat /\ \A u \in G : dh[u].size = ch[u].size
    BY <1>5, <1>7
  <2>2. /\ Tot(dh, G \cup {t}, 0) = Tot(ch, G, 0) + dh[t].size + 0
        /\ Tot(dh, G \cup {t}, h) = Tot(ch, G, h) + dh[t].size + h
    BY <2>1, <1>6, <1>8, TotGrows
  <2> QED
    BY <2>2, <1>7
<1>10. Tot(dh, L \cup {t}, 0) = Tot(ch, L, 0) + z + 0
  <2>1. 0 \in Nat /\ t \in Things \ L /\ dh[t].size \in Nat /\ \A u \in L : dh[u].size = ch[u].size
    BY <1>5, <1>7
  <2>2. Tot(dh, L \cup {t}, 0) = Tot(ch, L, 0) + dh[t].size + 0
    BY <2>1, <1>6, TotGrows
  <2> QED
    BY <2>2, <1>7
<1>11. Cardinality(G \cup {t}) = Cardinality(G) + 1
  BY <1>5, <1>6, FS_AddElement
<1>12. PICK p, q, r, c : /\ p = Tot(ch, G, 0) /\ q = Tot(ch, L, 0) /\ c = Cardinality(G)
                         /\ r = Tot(ch, G, h)
  OBVIOUS
<1>13. p \in Nat /\ q \in Nat /\ c \in Nat /\ r \in Nat
  BY <1>6, <1>12
<1>14. p + z + 0 = p + (z + 0) /\ (q + z + 0) + mi = (q + mi) + z /\ r + z + h = r + (z + h)
  BY <1>8, <1>13
<1>15. Changes(ch, le, mi, dh, me, mi, z, 0, 1)
  BY <1>2, <1>3, <1>4, <1>9, <1>10, <1>11, <1>12, <1>14 DEF Changes
<1>16. Takes(ch, dh, z + ChunkLinkSize)
  BY <1>2, <1>3, <1>9, <1>12, <1>14 DEF Takes
<1> QED
  BY <1>1, <1>15, <1>16

LEMMA ChangesBack ==
  ASSUME NEW ch \in ChunkMaps, NEW le \in LentMaps, LentOf(le) \subseteq GotOf(ch),
         NEW t \in Things, ch[t] # NoChunk, le[t] = 0,
         NEW z, z = ch[t].size, NEW mi \in Int
  PROVE  LET dh == [ch EXCEPT ![t] = NoChunk] IN
         /\ z \in Nat /\ Changes(ch, le, mi, dh, le, mi, 0, -z, -1)
         /\ Takes(ch, dh, -(z + ChunkLinkSize))
<1>1. PICK dh : dh = [ch EXCEPT ![t] = NoChunk]
  OBVIOUS
<1>2. PICK G, L, h : G = GotOf(ch) /\ L = LentOf(le) /\ h = ChunkLinkSize
  OBVIOUS
<1>3. GotOf(dh) = G \ {t} /\ \A u \in Things \ {t} : dh[u] = ch[u]
  <2>1. ch \in ChunkMaps /\ t \in Things
    OBVIOUS
  <2>2. /\ GotOf([ch EXCEPT ![t] = NoChunk]) = GotOf(ch) \ {t}
        /\ \A u \in Things \ {t} : [ch EXCEPT ![t] = NoChunk][u] = ch[u]
    BY <2>1, MapTake
  <2> QED
    BY <2>2, <1>1, <1>2
<1>4. t \in G /\ t \notin L
  BY <1>2 DEF GotOf, LentOf
<1>5. /\ G \in SUBSET Things /\ L \in SUBSET Things /\ Have(ch, L) /\ Have(ch, G)
      /\ Tot(ch, G, 0) \in Nat /\ Tot(ch, L, 0) \in Nat /\ Tot(ch, G, h) \in Nat
      /\ IsFiniteSet(G) /\ Cardinality(G) \in Nat
  BY <1>2, GotIs
<1>6. z \in Nat
  BY <1>4, <1>5 DEF Have
<1>7. (\A u \in G \ {t} : dh[u].size = ch[u].size) /\ (\A u \in L : dh[u].size = ch[u].size)
  BY <1>3, <1>4, <1>5
<1>8. h \in Nat /\ 0 \in Nat
  BY <1>2, Parameters
<1>9. Tot(dh, G \ {t}, 0) = Tot(ch, G, 0) - z - 0 /\ Tot(dh, G \ {t}, h) = Tot(ch, G, h) - z - h
  <2>1. /\ Tot(dh, G \ {t}, 0) = Tot(ch, G, 0) - ch[t].size - 0
        /\ Tot(dh, G \ {t}, h) = Tot(ch, G, h) - ch[t].size - h
    BY <1>4, <1>5, <1>7, <1>8, TotShrinks
  <2> QED
    BY <2>1
<1>10. Tot(dh, L, 0) = Tot(ch, L, 0)
  BY <1>7, TotSame
<1>11. Cardinality(G \ {t}) = Cardinality(G) - 1
  BY <1>4, <1>5, FS_RemoveElement
<1>12. PICK p, q, r, c : /\ p = Tot(ch, G, 0) /\ q = Tot(ch, L, 0) /\ c = Cardinality(G)
                         /\ r = Tot(ch, G, h)
  OBVIOUS
<1>13. p \in Nat /\ q \in Nat /\ c \in Nat /\ r \in Nat
  BY <1>5, <1>12
<1>14. p - z - 0 = p + (0 + -z) /\ q + mi = (q + mi) + 0 /\ r - z - h = r + -(z + h) /\ c - 1 = c + -1
  BY <1>6, <1>8, <1>13
<1>15. Changes(ch, le, mi, dh, le, mi, 0, -z, -1)
  BY <1>2, <1>3, <1>9, <1>10, <1>11, <1>12, <1>14 DEF Changes
<1>16. Takes(ch, dh, -(z + ChunkLinkSize))
  BY <1>2, <1>3, <1>9, <1>12, <1>14 DEF Takes
<1> QED
  BY <1>1, <1>6, <1>15, <1>16

LEMMA ChangesSplitFreed ==
  ASSUME NEW ch \in ChunkMaps, NEW le \in LentMaps, LentOf(le) \subseteq GotOf(ch),
         NEW t \in LentOf(le), NEW z, z = ch[t].size, NEW mi \in Int
  PROVE  LET dh == [ch EXCEPT ![t] = NoChunk]
             me == [le EXCEPT ![t] = 0] IN
         /\ z \in Nat /\ Changes(ch, le, mi, dh, me, mi, -z, 0, -1)
         /\ Takes(ch, dh, -(z + ChunkLinkSize))
<1>1. PICK dh, me : dh = [ch EXCEPT ![t] = NoChunk] /\ me = [le EXCEPT ![t] = 0]
  OBVIOUS
<1>2. PICK G, L, h : G = GotOf(ch) /\ L = LentOf(le) /\ h = ChunkLinkSize
  OBVIOUS
<1>3. t \in Things /\ t \in G /\ t \in L
  BY <1>2 DEF LentOf
<1>4. GotOf(dh) = G \ {t} /\ \A u \in Things \ {t} : dh[u] = ch[u]
  <2>1. ch \in ChunkMaps /\ t \in Things
    BY <1>3
  <2>2. /\ GotOf([ch EXCEPT ![t] = NoChunk]) = GotOf(ch) \ {t}
        /\ \A u \in Things \ {t} : [ch EXCEPT ![t] = NoChunk][u] = ch[u]
    BY <2>1, MapTake
  <2> QED
    BY <2>2, <1>1, <1>2
<1>5. LentOf(me) = L \ {t}
  BY <1>1, <1>2, <1>3, LentTake
<1>6. /\ G \in SUBSET Things /\ L \in SUBSET Things /\ Have(ch, L) /\ Have(ch, G)
      /\ Tot(ch, G, 0) \in Nat /\ Tot(ch, L, 0) \in Nat /\ Tot(ch, G, h) \in Nat
      /\ IsFiniteSet(G) /\ Cardinality(G) \in Nat
  BY <1>2, GotIs
<1>7. z \in Nat
  BY <1>3, <1>6 DEF Have
<1>8. (\A u \in G \ {t} : dh[u].size = ch[u].size) /\ (\A u \in L \ {t} : dh[u].size = ch[u].size)
  BY <1>4, <1>6
<1>9. h \in Nat /\ 0 \in Nat
  BY <1>2, Parameters
<1>10. Tot(dh, G \ {t}, 0) = Tot(ch, G, 0) - z - 0 /\ Tot(dh, G \ {t}, h) = Tot(ch, G, h) - z - h
  <2>1. G \in SUBSET Things /\ Have(ch, G) /\ t \in G /\ 0 \in Nat /\ h \in Nat
        /\ \A u \in G \ {t} : dh[u].size = ch[u].size
    BY <1>3, <1>6, <1>8, <1>9
  <2>2. Tot(dh, G \ {t}, 0) = Tot(ch, G, 0) - ch[t].size - 0
    BY <2>1, TotShrinks
  <2>3. Tot(dh, G \ {t}, h) = Tot(ch, G, h) - ch[t].size - h
    BY <2>1, TotShrinks
  <2> QED
    BY <2>2, <2>3
<1>11. Tot(dh, L \ {t}, 0) = Tot(ch, L, 0) - z - 0
  <2>1. Tot(dh, L \ {t}, 0) = Tot(ch, L, 0) - ch[t].size - 0
    <3>1. L \in SUBSET Things /\ Have(ch, L) /\ t \in L /\ 0 \in Nat
          /\ \A u \in L \ {t} : dh[u].size = ch[u].size
      BY <1>3, <1>6, <1>8, <1>9
    <3> QED
      BY <3>1, TotShrinks
  <2> QED
    BY <2>1
<1>12. Cardinality(G \ {t}) = Cardinality(G) - 1
  BY <1>3, <1>6, FS_RemoveElement
<1>13. PICK p, q, r, c : /\ p = Tot(ch, G, 0) /\ q = Tot(ch, L, 0) /\ c = Cardinality(G)
                         /\ r = Tot(ch, G, h)
  OBVIOUS
<1>14. p \in Nat /\ q \in Nat /\ c \in Nat /\ r \in Nat
  BY <1>6, <1>13
<1>15. /\ p - z - 0 = p + (-z + 0) /\ (q - z - 0) + mi = (q + mi) + -z
       /\ r - z - h = r + -(z + h) /\ c - 1 = c + -1
  BY <1>7, <1>9, <1>14
<1>16. Changes(ch, le, mi, dh, me, mi, -z, 0, -1)
  BY <1>2, <1>4, <1>5, <1>10, <1>11, <1>12, <1>13, <1>15 DEF Changes
<1>17. Takes(ch, dh, -(z + ChunkLinkSize))
  BY <1>2, <1>4, <1>10, <1>13, <1>15 DEF Takes
<1> QED
  BY <1>1, <1>7, <1>16, <1>17

(* Freed, a chunk of a class counts as free, or as missed. *)
LEMMA ChangesFreed ==
  ASSUME NEW ch \in ChunkMaps, NEW le \in LentMaps, LentOf(le) \subseteq GotOf(ch),
         NEW t \in LentOf(le), NEW z, z = ch[t].size, NEW mi \in Int
  PROVE  LET me == [le EXCEPT ![t] = 0] IN
         /\ z \in Nat
         /\ Changes(ch, le, mi, ch, me, mi, -z, z, 0)
         /\ Tot(ch, LentOf(me), 0) + (mi + z) = Tot(ch, LentOf(le), 0) + mi
<1>1. PICK me : me = [le EXCEPT ![t] = 0]
  OBVIOUS
<1>2. PICK G, L : G = GotOf(ch) /\ L = LentOf(le)
  OBVIOUS
<1>3. t \in Things /\ t \in G /\ t \in L
  BY <1>2 DEF LentOf
<1>4. LentOf(me) = L \ {t}
  BY <1>1, <1>2, <1>3, LentTake
<1>5. /\ L \in SUBSET Things /\ Have(ch, L)
      /\ Tot(ch, G, 0) \in Nat /\ Tot(ch, L, 0) \in Nat /\ Cardinality(G) \in Nat
  BY <1>2, GotIs
<1>6. z \in Nat
  BY <1>3, <1>5 DEF Have
<1>7. Tot(ch, L \ {t}, 0) = Tot(ch, L, 0) - z - 0
  <2>1. 0 \in Nat
    OBVIOUS
  <2>2. Tot(ch, L \ {t}, 0) = Tot(ch, L, 0) - ch[t].size - 0
    BY <2>1, <1>3, <1>5, TotShrinks
  <2> QED
    BY <2>2
<1>8. PICK p, q, c : p = Tot(ch, G, 0) /\ q = Tot(ch, L, 0) /\ c = Cardinality(G)
  OBVIOUS
<1>9. p \in Nat /\ q \in Nat /\ c \in Nat
  BY <1>5, <1>8
<1>10. /\ p = p + (-z + z) /\ (q - z - 0) + mi = (q + mi) + -z /\ c = c + 0
       /\ (q - z - 0) + (mi + z) = q + mi
  BY <1>6, <1>9
<1>11. Changes(ch, le, mi, ch, me, mi, -z, z, 0)
  BY <1>2, <1>4, <1>7, <1>8, <1>10 DEF Changes
<1>12. Tot(ch, LentOf(me), 0) + (mi + z) = Tot(ch, LentOf(le), 0) + mi
  BY <1>2, <1>4, <1>7, <1>8, <1>10
<1> QED
  BY <1>1, <1>6, <1>11, <1>12

-----------------------------------------------------------------------------
(* The invariant *)

ClassSizes == [i \in SL!Classes |-> SL!ClassSize(i) - ChunkLinkSize]

Counts == 0 .. SizeMod - 1
Stats == [used_size : Counts, reqs_size : Counts, free_size : Counts, chunk_count : Counts]
Wants == [id : Int, type : {"REQ", "ACT"}, req_size : Nat, todo : {"ask", "recover"}, given : Nat]

SlTypes ==
  /\ allocator_type \in AllocatorTypes /\ uptype \in Uptypes
  /\ taken \in 0 .. Room
  /\ manager \in {"none", "half", "live", "failed"}
  /\ Typed(free_list, chunk, lent, ClassSizes)
  /\ slab_stat \in Stats
  /\ missed \in Nat

(* What is wanted has a class that holds it and whose list is empty: no    *)
(* chunk of it is given back while it is wanted.                           *)
WantFits(w, fl) == w # NoWant =>
  /\ w \in Wants /\ w.id \in SL!Classes
  /\ fl[w.id] = <<>>
  /\ w.req_size + ChunkLinkSize <= SL!ClassSize(w.id)

Serves(ch, le) == \A t \in Things : le[t] # 0 => ch[t].req_size <= ch[t].size

Own(m) == (IF m = "none" THEN 0 ELSE ManagerSize)
          + (IF m = "live" THEN SlabclassSize * SL!free_len ELSE 0)

MemoryTaken(ta, ch, m) == allocator_type = "SHMEM" => ta = Tot(ch, GotOf(ch), ChunkLinkSize) + Own(m)

Accounted(ch, le, stat, mi) ==
  Accounts(ch, le, stat.used_size, stat.free_size, stat.chunk_count, mi, SL!HasFree)

SlInv ==
  /\ SlTypes
  /\ Places(free_list, chunk, lent, ClassSizes, SL!HasFree)
  /\ Accounted(chunk, lent, slab_stat, missed)
  /\ MemoryTaken(taken, chunk, manager)
  /\ WantFits(want, free_list)
  /\ Serves(chunk, lent)

LEMMA ClassesAre ==
  ASSUME uptype \in Uptypes
  PROVE  /\ TypeKnown /\ SL!max_id \in Nat \ {0} /\ SL!free_len = SL!max_id + 1
         /\ SL!Classes = 0 .. SL!max_id /\ DOMAIN ClassSizes = SL!Classes
         /\ \A i \in SL!Classes : /\ i \in Nat /\ SL!ClassSize(i) \in Nat
                                  /\ ClassSizes[i] \in Nat
                                  /\ ClassSizes[i] = SL!ClassSize(i) - ChunkLinkSize
                                  /\ ClassSizes[i] + ChunkLinkSize = SL!ClassSize(i)
         /\ SL!FAST_SLAB_SPLIT_ID \notin DOMAIN ClassSizes
<1>1. TypeKnown
  BY AllocatorsAssumption DEF SL!SlabsAssumption, TypeKnown
<1>2. /\ SL!max_id \in Nat \ {0} /\ SL!free_len = SL!max_id + 1
      /\ SL!Classes = 0 .. SL!max_id
  BY <1>1, FreeLenIs DEF TypeKnown
<1>3. DOMAIN ClassSizes = SL!Classes
  BY DEF ClassSizes
<1>4. ASSUME NEW i \in SL!Classes
      PROVE  /\ i \in Nat /\ SL!ClassSize(i) \in Nat /\ ClassSizes[i] \in Nat
             /\ ClassSizes[i] = SL!ClassSize(i) - ChunkLinkSize
             /\ ClassSizes[i] + ChunkLinkSize = SL!ClassSize(i)
  <2>1. i \in Nat
    BY <1>2
  <2>2. PICK s, h : s = SL!ClassSize(i) /\ h = ChunkLinkSize
    OBVIOUS
  <2>3. s \in Nat /\ h < s /\ h \in Nat
    BY <2>1, <2>2, ClassSizeIs, Parameters
  <2>4. ClassSizes[i] = s - h
    BY <2>2 DEF ClassSizes
  <2>5. s - h \in Nat /\ (s - h) + h = s
    BY <2>3
  <2> QED
    BY <2>1, <2>2, <2>3, <2>4, <2>5
<1>5. SL!FAST_SLAB_SPLIT_ID \notin DOMAIN ClassSizes
  BY <1>2, <1>3 DEF SL!FAST_SLAB_SPLIT_ID
<1> QED
  BY <1>1, <1>2, <1>3, <1>4, <1>5

(* The classes and what the allocator can do stay the same. *)
Same == uptype' = uptype /\ allocator_type' = allocator_type

LEMMA Steady ==
  ASSUME Same
  PROVE  /\ SL!Classes' = SL!Classes /\ SL!free_len' = SL!free_len /\ SL!max_id' = SL!max_id
         /\ SL!HasFree' = SL!HasFree
         /\ ClassSizes' = ClassSizes
         /\ \A i : SL!ClassSize(i)' = SL!ClassSize(i)
<1>1. SL!free_len' = SL!free_len
  BY DEF Same, SL!free_len
<1>2. SL!Classes' = SL!Classes /\ SL!max_id' = SL!max_id
  BY <1>1 DEF SL!Classes, SL!max_id
<1>3. SL!HasFree' = SL!HasFree
  BY DEF Same, SL!HasFree
<1>4. \A i : SL!ClassSize(i)' = SL!ClassSize(i)
  BY DEF Same, SL!ClassSize
<1>5. ClassSizes' = ClassSizes
  BY <1>2, <1>4 DEF ClassSizes
<1> QED
  BY <1>1, <1>2, <1>3, <1>4, <1>5

LEMMA InvAfter ==
  ASSUME SlInv, Same, taken' \in 0 .. Room, manager' \in {"none", "half", "live", "failed"},
         Typed(free_list', chunk', lent', ClassSizes), slab_stat' \in Stats, missed' \in Nat,
         Places(free_list', chunk', lent', ClassSizes, SL!HasFree),
         Accounted(chunk', lent', slab_stat', missed'),
         MemoryTaken(taken', chunk', manager'), WantFits(want', free_list'), Serves(chunk', lent')
  PROVE  SlInv'
<1>1. SlTypes'
  <2>1. Typed(free_list', chunk', lent', ClassSizes')
    BY Steady
  <2>2. (Typed(free_list, chunk, lent, ClassSizes))'
    BY <2>1 DEF Typed
  <2> QED
    BY <2>2 DEF SlInv, SlTypes, Same, Stats, Counts
<1>2. (Places(free_list, chunk, lent, ClassSizes, SL!HasFree))'
  <2>1. Places(free_list', chunk', lent', ClassSizes', SL!HasFree')
    BY Steady
  <2> QED
    BY <2>1 DEF Places, Placed
<1>3. (Accounted(chunk, lent, slab_stat, missed))'
  <2>1. SL!HasFree' = SL!HasFree
    BY Steady
  <2> QED
    BY <2>1 DEF Accounted
<1>4. (MemoryTaken(taken, chunk, manager))'
  <2>1. SL!free_len' = SL!free_len
    BY Steady
  <2> QED
    BY <2>1 DEF MemoryTaken, Own, Same
<1>5. (WantFits(want, free_list))'
  <2>1. SL!Classes' = SL!Classes /\ \A i : SL!ClassSize(i)' = SL!ClassSize(i)
    BY Steady
  <2> QED
    BY <2>1 DEF WantFits
<1>6. (Serves(chunk, lent))'
  BY DEF Serves
<1> QED
  BY <1>1, <1>2, <1>3, <1>4, <1>5, <1>6 DEF SlInv

(* What the allocator takes. *)
LEMMA AllocIs ==
  ASSUME NEW size \in Nat, NEW ok \in BOOLEAN, SlTypes, SL!AllocatorAlloc(size, ok)
  PROVE  /\ taken' \in 0 .. Room
         /\ allocator_type = "SHMEM" => taken' = taken + (IF ok THEN size ELSE 0)
<1>1. allocator_type \in {"SHMEM", "MEMPOOL", "COMMPOOL"}
  BY AllocatorsAssumption DEF SlTypes, SL!SlabsAssumption
<1>2. PICK x, r : x = taken /\ r = Room
  OBVIOUS
<1>3. x \in Nat /\ r \in Nat /\ x <= r
  BY <1>2, Parameters DEF SlTypes
<1>4. CASE allocator_type = "SHMEM"
  <2>1. SL!ShmemAlloc(size, ok)
    BY <1>4 DEF SL!AllocatorAlloc
  <2>2. (ok => x + size <= r) /\ taken' = IF ok THEN x + size ELSE x
    BY <2>1, <1>2 DEF SL!ShmemAlloc
  <2> QED
    BY <2>2, <1>2, <1>3
<1>5. CASE allocator_type = "MEMPOOL"
  <2>1. SL!PoolAlloc(size, ok)
    BY <1>5 DEF SL!AllocatorAlloc
  <2>2. (ok => x + size <= r) /\ taken' = IF ok THEN x + size ELSE x
    BY <2>1, <1>2 DEF SL!PoolAlloc
  <2> QED
    BY <2>2, <1>2, <1>3, <1>5
<1>6. CASE allocator_type = "COMMPOOL"
  <2>1. SL!MpoolAlloc(size, ok)
    BY <1>6 DEF SL!AllocatorAlloc
  <2>2. PICK f : f = AlignTo(x, ALIGN)
    OBVIOUS
  <2>3. f \in Nat
    BY <2>2, <1>3, Parameters, AlignToIs
  <2>4. (ok <=> f + size <= r)
        /\ taken' = IF ok THEN f + size ELSE IF f > r THEN r ELSE f
    BY <2>1, <2>2, <1>2, SameArithmetic DEF SL!MpoolAlloc
  <2> QED
    BY <2>3, <2>4, <1>2, <1>3, <1>6
<1> QED
  BY <1>1, <1>4, <1>5, <1>6

LEMMA CountIs ==
  ASSUME NEW a \in Int, NEW r \in Int, NEW b \in Int, NEW j \in Int, slab_stat \in Stats,
         SL!Count(a, r, b, j)
  PROVE  /\ slab_stat' \in Stats
         /\ slab_stat'.used_size = SL!Size(slab_stat.used_size + a)
         /\ slab_stat'.free_size = SL!Size(slab_stat.free_size + b)
         /\ slab_stat'.chunk_count = SL!Size(slab_stat.chunk_count + j)
<1>1. PICK u, q, f, k : /\ u = slab_stat.used_size /\ q = slab_stat.reqs_size
                        /\ f = slab_stat.free_size /\ k = slab_stat.chunk_count
  OBVIOUS
<1>2. u \in Int /\ q \in Int /\ f \in Int /\ k \in Int
  BY <1>1, Parameters DEF Stats, Counts
<1>3. \A x \in Int : SL!Size(x) \in Counts
  BY SizeIs DEF Counts
<1>4. u + a \in Int /\ q + r \in Int /\ f + b \in Int /\ k + j \in Int
  BY <1>2
<1>5. slab_stat' = [used_size |-> SL!Size(u + a), reqs_size |-> SL!Size(q + r),
                    free_size |-> SL!Size(f + b), chunk_count |-> SL!Size(k + j)]
  BY <1>1 DEF SL!Count
<1>6. /\ SL!Size(u + a) \in Counts /\ SL!Size(q + r) \in Counts
      /\ SL!Size(f + b) \in Counts /\ SL!Size(k + j) \in Counts
  BY <1>3, <1>4
<1> QED
  BY <1>1, <1>5, <1>6 DEF Stats

LEMMA LentAreGot ==
  ASSUME NEW fl, NEW ch, NEW le, NEW sz, NEW hf, Places(fl, ch, le, sz, hf), Typed(fl, ch, le, sz)
  PROVE  /\ ch \in ChunkMaps /\ le \in LentMaps /\ LentOf(le) \subseteq GotOf(ch)
         /\ \A t \in Things : le[t] \in {0, 1} /\ (le[t] > 0 <=> le[t] = 1) /\ (le[t] # 0 <=> le[t] = 1)
<1>1. ch \in ChunkMaps /\ le \in LentMaps
  BY DEF Typed
<1>2. ASSUME NEW t \in Things
      PROVE  le[t] \in {0, 1} /\ (le[t] > 0 <=> le[t] = 1) /\ (le[t] # 0 <=> le[t] = 1)
  <2>1. le[t] \in {0, 1}
    BY <1>1 DEF LentMaps
  <2> QED
    BY <2>1
<1>3. ASSUME NEW t \in LentOf(le) PROVE t \in GotOf(ch)
  <2>1. t \in Things /\ le[t] # 0
    BY <1>2 DEF LentOf
  <2>2. Placed(t, fl, ch, le, sz, hf)
    BY <2>1 DEF Places
  <2> QED
    BY <2>1, <2>2 DEF Placed, GotOf
<1> QED
  BY <1>1, <1>2, <1>3

LEMMA ServesAfter ==
  ASSUME NEW ch, NEW le, Serves(ch, le), NEW dh, NEW me, NEW t,
         \A u \in Things \ {t} : dh[u] = ch[u] /\ me[u] = le[u],
         me[t] # 0 => dh[t].req_size <= dh[t].size
  PROVE  Serves(dh, me)
BY DEF Serves

LEMMA SizeOfZero == SL!Size(0) = 0
<1>1. PICK m : m = SizeMod
  OBVIOUS
<1>2. m \in Nat \ {0} /\ SL!Size(0) = 0 % m
  BY <1>1, Parameters DEF SL!Size
<1>3. 0 % m = 0
  BY <1>2
<1> QED
  BY <1>2, <1>3

LEMMA SlInvInit == SL!Init => SlInv
<1> SUFFICES ASSUME SL!Init PROVE SlInv
  OBVIOUS
<1>1. /\ allocator_type \in AllocatorTypes /\ taken = 0 /\ uptype \in Uptypes /\ manager = "none"
      /\ free_list = [i \in SL!Classes |-> <<>>] /\ chunk = [t \in Things |-> NoChunk]
      /\ slab_stat = [used_size |-> 0, reqs_size |-> 0, free_size |-> 0, chunk_count |-> 0]
      /\ lent = [t \in Things |-> 0] /\ missed = 0 /\ want = NoWant
  BY DEF SL!Init, SL!NewInit
<1>2. DOMAIN ClassSizes = SL!Classes /\ SL!FAST_SLAB_SPLIT_ID \notin DOMAIN ClassSizes
      /\ \A i \in DOMAIN ClassSizes : ClassSizes[i] \in Nat
  BY <1>1, ClassesAre
<1>3. Typed(free_list, chunk, lent, ClassSizes)
  BY <1>1, <1>2 DEF Typed, ChunkMaps, LentMaps
<1>4. GotOf(chunk) = {} /\ LentOf(lent) = {}
  BY <1>1 DEF GotOf, LentOf
<1>5. Places(free_list, chunk, lent, ClassSizes, SL!HasFree)
  <2>1. \A i \in DOMAIN ClassSizes : IsInjective(free_list[i]) /\ ToSet(free_list[i]) = {}
    BY <1>1, <1>2 DEF IsInjective, ToSet
  <2>2. \A t \in Things : chunk[t] = NoChunk /\ lent[t] = 0
    BY <1>1
  <2> QED
    BY <2>1, <2>2 DEF Places, Placed
<1>6. Accounted(chunk, lent, slab_stat, missed)
  <2>1. Tot(chunk, {}, 0) = 0 /\ Cardinality({}) = 0
    BY TotOfNone, FS_EmptySet
  <2>2. slab_stat.used_size = 0 /\ slab_stat.free_size = 0 /\ slab_stat.chunk_count = 0 /\ 0 + 0 = 0
    BY <1>1
  <2>3. /\ Tot(chunk, GotOf(chunk), 0) = 0 /\ Cardinality(GotOf(chunk)) = 0
        /\ Tot(chunk, LentOf(lent), 0) = 0
    BY <2>1, <1>4
  <2>4. PICK u, f, k, p, c, q : /\ u = slab_stat.used_size /\ f = slab_stat.free_size
                                /\ k = slab_stat.chunk_count /\ p = Tot(chunk, GotOf(chunk), 0)
                                /\ c = Cardinality(GotOf(chunk)) /\ q = Tot(chunk, LentOf(lent), 0)
    OBVIOUS
  <2>5. u = 0 /\ f = 0 /\ k = 0 /\ p = 0 /\ c = 0 /\ q = 0 /\ missed = 0
    BY <2>2, <2>3, <2>4, <1>1
  <2>6. u \in Int /\ f \in Int /\ missed \in Int /\ u + f = 0 /\ q + missed = 0
    BY <2>5
  <2>7. /\ SL!Size(u + f) = SL!Size(p) /\ k = SL!Size(c)
        /\ u = SL!Size(q + missed)
    BY <2>5, <2>6, SizeOfZero
  <2> QED
    BY <2>4, <2>6, <2>7 DEF Accounted, Accounts
<1>7. MemoryTaken(taken, chunk, manager)
  <2>1. 0 \in Nat /\ ChunkLinkSize \in Nat
    BY Parameters
  <2>2. Tot(chunk, {}, ChunkLinkSize) = 0
    BY <2>1, TotOfNone
  <2>3. Own(manager) = 0
    BY <1>1 DEF Own
  <2>4. Tot(chunk, GotOf(chunk), ChunkLinkSize) = 0
    BY <2>2, <1>4
  <2>5. taken = 0 /\ 0 = 0 + 0
    BY <1>1
  <2> QED
    BY <2>3, <2>4, <2>5 DEF MemoryTaken
<1>8. SlTypes
  <2>1. taken \in 0 .. Room /\ 0 \in Counts
    BY <1>1, Parameters DEF Counts
  <2> QED
    BY <2>1, <1>1, <1>3 DEF SlTypes, Stats
<1>9. WantFits(want, free_list) /\ Serves(chunk, lent)
  BY <1>1 DEF WantFits, Serves
<1> QED
  BY <1>5, <1>6, <1>7, <1>8, <1>9 DEF SlInv

(* Nothing but what is wanted changes. *)
Quiet == UNCHANGED <<allocator_type, uptype, free_list, chunk, slab_stat, lent, missed>>

LEMMA QuietKeeps ==
  ASSUME SlInv, Quiet, taken' \in 0 .. Room, manager' \in {"none", "half", "live", "failed"},
         MemoryTaken(taken', chunk, manager'), WantFits(want', free_list)
  PROVE  SlInv'
<1>1. /\ free_list' = free_list /\ chunk' = chunk /\ slab_stat' = slab_stat /\ lent' = lent
      /\ missed' = missed /\ Same
  BY DEF Quiet, Same
<1>2. /\ Typed(free_list', chunk', lent', ClassSizes) /\ slab_stat' \in Stats /\ missed' \in Nat
  BY <1>1 DEF SlInv, SlTypes
<1>3. Places(free_list', chunk', lent', ClassSizes, SL!HasFree)
  BY <1>1 DEF SlInv
<1>4. Accounted(chunk', lent', slab_stat', missed')
  BY <1>1 DEF SlInv
<1>5. MemoryTaken(taken', chunk', manager') /\ WantFits(want', free_list')
  BY <1>1
<1>6. Serves(chunk', lent')
  BY <1>1 DEF SlInv
<1> QED
  BY <1>1, <1>2, <1>3, <1>4, <1>5, <1>6, InvAfter

LEMMA QuietInv ==
  ASSUME SlInv, Quiet, taken' = taken, manager' = manager, WantFits(want', free_list)
  PROVE  SlInv'
<1>1. taken' \in 0 .. Room /\ manager' \in {"none", "half", "live", "failed"}
  BY DEF SlInv, SlTypes
<1>2. MemoryTaken(taken', chunk, manager')
  BY DEF SlInv
<1> QED
  BY <1>1, <1>2, QuietKeeps

LEMMA WantKept == ASSUME SlInv, want' = want \/ want' = NoWant PROVE WantFits(want', free_list)
BY DEF SlInv, WantFits

LEMMA OwnIs ==
  ASSUME uptype \in Uptypes
  PROVE  /\ SlabclassSize * SL!free_len \in Nat
         /\ Own("none") = 0 /\ Own("half") = ManagerSize /\ Own("failed") = ManagerSize
         /\ Own("live") = ManagerSize + SlabclassSize * SL!free_len
         /\ \A m : Own(m) \in Nat
<1>1. PICK n, s, g : n = SL!free_len /\ s = SlabclassSize /\ g = ManagerSize
  OBVIOUS
<1>2. n \in Nat /\ s \in Nat /\ g \in Nat
  BY <1>1, Parameters, ClassesAre
<1>3. s * n \in Nat
  BY <1>2
<1>4. PICK x : x = s * n
  OBVIOUS
<1>5. \A m : Own(m) = (IF m = "none" THEN 0 ELSE g) + (IF m = "live" THEN x ELSE 0)
  BY <1>1, <1>4 DEF Own
<1>6. x \in Nat
  BY <1>3, <1>4
<1>7. Own("none") = 0 /\ Own("half") = g /\ Own("failed") = g /\ Own("live") = g + x
  BY <1>2, <1>5, <1>6
<1>8. \A m : Own(m) \in Nat
  BY <1>2, <1>5, <1>6
<1> QED
  BY <1>1, <1>4, <1>6, <1>7, <1>8

LEMMA KeepsCreateManager == SlInv /\ SL!CreateManager => SlInv'
<1> SUFFICES ASSUME SlInv, SL!CreateManager PROVE SlInv'
  OBVIOUS
<1>1. PICK ok \in BOOLEAN : /\ manager = "none" /\ SL!AllocatorAlloc(ManagerSize, ok)
                            /\ manager' = IF ok THEN "half" ELSE "none"
                            /\ UNCHANGED <<allocator_type, uptype, free_list, chunk, slab_stat,
                                           lent, missed, want>>
  BY DEF SL!CreateManager
<1>2. taken' \in 0 .. Room
      /\ (allocator_type = "SHMEM" => taken' = taken + (IF ok THEN ManagerSize ELSE 0))
  BY <1>1, AllocIs, Parameters DEF SlInv
<1>3. MemoryTaken(taken', chunk, manager')
  <2>1. PICK o, p, q : /\ o = Own(manager) /\ p = Own(manager')
                       /\ q = Tot(chunk, GotOf(chunk), ChunkLinkSize)
    OBVIOUS
  <2>2. o = 0 /\ p = IF ok THEN ManagerSize ELSE 0
    <3>1. uptype \in Uptypes
      BY DEF SlInv, SlTypes
    <3> QED
      BY <3>1, <2>1, <1>1, OwnIs
  <2>3. allocator_type = "SHMEM" => taken = q + o
    BY <2>1 DEF SlInv, MemoryTaken
  <2>4. q \in Nat
    BY <2>1, GotIs, LentAreGot DEF SlInv, SlTypes
  <2>5. allocator_type = "SHMEM" => taken' = q + p
    BY <2>2, <2>3, <2>4, <1>2, Parameters
  <2> QED
    BY <2>1, <2>5 DEF MemoryTaken
<1>4. Quiet /\ manager' \in {"none", "half", "live", "failed"}
  BY <1>1 DEF Quiet
<1>5. WantFits(want', free_list)
  BY <1>1, WantKept
<1> QED
  BY <1>2, <1>3, <1>4, <1>5, QuietKeeps

LEMMA KeepsCreateClasses == SlInv /\ SL!CreateClasses => SlInv'
<1> SUFFICES ASSUME SlInv, SL!CreateClasses PROVE SlInv'
  OBVIOUS
<1>0. uptype \in Uptypes /\ SlabclassSize * SL!free_len \in Nat
  BY OwnIs DEF SlInv, SlTypes
<1>1. PICK ok \in BOOLEAN : /\ manager = "half" /\ SL!AllocatorAlloc(SlabclassSize * SL!free_len, ok)
                            /\ manager' = IF ok THEN "live" ELSE "failed"
                            /\ UNCHANGED <<allocator_type, uptype, free_list, chunk, slab_stat,
                                           lent, missed, want>>
  BY DEF SL!CreateClasses
<1>2. PICK s : s = SlabclassSize * SL!free_len
  OBVIOUS
<1>3. taken' \in 0 .. Room
      /\ (allocator_type = "SHMEM" => taken' = taken + (IF ok THEN s ELSE 0))
  BY <1>0, <1>1, <1>2, AllocIs DEF SlInv
<1>4. MemoryTaken(taken', chunk, manager')
  <2>1. PICK o, p, q, g : /\ o = Own(manager) /\ p = Own(manager') /\ g = ManagerSize
                          /\ q = Tot(chunk, GotOf(chunk), ChunkLinkSize)
    OBVIOUS
  <2>2. o = g /\ p = IF ok THEN g + s ELSE g
    BY <2>1, <1>0, <1>1, <1>2, OwnIs
  <2>3. allocator_type = "SHMEM" => taken = q + o
    BY <2>1 DEF SlInv, MemoryTaken
  <2>4. q \in Nat /\ g \in Nat /\ s \in Nat
    BY <2>1, <1>0, <1>2, GotIs, LentAreGot, Parameters DEF SlInv, SlTypes
  <2>5. allocator_type = "SHMEM" => taken' = q + p
    BY <2>2, <2>3, <2>4, <1>3
  <2> QED
    BY <2>1, <2>5 DEF MemoryTaken
<1>5. Quiet /\ manager' \in {"none", "half", "live", "failed"}
  BY <1>1 DEF Quiet
<1>6. WantFits(want', free_list)
  BY <1>1, WantKept
<1> QED
  BY <1>3, <1>4, <1>5, <1>6, QuietKeeps

(* A class that is found holds what was asked for. *)
LEMMA FoundIs ==
  ASSUME SlInv, NEW req_size \in ChunkRequests, NEW id, id = SL!ClsId(req_size), id # SL!INVALID_ID
  PROVE  /\ req_size \in Nat /\ id \in SL!Classes
         /\ req_size + ChunkLinkSize <= SL!ClassSize(id)
<1>1. req_size \in Nat
  BY AllocatorsAssumption DEF SL!SlabsAssumption
<1>2. uptype \in Uptypes
  BY DEF SlInv, SlTypes
<1>3. TypeKnown /\ SL!Classes = 0 .. SL!max_id
  BY <1>2, ClassesAre
<1>4. Holds(id, req_size)
  BY <1>1, <1>3, ClsIdIs
<1>5. id \in SL!Classes /\ SL!ChunkSize(req_size) <= SL!ClassSize(id)
  BY <1>3, <1>4 DEF Holds
<1>6. PICK r, s, c : r = req_size + ChunkLinkSize /\ s = SL!ChunkSize(req_size) /\ c = SL!ClassSize(id)
  OBVIOUS
<1>7. s \in Nat /\ r <= s
  BY <1>1, <1>6, ChunkSizeIs
<1>8. c \in Nat /\ r \in Nat
  BY <1>1, <1>2, <1>5, <1>6, ClassesAre, Parameters
<1>9. r <= c
  BY <1>5, <1>6, <1>7, <1>8
<1> QED
  BY <1>1, <1>5, <1>6, <1>9

LEMMA KeepsAllocAsk ==
  ASSUME NEW type \in {"REQ", "ACT"}, NEW req_size \in ChunkRequests, SlInv, SL!AllocAsk(type, req_size)
  PROVE  SlInv'
<1>1. PICK id : id = SL!ClsId(req_size)
  OBVIOUS
<1>2. /\ id # SL!INVALID_ID /\ free_list[id] = <<>>
      /\ want' = [id |-> id, type |-> type, req_size |-> req_size, todo |-> "ask", given |-> 0]
      /\ UNCHANGED <<allocator_type, taken, uptype, manager, free_list, chunk, slab_stat,
                     lent, missed>>
  BY <1>1 DEF SL!AllocAsk
<1>3. req_size \in Nat /\ id \in SL!Classes /\ req_size + ChunkLinkSize <= SL!ClassSize(id)
  BY <1>1, <1>2, FoundIs
<1>4. id \in Int
  <2>1. uptype \in Uptypes
    BY DEF SlInv, SlTypes
  <2> QED
    BY <2>1, <1>3, ClassesAre
<1>5. want' \in Wants /\ want'.id = id /\ want'.req_size = req_size
  BY <1>2, <1>3, <1>4 DEF Wants
<1>6. WantFits(want', free_list)
  BY <1>2, <1>3, <1>5 DEF WantFits
<1>7. Quiet
  BY <1>2 DEF Quiet
<1> QED
  BY <1>2, <1>6, <1>7, QuietInv

(* What is wanted stays the same but for how far the call is. *)
SameWant(w) == w \in Wants /\ want # NoWant /\ w.id = want.id /\ w.req_size = want.req_size /\ w.type = want.type

LEMMA WantIs ==
  ASSUME SlInv, want # NoWant
  PROVE  /\ want \in Wants /\ want.id \in SL!Classes /\ free_list[want.id] = <<>>
         /\ want.req_size \in Nat /\ want.type \in {"REQ", "ACT"} /\ want.given \in Nat
         /\ want.req_size + ChunkLinkSize <= SL!ClassSize(want.id)
         /\ \A x \in {"ask", "recover"}, y \in Nat :
              SameWant([want EXCEPT !.todo = x, !.given = y])
         /\ \A x \in {"ask", "recover"} : SameWant([want EXCEPT !.todo = x])
         /\ \A y \in Nat : SameWant([want EXCEPT !.given = y])
<1>1. want \in Wants /\ want.id \in SL!Classes /\ free_list[want.id] = <<>>
      /\ want.req_size + ChunkLinkSize <= SL!ClassSize(want.id)
  BY DEF SlInv, WantFits
<1>2. PICK i, t, r, d, g : want = [id |-> i, type |-> t, req_size |-> r, todo |-> d, given |-> g]
                           /\ i \in Int /\ t \in {"REQ", "ACT"} /\ r \in Nat
                           /\ d \in {"ask", "recover"} /\ g \in Nat
  BY <1>1 DEF Wants
<1>3. ASSUME NEW x \in {"ask", "recover"}, NEW y \in Nat
      PROVE  SameWant([want EXCEPT !.todo = x, !.given = y])
  <2>1. [want EXCEPT !.todo = x, !.given = y]
        = [id |-> i, type |-> t, req_size |-> r, todo |-> x, given |-> y]
    <3>1. want = [id |-> i, type |-> t, req_size |-> r, todo |-> d, given |-> g]
      BY <1>2
    <3>2. PICK v : v = [want EXCEPT !.todo = x]
      OBVIOUS
    <3>3. v = [id |-> i, type |-> t, req_size |-> r, todo |-> x, given |-> g]
      BY <3>1, <3>2
    <3>4. [want EXCEPT !.todo = x, !.given = y] = [v EXCEPT !.given = y]
      BY <3>1, <3>2
    <3>5. [v EXCEPT !.given = y] = [id |-> i, type |-> t, req_size |-> r, todo |-> x, given |-> y]
      BY <3>3
    <3> QED
      BY <3>4, <3>5
  <2> QED
    BY <2>1, <1>2 DEF SameWant, Wants
<1>4. ASSUME NEW x \in {"ask", "recover"} PROVE SameWant([want EXCEPT !.todo = x])
  <2>1. [want EXCEPT !.todo = x] = [id |-> i, type |-> t, req_size |-> r, todo |-> x, given |-> g]
    BY <1>2
  <2> QED
    BY <2>1, <1>2 DEF SameWant, Wants
<1>5. ASSUME NEW y \in Nat PROVE SameWant([want EXCEPT !.given = y])
  <2>1. [want EXCEPT !.given = y] = [id |-> i, type |-> t, req_size |-> r, todo |-> d, given |-> y]
    BY <1>2
  <2> QED
    BY <2>1, <1>2 DEF SameWant, Wants
<1>6. want.req_size \in Nat /\ want.type \in {"REQ", "ACT"} /\ want.given \in Nat
  BY <1>2
<1> QED
  BY <1>1, <1>3, <1>4, <1>5, <1>6

LEMMA SameWantFits ==
  ASSUME SlInv, NEW w, SameWant(w), NEW fl, fl[want.id] = <<>>
  PROVE  WantFits(w, fl)
<1>1. want.id \in SL!Classes /\ want.req_size + ChunkLinkSize <= SL!ClassSize(want.id)
  BY WantIs DEF SameWant
<1> QED
  BY <1>1 DEF WantFits, SameWant

LEMMA KeepsAllocRefused == SlInv /\ SL!AllocRefused => SlInv'
<1> SUFFICES ASSUME SlInv, SL!AllocRefused PROVE SlInv'
  OBVIOUS
<1>1. /\ want # NoWant /\ SL!AllocatorAlloc(SL!ClassSize(want.id), FALSE)
      /\ want' = [want EXCEPT !.todo = "recover", !.given = 0]
      /\ UNCHANGED <<allocator_type, uptype, manager, free_list, chunk, slab_stat, lent, missed>>
  BY DEF SL!AllocRefused
<1>2. SameWant(want') /\ want.id \in SL!Classes /\ free_list[want.id] = <<>>
  BY <1>1, WantIs
<1>3. WantFits(want', free_list)
  BY <1>2, SameWantFits
<1>4. SL!ClassSize(want.id) \in Nat
  <2>1. uptype \in Uptypes
    BY DEF SlInv, SlTypes
  <2> QED
    BY <2>1, <1>2, ClassesAre
<1>5. taken' \in 0 .. Room /\ (allocator_type = "SHMEM" => taken' = taken + 0)
  <2>1. FALSE \in BOOLEAN
    OBVIOUS
  <2> QED
    BY <2>1, <1>1, <1>4, AllocIs DEF SlInv
<1>6. MemoryTaken(taken', chunk, manager')
  <2>1. taken \in Int
    BY Parameters DEF SlInv, SlTypes
  <2>2. allocator_type = "SHMEM" => taken' = taken
    BY <2>1, <1>5
  <2> QED
    BY <2>2, <1>1 DEF SlInv, MemoryTaken
<1>7. Quiet /\ manager' \in {"none", "half", "live", "failed"}
  BY <1>1 DEF Quiet, SlInv, SlTypes
<1> QED
  BY <1>3, <1>5, <1>6, <1>7, QuietKeeps

(* The steps that change nothing but what is wanted and what is reported. *)
LEMMA KeepsQuiet ==
  ASSUME SlInv, \/ SL!Release
                \/ \E req_size \in ChunkRequests : SL!AllocInvalid(req_size)
                \/ SL!RecoverAll \/ SL!RecoverNoSpace
  PROVE  SlInv'
<1>1. CASE SL!Release
  <2>1. Quiet /\ taken' = taken /\ manager' = manager /\ want' = want
    BY <1>1 DEF SL!Release, Quiet
  <2> QED
    BY <2>1, WantKept, QuietInv
<1>2. ASSUME NEW req_size \in ChunkRequests, SL!AllocInvalid(req_size) PROVE SlInv'
  <2>1. Quiet /\ taken' = taken /\ manager' = manager /\ want' = want
    BY <1>2 DEF SL!AllocInvalid, Quiet
  <2> QED
    BY <2>1, WantKept, QuietInv
<1>3. CASE SL!RecoverAll
  <2>1. /\ Quiet /\ taken' = taken /\ manager' = manager /\ want # NoWant
        /\ want' = [want EXCEPT !.todo = "ask", !.given = 0]
    BY <1>3 DEF SL!RecoverAll, Quiet
  <2>2. SameWant(want') /\ free_list[want.id] = <<>>
    BY <2>1, WantIs
  <2>3. WantFits(want', free_list)
    BY <2>2, SameWantFits
  <2> QED
    BY <2>1, <2>3, QuietInv
<1>4. CASE SL!RecoverNoSpace
  <2>1. Quiet /\ taken' = taken /\ manager' = manager /\ want' = NoWant
    BY <1>4 DEF SL!RecoverNoSpace, Quiet
  <2> QED
    BY <2>1, WantKept, QuietInv
<1> QED
  BY <1>1, <1>2, <1>3, <1>4

LEMMA SplitIs ==
  ASSUME SlTypes, NEW minsize, NEW size \in Nat, NEW ok \in BOOLEAN,
         SL!AllocatorSplitAlloc(minsize, size, ok)
  PROVE  taken' \in 0 .. Room /\ taken' = taken + (IF ok THEN size ELSE 0)
<1>1. PICK x, r : x = taken /\ r = Room
  OBVIOUS
<1>2. x \in Nat /\ r \in Nat /\ x <= r
  BY <1>1, Parameters DEF SlTypes
<1>3. (ok => x + size <= r) /\ taken' = IF ok THEN x + size ELSE x
  BY <1>1 DEF SL!AllocatorSplitAlloc, SL!ShmemAlloc
<1> QED
  BY <1>1, <1>2, <1>3

LEMMA KeepsSplitRefused ==
  ASSUME NEW req_size, NEW req_minsize, SlInv, SL!SplitRefused(req_size, req_minsize)
  PROVE  SlInv'
<1>1. /\ (SL!HasSplitAlloc => SL!AllocatorSplitAlloc(SL!ChunkSize(req_minsize), 0, FALSE))
      /\ (~ SL!HasSplitAlloc => taken' = taken)
      /\ UNCHANGED <<allocator_type, uptype, manager, free_list, chunk, slab_stat,
                     lent, missed, want>>
  BY DEF SL!SplitRefused
<1>2. taken' = taken
  <2>1. CASE SL!HasSplitAlloc
    <3>1. 0 \in Nat /\ FALSE \in BOOLEAN
      OBVIOUS
    <3>2. taken' = taken + 0
      BY <3>1, <2>1, <1>1, SplitIs DEF SlInv
    <3> QED
      BY <3>2, Parameters DEF SlInv, SlTypes
  <2> QED
    BY <2>1, <1>1
<1>3. Quiet /\ manager' = manager /\ want' = want
  BY <1>1 DEF Quiet
<1> QED
  BY <1>2, <1>3, WantKept, QuietInv

(* What a call counts keeps the accounts true. *)
LEMMA AccountedAfter ==
  ASSUME SlInv, NEW dh, NEW me, NEW mj \in Int, NEW a \in Int, NEW r \in Int, NEW b \in Int, NEW j \in Int,
         Changes(chunk, lent, missed, dh, me, mj, a, b, j), SL!Count(a, r, b, j)
  PROVE  slab_stat' \in Stats /\ Accounted(dh, me, slab_stat', mj)
<1>1. slab_stat \in Stats
  BY DEF SlInv, SlTypes
<1>2. PICK u, f, k : u = slab_stat.used_size /\ f = slab_stat.free_size /\ k = slab_stat.chunk_count
  OBVIOUS
<1>3. /\ slab_stat' \in Stats
      /\ slab_stat'.used_size = SL!Size(u + a) /\ slab_stat'.free_size = SL!Size(f + b)
      /\ slab_stat'.chunk_count = SL!Size(k + j)
  BY <1>1, <1>2, CountIs
<1>4. chunk \in ChunkMaps /\ lent \in LentMaps /\ LentOf(lent) \subseteq GotOf(chunk)
  BY LentAreGot DEF SlInv, SlTypes
<1>5. Accounts(chunk, lent, u, f, k, missed, SL!HasFree)
  BY <1>2 DEF SlInv, Accounted
<1>6. Accounts(dh, me, SL!Size(u + a), SL!Size(f + b), SL!Size(k + j), mj, SL!HasFree)
  BY <1>4, <1>5, AccountsChange
<1> QED
  BY <1>3, <1>6 DEF Accounted

LEMMA MemoryAfter ==
  ASSUME SlInv, NEW dh, NEW m \in Int, Takes(chunk, dh, m), NEW ta,
         allocator_type = "SHMEM" => ta = taken + m
  PROVE  MemoryTaken(ta, dh, manager)
<1>1. PICK o, p, q : /\ o = Own(manager) /\ p = Tot(chunk, GotOf(chunk), ChunkLinkSize)
                     /\ q = Tot(dh, GotOf(dh), ChunkLinkSize)
  OBVIOUS
<1>2. o \in Nat
  BY <1>1, OwnIs DEF SlInv, SlTypes
<1>3. p \in Nat
  BY <1>1, GotIs, LentAreGot DEF SlInv, SlTypes
<1>4. q = p + m
  BY <1>1 DEF Takes
<1>5. allocator_type = "SHMEM" => taken = p + o
  BY <1>1 DEF SlInv, MemoryTaken
<1>6. allocator_type = "SHMEM" => ta = q + o
  BY <1>2, <1>3, <1>4, <1>5
<1> QED
  BY <1>1, <1>6 DEF MemoryTaken

(* No more is given back than was taken. *)
LEMMA GivenBack ==
  ASSUME SlInv, NEW dh \in ChunkMaps, NEW m \in Nat, Takes(chunk, dh, -m), SL!AllocatorFree(m)
  PROVE  /\ taken' \in 0 .. Room
         /\ allocator_type = "SHMEM" => taken' = taken + -m
<1>1. PICK o, p, q, x, r : /\ o = Own(manager) /\ p = Tot(chunk, GotOf(chunk), ChunkLinkSize)
                           /\ q = Tot(dh, GotOf(dh), ChunkLinkSize) /\ x = taken /\ r = Room
  OBVIOUS
<1>2. o \in Nat
  BY <1>1, OwnIs DEF SlInv, SlTypes
<1>3. p \in Nat
  BY <1>1, GotIs, LentAreGot DEF SlInv, SlTypes
<1>4. q \in Nat
  <2>1. GotOf(dh) \in SUBSET Things /\ Have(dh, GotOf(dh)) /\ ChunkLinkSize \in Nat
    BY GotHave, Parameters DEF GotOf
  <2> QED
    BY <2>1, <1>1, TotIs
<1>5. q = p + -m
  BY <1>1 DEF Takes
<1>6. x \in Nat /\ r \in Nat /\ x <= r
  BY <1>1, Parameters DEF SlInv, SlTypes
<1>7. taken' = IF allocator_type = "SHMEM" THEN x - m ELSE x
  BY <1>1 DEF SL!AllocatorFree
<1>8. CASE allocator_type = "SHMEM"
  <2>1. x = p + o
    BY <1>1, <1>8 DEF SlInv, MemoryTaken
  <2>2. x - m = q + o /\ x - m = x + -m /\ q + o <= r
    BY <2>1, <1>2, <1>3, <1>4, <1>5, <1>6
  <2>3. taken' = q + o /\ taken' = x + -m
    BY <2>2, <1>7, <1>8
  <2>4. q + o \in 0 .. r
    BY <2>2, <1>2, <1>4, <1>6
  <2> QED
    BY <2>3, <2>4, <1>1
<1>9. CASE allocator_type # "SHMEM"
  BY <1>1, <1>6, <1>7, <1>9
<1> QED
  BY <1>8, <1>9

(* What is handed out is a chunk of the class that holds what was asked.   *)
LEMMA HandOutIs ==
  ASSUME SlInv, NEW t \in Things, lent[t] = 0, NEW id \in SL!Classes, NEW type, NEW req_size \in Nat,
         req_size + ChunkLinkSize <= SL!ClassSize(id), NEW listed, NEW new,
         SL!HandOut(t, id, type, req_size, listed, new)
  PROVE  \E v \in Chunks :
           /\ v.id = id /\ v.size = ClassSizes[id] /\ v.req_size <= v.size
           /\ chunk' = [chunk EXCEPT ![t] = v] /\ lent' = [lent EXCEPT ![t] = 1]
           /\ SL!Count(ClassSizes[id], v.req_size, listed, new)
<1>1. PICK z, h, c : z = ClassSizes[id] /\ h = ChunkLinkSize /\ c = SL!ClassSize(id)
  OBVIOUS
<1>2. uptype \in Uptypes
  BY DEF SlInv, SlTypes
<1>3. id \in Nat /\ z \in Nat /\ z = c - h /\ z + h = c
  BY <1>1, <1>2, ClassesAre
<1>4. h \in Nat
  BY <1>1, Parameters
<1>5. req_size <= z
  BY <1>1, <1>3, <1>4
<1>6. PICK r : r = IF type = "ACT" THEN z ELSE req_size
  OBVIOUS
<1>7. r \in Nat /\ r <= z
  BY <1>3, <1>5, <1>6
<1>8. PICK v : v = [size |-> z, req_size |-> r, id |-> id]
  OBVIOUS
<1>9. v \in Chunks /\ v.id = id /\ v.size = z /\ v.req_size = r
  BY <1>3, <1>7, <1>8 DEF Chunks
<1>10. /\ chunk' = [chunk EXCEPT ![t] = v] /\ SL!Count(z, r, listed, new)
       /\ lent' = [lent EXCEPT ![t] = lent[t] + 1]
  BY <1>1, <1>3, <1>6, <1>8 DEF SL!HandOut
<1>11. lent' = [lent EXCEPT ![t] = 1]
  BY <1>10
<1> QED
  BY <1>1, <1>7, <1>9, <1>10, <1>11

LEMMA KeepsAllocListed ==
  ASSUME NEW type, NEW req_size \in ChunkRequests, SlInv, SL!AllocListed(type, req_size)
  PROVE  SlInv'
<1>1. PICK id, t : id = SL!ClsId(req_size) /\ t = Head(free_list[id])
  OBVIOUS
<1>2. PICK gl : gl = [free_list EXCEPT ![id] = Tail(free_list[id])]
  OBVIOUS
<1>3. /\ id # SL!INVALID_ID /\ free_list[id] # <<>> /\ free_list' = gl
      /\ SL!HandOut(t, id, type, req_size, -(SL!ClassSize(id) - ChunkLinkSize), 0)
      /\ UNCHANGED <<allocator_type, taken, uptype, manager, missed, want>>
  BY <1>1, <1>2 DEF SL!AllocListed
<1>4. req_size \in Nat /\ id \in SL!Classes /\ req_size + ChunkLinkSize <= SL!ClassSize(id)
  BY <1>1, <1>3, FoundIs
<1>5. /\ Typed(free_list, chunk, lent, ClassSizes)
      /\ Places(free_list, chunk, lent, ClassSizes, SL!HasFree)
      /\ uptype \in Uptypes
  BY DEF SlInv, SlTypes
<1>6. PICK z : z = ClassSizes[id]
  OBVIOUS
<1>7. id \in DOMAIN ClassSizes /\ z \in Nat /\ z = SL!ClassSize(id) - ChunkLinkSize
  BY <1>4, <1>5, <1>6, ClassesAre
<1>8. Popped(free_list, chunk, lent, ClassSizes, id, t, gl)
  BY <1>1, <1>2, <1>3, <1>5, <1>7, PlacesPop
<1>9. t \in Things /\ chunk[t] # NoChunk /\ lent[t] = 0 /\ chunk[t].size = z
      /\ gl \in [DOMAIN ClassSizes -> Seq(Things)]
      /\ \A j \in DOMAIN ClassSizes : free_list[j] = <<>> => gl[j] = <<>>
  BY <1>6, <1>8 DEF Popped
<1>10. SL!HandOut(t, id, type, req_size, -z, 0)
  BY <1>3, <1>7
<1>11. PICK v \in Chunks :
           /\ v.id = id /\ v.size = z /\ v.req_size <= v.size
           /\ chunk' = [chunk EXCEPT ![t] = v] /\ lent' = [lent EXCEPT ![t] = 1]
           /\ SL!Count(z, v.req_size, -z, 0)
  BY <1>4, <1>6, <1>9, <1>10, HandOutIs
<1>12. chunk \in ChunkMaps /\ lent \in LentMaps /\ LentOf(lent) \subseteq GotOf(chunk)
  BY <1>5, LentAreGot
<1>13. PICK dh, me : dh = [chunk EXCEPT ![t] = v] /\ me = [lent EXCEPT ![t] = 1]
  OBVIOUS
<1>14. Typed(gl, dh, me, ClassSizes)
  <2>1. t \in Things /\ v \in Chunks
    BY <1>9
  <2>2. dh \in ChunkMaps
    BY <2>1, <1>12, <1>13, MapPut
  <2>3. me \in LentMaps
    BY <2>1, <1>12, <1>13, LentPut
  <2> QED
    BY <2>2, <2>3, <1>5, <1>9 DEF Typed
<1>15. Places(gl, dh, me, ClassSizes, SL!HasFree)
  BY <1>1, <1>2, <1>3, <1>5, <1>6, <1>7, <1>11, <1>13, PlacesLend
<1>16. Changes(chunk, lent, missed, dh, me, missed, z, -z, 0) /\ Takes(chunk, dh, 0)
  <2>1. missed \in Int
    BY DEF SlInv, SlTypes
  <2> QED
    BY <2>1, <1>7, <1>9, <1>11, <1>12, <1>13, ChangesLend
<1>17. slab_stat' \in Stats /\ Accounted(dh, me, slab_stat', missed)
  <2>1. missed \in Int /\ z \in Int /\ -z \in Int /\ 0 \in Int /\ v.req_size \in Int
    BY <1>7 DEF SlInv, SlTypes, Chunks
  <2> QED
    BY <2>1, <1>11, <1>16, AccountedAfter
<1>18. taken' \in 0 .. Room /\ MemoryTaken(taken', dh, manager)
  <2>1. taken \in Int /\ taken \in 0 .. Room
    BY Parameters DEF SlInv, SlTypes
  <2>2. taken' = taken + 0 /\ 0 \in Int
    BY <2>1, <1>3
  <2>3. MemoryTaken(taken', dh, manager)
    BY <2>2, <1>16, MemoryAfter
  <2> QED
    BY <2>1, <2>3, <1>3
<1>19. WantFits(want, gl)
  <2>1. DOMAIN ClassSizes = SL!Classes
    BY <1>5, ClassesAre
  <2> QED
    BY <2>1, <1>9 DEF SlInv, WantFits
<1>20. Serves(dh, me)
  <2>1. \A u \in Things \ {t} : dh[u] = chunk[u] /\ me[u] = lent[u]
    <3>1. t \in Things /\ v \in Chunks
      BY <1>9
    <3>2. \A u \in Things \ {t} : dh[u] = chunk[u]
      BY <3>1, <1>12, <1>13, MapPut
    <3>3. \A u \in Things \ {t} : me[u] = lent[u]
      BY <3>1, <1>12, <1>13, LentPut
    <3> QED
      BY <3>2, <3>3
  <2>2. dh[t] = v
    BY <1>9, <1>12, <1>13, MapPut
  <2>3. Serves(chunk, lent)
    BY DEF SlInv
  <2> QED
    BY <2>1, <2>2, <2>3, <1>11, ServesAfter
<1>21. Same /\ missed' = missed /\ want' = want /\ manager' = manager
       /\ manager' \in {"none", "half", "live", "failed"} /\ missed' \in Nat
       /\ free_list' = gl /\ chunk' = dh /\ lent' = me
  BY <1>3, <1>11, <1>13 DEF Same, SlInv, SlTypes
<1> QED
  BY <1>14, <1>15, <1>17, <1>18, <1>19, <1>20, <1>21, InvAfter

LEMMA MinIs ==
  ASSUME NEW S \in SUBSET Nat, S # {}
  PROVE  SL!Min(S) \in S
<1>1. PICK m \in S : \A k \in S : m <= k
  BY LeastOf
<1> QED
  BY <1>1 DEF SL!Min

LEMMA MaxIs ==
  ASSUME NEW n \in Nat, NEW S \in SUBSET (0 .. n), S # {}
  PROVE  SL!Max(S) \in S
<1>1. PICK R : R = {n - k : k \in S}
  OBVIOUS
<1>2. R \in SUBSET Nat /\ R # {}
  <2>1. ASSUME NEW k \in S PROVE n - k \in Nat
    <3>1. k \in 0 .. n
      OBVIOUS
    <3> QED
      BY <3>1
  <2> QED
    BY <2>1, <1>1
<1>3. PICK m \in R : \A k \in R : m <= k
  BY <1>2, LeastOf
<1>4. PICK g \in S : m = n - g
  BY <1>1, <1>3
<1>5. ASSUME NEW k \in S PROVE g >= k
  <2>1. m <= n - k
    BY <1>1, <1>3
  <2>2. g \in 0 .. n /\ k \in 0 .. n
    OBVIOUS
  <2> QED
    BY <2>1, <2>2, <1>4
<1> QED
  BY <1>5 DEF SL!Max

(* An unused thing becomes a chunk that is handed out. *)
LEMMA KeepsNew ==
  ASSUME SlInv, NEW t \in Things, chunk[t] = NoChunk, NEW v \in Chunks, NEW z \in Nat, z = v.size,
         (v.id \in SL!Classes /\ z = ClassSizes[v.id]) \/ v.id = SL!FAST_SLAB_SPLIT_ID,
         v.req_size <= z,
         chunk' = [chunk EXCEPT ![t] = v], lent' = [lent EXCEPT ![t] = 1],
         SL!Count(z, v.req_size, 0, 1),
         taken' \in 0 .. Room, allocator_type = "SHMEM" => taken' = taken + (z + ChunkLinkSize),
         UNCHANGED <<allocator_type, uptype, manager, free_list, missed>>,
         want' = want \/ want' = NoWant
  PROVE  SlInv'
<1>1. /\ Typed(free_list, chunk, lent, ClassSizes)
      /\ Places(free_list, chunk, lent, ClassSizes, SL!HasFree)
      /\ uptype \in Uptypes /\ missed \in Int /\ missed' \in Nat
  BY DEF SlInv, SlTypes
<1>2. chunk \in ChunkMaps /\ lent \in LentMaps /\ LentOf(lent) \subseteq GotOf(chunk)
  BY <1>1, LentAreGot
<1>3. PICK dh, me : dh = [chunk EXCEPT ![t] = v] /\ me = [lent EXCEPT ![t] = 1]
  OBVIOUS
<1>0. t \in Things /\ v \in Chunks
  OBVIOUS
<1>4. dh \in ChunkMaps /\ dh[t] = v /\ \A u \in Things \ {t} : dh[u] = chunk[u]
  <2>1. chunk \in ChunkMaps
    BY <1>2
  <2>2. [chunk EXCEPT ![t] = v] \in ChunkMaps
    BY <2>1, <1>0, MapPut
  <2>3. [chunk EXCEPT ![t] = v][t] = v
    BY <2>1, <1>0, MapPut
  <2>4. \A u \in Things \ {t} : [chunk EXCEPT ![t] = v][u] = chunk[u]
    BY <2>1, <1>0, MapPut
  <2> QED
    BY <2>2, <2>3, <2>4, <1>3
<1>5. me \in LentMaps /\ \A u \in Things \ {t} : me[u] = lent[u]
  <2>1. lent \in LentMaps
    BY <1>2
  <2>2. /\ [lent EXCEPT ![t] = 1] \in LentMaps
        /\ \A u \in Things \ {t} : [lent EXCEPT ![t] = 1][u] = lent[u]
    BY <2>1, <1>0, LentPut
  <2> QED
    BY <2>2, <1>3
<1>6. Typed(free_list, dh, me, ClassSizes)
  BY <1>1, <1>4, <1>5 DEF Typed
<1>7. Places(free_list, dh, me, ClassSizes, SL!HasFree)
  <2>1. (v.id \in DOMAIN ClassSizes /\ v.size = ClassSizes[v.id]) \/ v.id = SL!FAST_SLAB_SPLIT_ID
    BY <1>1, ClassesAre
  <2> QED
    BY <2>1, <1>1, <1>3, PlacesNew
<1>8. Changes(chunk, lent, missed, dh, me, missed, z, 0, 1) /\ Takes(chunk, dh, z + ChunkLinkSize)
  BY <1>1, <1>2, <1>3, ChangesNew
<1>9. slab_stat' \in Stats /\ Accounted(dh, me, slab_stat', missed)
  <2>1. z \in Int /\ v.req_size \in Int /\ 0 \in Int /\ 1 \in Int
    BY DEF Chunks
  <2> QED
    BY <2>1, <1>1, <1>8, AccountedAfter
<1>10. MemoryTaken(taken', dh, manager)
  <2>1. z + ChunkLinkSize \in Int
    BY Parameters
  <2> QED
    BY <2>1, <1>8, MemoryAfter
<1>11. WantFits(want', free_list)
  BY WantKept
<1>12. Serves(dh, me)
  <2>1. Serves(chunk, lent) /\ \A u \in Things \ {t} : dh[u] = chunk[u] /\ me[u] = lent[u]
    BY <1>4, <1>5 DEF SlInv
  <2> QED
    BY <2>1, <1>4, ServesAfter
<1>13. /\ Same /\ missed' = missed /\ manager' = manager /\ free_list' = free_list
       /\ manager' \in {"none", "half", "live", "failed"} /\ chunk' = dh /\ lent' = me
  BY <1>3 DEF Same, SlInv, SlTypes
<1> QED
  BY <1>1, <1>6, <1>7, <1>9, <1>10, <1>11, <1>12, <1>13, InvAfter

LEMMA UnusedIs ==
  ASSUME SlInv, SL!Unused # {}
  PROVE  SL!Min(SL!Unused) \in Things /\ chunk[SL!Min(SL!Unused)] = NoChunk
         /\ lent[SL!Min(SL!Unused)] = 0
<1>1. SL!Unused = {t \in Things : chunk[t] = NoChunk}
  BY DEF SL!Unused
<1>2. SL!Unused \in SUBSET Nat
  BY <1>1, ThingsAre
<1>3. SL!Min(SL!Unused) \in SL!Unused
  BY <1>2, MinIs
<1>4. PICK t : t = SL!Min(SL!Unused)
  OBVIOUS
<1>5. t \in Things /\ chunk[t] = NoChunk
  BY <1>1, <1>3, <1>4
<1>6. lent[t] = 0
  <2>1. Placed(t, free_list, chunk, lent, ClassSizes, SL!HasFree)
    BY <1>5 DEF SlInv, Places
  <2> QED
    BY <2>1, <1>5 DEF Placed
<1> QED
  BY <1>4, <1>5, <1>6

LEMMA KeepsAllocGranted == SlInv /\ SL!AllocGranted => SlInv'
<1> SUFFICES ASSUME SlInv, SL!AllocGranted PROVE SlInv'
  OBVIOUS
<1>1. PICK t, id, r : t = SL!Min(SL!Unused) /\ id = want.id /\ r = want.req_size
  OBVIOUS
<1>2. /\ want # NoWant /\ SL!Unused # {} /\ SL!AllocatorAlloc(SL!ClassSize(id), TRUE)
      /\ SL!HandOut(t, id, want.type, r, 0, 1) /\ want' = NoWant
      /\ UNCHANGED <<allocator_type, uptype, manager, free_list, missed>>
  BY <1>1 DEF SL!AllocGranted
<1>3. t \in Things /\ chunk[t] = NoChunk /\ lent[t] = 0
  BY <1>1, <1>2, UnusedIs
<1>4. id \in SL!Classes /\ r \in Nat /\ r + ChunkLinkSize <= SL!ClassSize(id)
  BY <1>1, <1>2, WantIs
<1>5. PICK v \in Chunks : /\ v.id = id /\ v.size = ClassSizes[id] /\ v.req_size <= v.size
                          /\ chunk' = [chunk EXCEPT ![t] = v] /\ lent' = [lent EXCEPT ![t] = 1]
                          /\ SL!Count(ClassSizes[id], v.req_size, 0, 1)
  BY <1>2, <1>3, <1>4, HandOutIs
<1>6. PICK z, c : z = ClassSizes[id] /\ c = SL!ClassSize(id)
  OBVIOUS
<1>7. z \in Nat /\ c \in Nat /\ z + ChunkLinkSize = c
  <2>1. uptype \in Uptypes
    BY DEF SlInv, SlTypes
  <2> QED
    BY <2>1, <1>4, <1>6, ClassesAre
<1>8. taken' \in 0 .. Room /\ (allocator_type = "SHMEM" => taken' = taken + c)
  <2>1. TRUE \in BOOLEAN /\ SlTypes /\ SL!AllocatorAlloc(c, TRUE)
    BY <1>2, <1>6 DEF SlInv
  <2>2. /\ taken' \in 0 .. Room
        /\ (allocator_type = "SHMEM" => taken' = taken + (IF TRUE THEN c ELSE 0))
    BY <2>1, <1>7, AllocIs
  <2> QED
    BY <2>2
<1>9. /\ allocator_type = "SHMEM" => taken' = taken + (z + ChunkLinkSize)
      /\ SL!Count(z, v.req_size, 0, 1) /\ z = v.size /\ v.req_size <= z
      /\ v.id \in SL!Classes /\ z = ClassSizes[v.id]
  BY <1>4, <1>5, <1>6, <1>7, <1>8
<1> QED
  BY <1>2, <1>3, <1>5, <1>7, <1>8, <1>9, KeepsNew

(* A free chunk of another class than the one wanted goes back. *)
LEMMA KeepsGiveBack ==
  ASSUME SlInv, want # NoWant, SameWant(want'), NEW i \in SL!Classes, free_list[i] # <<>>, SL!GiveBack(i),
         UNCHANGED <<allocator_type, uptype, manager, lent, missed>>
  PROVE  SlInv'
<1>1. PICK t, z, c : t = Head(free_list[i]) /\ z = ClassSizes[i] /\ c = SL!ClassSize(i)
  OBVIOUS
<1>2. PICK gl, dh : gl = [free_list EXCEPT ![i] = Tail(free_list[i])] /\ dh = [chunk EXCEPT ![t] = NoChunk]
  OBVIOUS
<1>3. /\ Typed(free_list, chunk, lent, ClassSizes)
      /\ Places(free_list, chunk, lent, ClassSizes, SL!HasFree)
      /\ uptype \in Uptypes /\ missed \in Int /\ missed' \in Nat
  BY DEF SlInv, SlTypes
<1>4. DOMAIN ClassSizes = SL!Classes /\ z \in Nat /\ z = c - ChunkLinkSize /\ z + ChunkLinkSize = c /\ c \in Nat
  BY <1>1, <1>3, ClassesAre
<1>5. /\ SL!AllocatorFree(c) /\ free_list' = gl /\ chunk' = dh
      /\ SL!Count(0, 0, -z, -1)
  BY <1>1, <1>2, <1>4 DEF SL!GiveBack
<1>6. Popped(free_list, chunk, lent, ClassSizes, i, t, gl)
  BY <1>1, <1>2, <1>3, <1>4, PlacesPop
<1>7. t \in Things /\ chunk[t] # NoChunk /\ lent[t] = 0 /\ chunk[t].size = z
      /\ gl \in [DOMAIN ClassSizes -> Seq(Things)]
      /\ \A j \in DOMAIN ClassSizes : free_list[j] = <<>> => gl[j] = <<>>
  BY <1>1, <1>6 DEF Popped
<1>8. chunk \in ChunkMaps /\ lent \in LentMaps /\ LentOf(lent) \subseteq GotOf(chunk)
  BY <1>3, LentAreGot
<1>9. dh \in ChunkMaps /\ \A u \in Things \ {t} : dh[u] = chunk[u]
  <2>1. chunk \in ChunkMaps /\ t \in Things
    BY <1>7, <1>8
  <2>2. /\ [chunk EXCEPT ![t] = NoChunk] \in ChunkMaps
        /\ \A u \in Things \ {t} : [chunk EXCEPT ![t] = NoChunk][u] = chunk[u]
    BY <2>1, MapTake
  <2> QED
    BY <2>2, <1>2
<1>10. Typed(gl, dh, lent, ClassSizes)
  BY <1>3, <1>7, <1>9 DEF Typed
<1>11. Places(gl, dh, lent, ClassSizes, SL!HasFree)
  BY <1>1, <1>2, <1>3, <1>4, PlacesBack
<1>12. Changes(chunk, lent, missed, dh, lent, missed, 0, -z, -1) /\ Takes(chunk, dh, -(z + ChunkLinkSize))
  BY <1>2, <1>3, <1>7, <1>8, ChangesBack
<1>13. slab_stat' \in Stats /\ Accounted(dh, lent, slab_stat', missed)
  <2>1. 0 \in Int /\ -z \in Int /\ -1 \in Int
    BY <1>4
  <2> QED
    BY <2>1, <1>3, <1>5, <1>12, AccountedAfter
<1>14. taken' \in 0 .. Room /\ MemoryTaken(taken', dh, manager)
  <2>1. Takes(chunk, dh, -c) /\ -c \in Int
    BY <1>4, <1>12
  <2>2. taken' \in 0 .. Room /\ (allocator_type = "SHMEM" => taken' = taken + -c)
    BY <2>1, <1>4, <1>5, <1>9, GivenBack
  <2>3. MemoryTaken(taken', dh, manager)
    BY <2>1, <2>2, MemoryAfter
  <2> QED
    BY <2>2, <2>3
<1>15. WantFits(want', gl)
  <2>1. gl[want.id] = <<>>
    BY <1>4, <1>7, WantIs
  <2> QED
    BY <2>1, SameWantFits
<1>16. Serves(dh, lent)
  <2>1. Serves(chunk, lent) /\ \A u \in Things \ {t} : dh[u] = chunk[u]
    BY <1>9 DEF SlInv
  <2>2. lent[t] = 0
    BY <1>7
  <2> QED
    BY <2>1, <2>2 DEF Serves
<1>17. /\ Same /\ missed' = missed /\ manager' = manager /\ lent' = lent
       /\ manager' \in {"none", "half", "live", "failed"}
  BY DEF Same, SlInv, SlTypes
<1> QED
  BY <1>3, <1>5, <1>10, <1>11, <1>13, <1>14, <1>15, <1>16, <1>17, InvAfter

LEMMA ListedIs ==
  ASSUME SlInv, want # NoWant
  PROVE  /\ SL!Larger # {} => SL!Min(SL!Larger) \in SL!Classes /\ free_list[SL!Min(SL!Larger)] # <<>>
         /\ SL!Smaller # {} => SL!Max(SL!Smaller) \in SL!Classes /\ free_list[SL!Max(SL!Smaller)] # <<>>
<1>1. PICK w, n : w = want.id /\ n = SL!max_id
  OBVIOUS
<1>2. n \in Nat /\ SL!Classes = 0 .. n /\ w \in 0 .. n
  <2>1. uptype \in Uptypes
    BY DEF SlInv, SlTypes
  <2> QED
    BY <2>1, <1>1, WantIs, ClassesAre
<1>3. /\ SL!Larger = {i \in w + 1 .. n : free_list[i] # <<>>}
      /\ SL!Smaller = {i \in 0 .. w - 1 : free_list[i] # <<>>}
  BY <1>1 DEF SL!Larger, SL!Smaller, SL!Listed
<1>4. SL!Larger \in SUBSET (0 .. n) /\ SL!Smaller \in SUBSET (0 .. n)
  BY <1>2, <1>3
<1>5. ASSUME SL!Larger # {} PROVE SL!Min(SL!Larger) \in SL!Larger
  <2>1. SL!Larger \in SUBSET Nat
    BY <1>4
  <2> QED
    BY <2>1, <1>5, MinIs
<1>6. ASSUME SL!Smaller # {} PROVE SL!Max(SL!Smaller) \in SL!Smaller
  BY <1>2, <1>4, <1>6, MaxIs
<1> QED
  BY <1>2, <1>3, <1>4, <1>5, <1>6

LEMMA KeepsRecover == SlInv /\ (SL!RecoverLarger \/ SL!RecoverSmaller) => SlInv'
<1>1. ASSUME SlInv, SL!RecoverLarger PROVE SlInv'
  <2>1. /\ want # NoWant /\ SL!Larger # {} /\ SL!GiveBack(SL!Min(SL!Larger))
        /\ want' = [want EXCEPT !.todo = "ask"]
        /\ UNCHANGED <<allocator_type, uptype, manager, lent, missed>>
    BY <1>1 DEF SL!RecoverLarger
  <2>2. SameWant(want')
    BY <1>1, <2>1, WantIs
  <2>3. SL!Min(SL!Larger) \in SL!Classes /\ free_list[SL!Min(SL!Larger)] # <<>>
    BY <1>1, <2>1, ListedIs
  <2> QED
    BY <1>1, <2>1, <2>2, <2>3, KeepsGiveBack
<1>2. ASSUME SlInv, SL!RecoverSmaller PROVE SlInv'
  <2>1. PICK i, g : i = SL!Max(SL!Smaller) /\ g = want.given + SL!ClassSize(i)
    OBVIOUS
  <2>2. /\ want # NoWant /\ SL!Smaller # {} /\ SL!GiveBack(i)
        /\ want' = IF g >= SL!ClassSize(want.id) * SL!FAST_SLAB_RECOVER_FACTOR
                   THEN [want EXCEPT !.todo = "ask", !.given = 0]
                   ELSE [want EXCEPT !.given = g]
        /\ UNCHANGED <<allocator_type, uptype, manager, lent, missed>>
    BY <1>2, <2>1 DEF SL!RecoverSmaller
  <2>3. i \in SL!Classes /\ free_list[i] # <<>>
    BY <1>2, <2>1, <2>2, ListedIs
  <2>4. g \in Nat
    <3>1. want.given \in Nat
      BY <1>2, <2>2, WantIs
    <3>2. uptype \in Uptypes
      BY <1>2 DEF SlInv, SlTypes
    <3>3. SL!ClassSize(i) \in Nat
      BY <3>2, <2>3, ClassesAre
    <3> QED
      BY <3>1, <3>3, <2>1
  <2>5. SameWant([want EXCEPT !.todo = "ask", !.given = 0])
    BY <1>2, <2>2, WantIs
  <2>6. SameWant([want EXCEPT !.given = g])
    BY <1>2, <2>2, <2>4, WantIs
  <2>7. SameWant(want')
    BY <2>2, <2>5, <2>6
  <2> QED
    BY <1>2, <2>2, <2>3, <2>7, KeepsGiveBack
<1> QED
  BY <1>1, <1>2

LEMMA KeepsSplitAlloc ==
  ASSUME NEW req_size \in Nat, NEW req_minsize \in Nat, SlInv, SL!SplitAlloc(req_size, req_minsize)
  PROVE  SlInv'
<1>1. PICK t, h : t = SL!Min(SL!Unused) /\ h = ChunkLinkSize
  OBVIOUS
<1>2. PICK size \in {SL!ChunkSize(req_minsize), SL!ChunkSize(req_size)} :
        /\ SL!Unused # {} /\ SL!AllocatorSplitAlloc(SL!ChunkSize(req_minsize), size, TRUE)
        /\ LET c == [size |-> size - h, id |-> SL!FAST_SLAB_SPLIT_ID,
                     req_size |-> IF req_size >= size - h THEN size - h ELSE req_size]
           IN chunk' = [chunk EXCEPT ![t] = c] /\ SL!Count(c.size, c.req_size, 0, 1)
        /\ lent' = [lent EXCEPT ![t] = lent[t] + 1]
        /\ UNCHANGED <<allocator_type, uptype, manager, free_list, missed, want>>
  BY <1>1 DEF SL!SplitAlloc
<1>3. t \in Things /\ chunk[t] = NoChunk /\ lent[t] = 0
  BY <1>1, <1>2, UnusedIs
<1>4. PICK z : z = size - h
  OBVIOUS
<1>5. size \in Nat /\ h \in Nat /\ z \in Nat /\ z + h = size
  <2>1. ASSUME NEW x \in Nat PROVE SL!ChunkSize(x) \in Nat /\ h <= SL!ChunkSize(x)
    <3>1. PICK s : s = SL!ChunkSize(x)
      OBVIOUS
    <3>2. s \in Nat /\ x + h <= s
      BY <3>1, <1>1, ChunkSizeIs
    <3> QED
      BY <3>1, <3>2, <1>1, Parameters
  <2>2. size \in Nat /\ h <= size
    BY <2>1
  <2> QED
    BY <2>2, <1>1, <1>4, Parameters
<1>6. PICK r : r = IF req_size >= z THEN z ELSE req_size
  OBVIOUS
<1>7. r \in Nat /\ r <= z
  BY <1>5, <1>6
<1>8. PICK v : v = [size |-> z, id |-> SL!FAST_SLAB_SPLIT_ID, req_size |-> r]
  OBVIOUS
<1>9. SL!FAST_SLAB_SPLIT_ID \in Int
  BY DEF SL!FAST_SLAB_SPLIT_ID
<1>10. v \in Chunks /\ v.id = SL!FAST_SLAB_SPLIT_ID /\ v.size = z /\ v.req_size = r
  BY <1>5, <1>7, <1>8, <1>9 DEF Chunks
<1>11. chunk' = [chunk EXCEPT ![t] = v] /\ SL!Count(z, r, 0, 1)
  BY <1>2, <1>4, <1>6, <1>8
<1>12. lent' = [lent EXCEPT ![t] = 1]
  BY <1>2, <1>3
<1>13. taken' \in 0 .. Room /\ taken' = taken + (z + h)
  <2>1. TRUE \in BOOLEAN /\ SlTypes
    BY DEF SlInv
  <2>2. taken' \in 0 .. Room /\ taken' = taken + (IF TRUE THEN size ELSE 0)
    BY <2>1, <1>2, <1>5, SplitIs
  <2> QED
    BY <2>2, <1>5
<1>14. /\ allocator_type = "SHMEM" => taken' = taken + (z + ChunkLinkSize)
       /\ SL!Count(z, v.req_size, 0, 1) /\ z = v.size /\ v.req_size <= z
  BY <1>1, <1>7, <1>10, <1>11, <1>13
<1> QED
  BY <1>2, <1>3, <1>5, <1>10, <1>11, <1>12, <1>13, <1>14, KeepsNew

LEMMA LentIs ==
  ASSUME SlInv, NEW t \in Things, lent[t] > 0
  PROVE  /\ t \in LentOf(lent) /\ lent[t] = 1 /\ lent[t] # 0
         /\ [lent EXCEPT ![t] = lent[t] - 1] = [lent EXCEPT ![t] = 0]
         /\ chunk[t] \in Chunks /\ chunk[t] # NoChunk
<1>1. /\ chunk \in ChunkMaps /\ LentOf(lent) \subseteq GotOf(chunk)
      /\ lent[t] > 0 <=> lent[t] = 1
  BY LentAreGot DEF SlInv, SlTypes
<1>2. t \in LentOf(lent)
  BY DEF LentOf
<1>3. chunk[t] \in Chunks /\ chunk[t] # NoChunk
  BY <1>1, <1>2, GotHave DEF GotOf
<1>4. lent[t] = 1 /\ lent[t] # 0
  BY <1>1
<1>5. [lent EXCEPT ![t] = lent[t] - 1] = [lent EXCEPT ![t] = 0]
  BY <1>4
<1> QED
  BY <1>2, <1>3, <1>4, <1>5

LEMMA KeepsFreeUnsupported ==
  ASSUME NEW t \in Things, SlInv, SL!FreeUnsupported(t)
  PROVE  SlInv'
<1>1. PICK me : me = [lent EXCEPT ![t] = 0]
  OBVIOUS
<1>2. /\ lent[t] > 0 /\ ~ SL!HasFree /\ lent' = [lent EXCEPT ![t] = lent[t] - 1]
      /\ UNCHANGED <<allocator_type, taken, uptype, manager, free_list, chunk, slab_stat,
                     missed, want>>
  BY DEF SL!FreeUnsupported
<1>3. lent[t] # 0 /\ lent' = me
  BY <1>1, <1>2, LentIs
<1>4. /\ Typed(free_list, chunk, lent, ClassSizes)
      /\ Places(free_list, chunk, lent, ClassSizes, SL!HasFree)
  BY DEF SlInv, SlTypes
<1>5. me \in LentMaps /\ me[t] = 0 /\ \A u \in Things \ {t} : me[u] = lent[u]
  <2>1. lent \in LentMaps /\ t \in Things
    BY <1>4 DEF Typed
  <2> QED
    BY <2>1, <1>1, LentTake
<1>6. Typed(free_list, chunk, me, ClassSizes)
  BY <1>4, <1>5 DEF Typed
<1>7. Places(free_list, chunk, me, ClassSizes, SL!HasFree)
  BY <1>1, <1>2, <1>3, <1>4, PlacesDropped
<1>8. Accounted(chunk, me, slab_stat, missed)
  BY <1>2 DEF SlInv, Accounted, Accounts
<1>9. Serves(chunk, me)
  BY <1>5 DEF SlInv, Serves
<1>10. MemoryTaken(taken', chunk, manager) /\ WantFits(want', free_list)
  BY <1>2, WantKept DEF SlInv
<1>11. /\ Same /\ missed' = missed /\ manager' = manager /\ free_list' = free_list /\ chunk' = chunk
       /\ slab_stat' = slab_stat /\ slab_stat' \in Stats /\ missed' \in Nat /\ taken' \in 0 .. Room
       /\ manager' \in {"none", "half", "live", "failed"}
  BY <1>2 DEF Same, SlInv, SlTypes
<1> QED
  BY <1>3, <1>6, <1>7, <1>8, <1>9, <1>10, <1>11, InvAfter

LEMMA KeepsFreeSplit ==
  ASSUME NEW t \in Things, SlInv, SL!FreeSplit(t)
  PROVE  SlInv'
<1>1. PICK me, dh, z : /\ me = [lent EXCEPT ![t] = 0] /\ dh = [chunk EXCEPT ![t] = NoChunk]
                       /\ z = chunk[t].size
  OBVIOUS
<1>2. /\ lent[t] > 0 /\ lent' = [lent EXCEPT ![t] = lent[t] - 1] /\ chunk' = dh
      /\ SL!AllocatorFree(z + ChunkLinkSize)
      /\ SL!Count(-z, -chunk[t].req_size, 0, -1)
      /\ UNCHANGED <<allocator_type, uptype, manager, free_list, missed, want>>
  BY <1>1 DEF SL!FreeSplit
<1>3. lent[t] # 0 /\ lent' = me /\ t \in LentOf(lent) /\ chunk[t] \in Chunks
  BY <1>1, <1>2, LentIs
<1>4. /\ Typed(free_list, chunk, lent, ClassSizes)
      /\ Places(free_list, chunk, lent, ClassSizes, SL!HasFree)
      /\ missed \in Int /\ missed' \in Nat
  BY <1>2 DEF SlInv, SlTypes
<1>5. chunk \in ChunkMaps /\ lent \in LentMaps /\ LentOf(lent) \subseteq GotOf(chunk)
  BY <1>4, LentAreGot
<1>6. me \in LentMaps /\ me[t] = 0 /\ \A u \in Things \ {t} : me[u] = lent[u]
  <2>1. lent \in LentMaps /\ t \in Things
    BY <1>5
  <2>2. /\ [lent EXCEPT ![t] = 0] \in LentMaps /\ [lent EXCEPT ![t] = 0][t] = 0
        /\ \A u \in Things \ {t} : [lent EXCEPT ![t] = 0][u] = lent[u]
    BY <2>1, LentTake
  <2> QED
    BY <2>2, <1>1
<1>7. dh \in ChunkMaps /\ \A u \in Things \ {t} : dh[u] = chunk[u]
  <2>1. chunk \in ChunkMaps /\ t \in Things
    BY <1>5
  <2>2. /\ [chunk EXCEPT ![t] = NoChunk] \in ChunkMaps
        /\ \A u \in Things \ {t} : [chunk EXCEPT ![t] = NoChunk][u] = chunk[u]
    BY <2>1, MapTake
  <2> QED
    BY <2>2, <1>1
<1>8. Typed(free_list, dh, me, ClassSizes)
  BY <1>4, <1>6, <1>7 DEF Typed
<1>9. Places(free_list, dh, me, ClassSizes, SL!HasFree)
  BY <1>1, <1>3, <1>4, PlacesSplitFreed
<1>10. /\ z \in Nat /\ Changes(chunk, lent, missed, dh, me, missed, -z, 0, -1)
       /\ Takes(chunk, dh, -(z + ChunkLinkSize))
  BY <1>1, <1>3, <1>4, <1>5, ChangesSplitFreed
<1>11. slab_stat' \in Stats /\ Accounted(dh, me, slab_stat', missed)
  <2>1. 0 \in Int /\ -z \in Int /\ -1 \in Int /\ -chunk[t].req_size \in Int
    <3>1. PICK r : r = chunk[t].req_size
      OBVIOUS
    <3>2. r \in Nat
      BY <3>1, <1>3 DEF Chunks
    <3> QED
      BY <3>1, <3>2, <1>10
  <2> QED
    BY <2>1, <1>2, <1>4, <1>10, AccountedAfter
<1>12. taken' \in 0 .. Room /\ MemoryTaken(taken', dh, manager)
  <2>1. PICK m : m = z + ChunkLinkSize
    OBVIOUS
  <2>2. m \in Nat /\ -m \in Int /\ Takes(chunk, dh, -m) /\ SL!AllocatorFree(m)
    BY <2>1, <1>2, <1>10, Parameters
  <2>3. taken' \in 0 .. Room /\ (allocator_type = "SHMEM" => taken' = taken + -m)
    BY <2>2, <1>7, GivenBack
  <2>4. MemoryTaken(taken', dh, manager)
    BY <2>2, <2>3, MemoryAfter
  <2> QED
    BY <2>3, <2>4
<1>13. Serves(dh, me)
  BY <1>6, <1>7 DEF SlInv, Serves
<1>14. WantFits(want', free_list)
  BY <1>2, WantKept
<1>15. /\ Same /\ missed' = missed /\ manager' = manager /\ free_list' = free_list
       /\ manager' \in {"none", "half", "live", "failed"}
  BY <1>2 DEF Same, SlInv, SlTypes
<1> QED
  BY <1>2, <1>3, <1>4, <1>8, <1>9, <1>11, <1>12, <1>13, <1>14, <1>15, InvAfter

LEMMA KeepsFree ==
  ASSUME NEW t \in Things, SlInv, SL!Free(t)
  PROVE  SlInv'
<1>1. PICK me, z, i, gl : /\ me = [lent EXCEPT ![t] = 0] /\ z = chunk[t].size /\ i = chunk[t].id
                          /\ gl = [free_list EXCEPT ![i] = <<t>> \o free_list[i]]
  OBVIOUS
<1>2. /\ lent[t] > 0 /\ i # SL!FAST_SLAB_SPLIT_ID
      /\ free_list' = gl /\ lent' = [lent EXCEPT ![t] = lent[t] - 1]
      /\ IF slab_stat.used_size < SL!ClassSize(i)
         THEN missed' = missed + z /\ slab_stat' = slab_stat
         ELSE SL!Count(-z, -chunk[t].req_size, z, 0) /\ missed' = missed
      /\ UNCHANGED <<allocator_type, taken, uptype, manager, chunk>> /\ want' = NoWant
  BY <1>1 DEF SL!Free, SL!Idle
<1>3. lent[t] # 0 /\ lent' = me /\ t \in LentOf(lent) /\ chunk[t] \in Chunks
  BY <1>1, <1>2, LentIs
<1>4. /\ Typed(free_list, chunk, lent, ClassSizes)
      /\ Places(free_list, chunk, lent, ClassSizes, SL!HasFree)
      /\ missed \in Int /\ missed \in Nat
  BY DEF SlInv, SlTypes
<1>5. chunk \in ChunkMaps /\ lent \in LentMaps /\ LentOf(lent) \subseteq GotOf(chunk)
  BY <1>4, LentAreGot
<1>6. me \in LentMaps /\ me[t] = 0 /\ \A u \in Things \ {t} : me[u] = lent[u]
  <2>1. lent \in LentMaps /\ t \in Things
    BY <1>5
  <2>2. /\ [lent EXCEPT ![t] = 0] \in LentMaps /\ [lent EXCEPT ![t] = 0][t] = 0
        /\ \A u \in Things \ {t} : [lent EXCEPT ![t] = 0][u] = lent[u]
    BY <2>1, LentTake
  <2> QED
    BY <2>2, <1>1
<1>7. /\ gl \in [DOMAIN ClassSizes -> Seq(Things)]
      /\ Places(gl, chunk, me, ClassSizes, SL!HasFree)
  <2>1. t \in Things /\ lent[t] # 0 /\ chunk[t].id # SL!FAST_SLAB_SPLIT_ID /\ i = chunk[t].id
    BY <1>1, <1>2, <1>3
  <2>2. [free_list EXCEPT ![i] = <<t>> \o free_list[i]] \in [DOMAIN ClassSizes -> Seq(Things)]
    <3>1. i \in DOMAIN ClassSizes
      <4>1. Placed(t, free_list, chunk, lent, ClassSizes, SL!HasFree)
        BY <2>1, <1>4 DEF Places
      <4> QED
        BY <4>1, <2>1, <1>3, NoChunkIsNone DEF Placed
    <3>2. free_list[i] \in Seq(Things)
      BY <3>1, <1>4 DEF Typed
    <3>3. PICK r : r = <<t>> \o free_list[i]
      OBVIOUS
    <3>4. r \in Seq(Things)
      BY <3>2, <3>3
    <3>5. [free_list EXCEPT ![i] = r] \in [DOMAIN ClassSizes -> Seq(Things)]
      BY <3>1, <3>4, <1>4, ListPut
    <3> QED
      BY <3>3, <3>5
  <2>3. Places([free_list EXCEPT ![i] = <<t>> \o free_list[i]], chunk, [lent EXCEPT ![t] = 0],
               ClassSizes, SL!HasFree)
    BY <2>1, <1>4, PlacesFreed
  <2> QED
    BY <2>2, <2>3, <1>1
<1>8. Typed(gl, chunk, me, ClassSizes)
  BY <1>4, <1>6, <1>7 DEF Typed
<1>9. /\ z \in Nat /\ Changes(chunk, lent, missed, chunk, me, missed, -z, z, 0)
      /\ Tot(chunk, LentOf(me), 0) + (missed + z) = Tot(chunk, LentOf(lent), 0) + missed
  <2>1. t \in LentOf(lent) /\ missed \in Int /\ z = chunk[t].size
    BY <1>1, <1>3, <1>4
  <2>2. /\ z \in Nat
        /\ Changes(chunk, lent, missed, chunk, [lent EXCEPT ![t] = 0], missed, -z, z, 0)
        /\ Tot(chunk, LentOf([lent EXCEPT ![t] = 0]), 0) + (missed + z)
             = Tot(chunk, LentOf(lent), 0) + missed
    BY <2>1, <1>5, ChangesFreed
  <2> QED
    BY <2>2, <1>1
<1>10. slab_stat' \in Stats /\ Accounted(chunk, me, slab_stat', missed') /\ missed' \in Nat
  <2>1. CASE slab_stat.used_size < SL!ClassSize(i)
    <3>1. missed' = missed + z /\ slab_stat' = slab_stat
      BY <2>1, <1>2
    <3>2. missed' \in Nat /\ slab_stat' \in Stats
      BY <3>1, <1>4, <1>9 DEF SlInv, SlTypes
    <3>3. Accounted(chunk, me, slab_stat, missed + z)
      <4>1. missed + z \in Int
        BY <1>4, <1>9
      <4> QED
        BY <4>1, <1>9 DEF SlInv, Accounted, Accounts
    <3> QED
      BY <3>1, <3>2, <3>3
  <2>2. CASE ~ (slab_stat.used_size < SL!ClassSize(i))
    <3>1. SL!Count(-z, -chunk[t].req_size, z, 0) /\ missed' = missed
      BY <2>2, <1>2
    <3>2. 0 \in Int /\ -z \in Int /\ z \in Int /\ -chunk[t].req_size \in Int
      <4>1. PICK r : r = chunk[t].req_size
        OBVIOUS
      <4>2. r \in Nat
        BY <4>1, <1>3 DEF Chunks
      <4> QED
        BY <4>1, <4>2, <1>9
    <3>3. slab_stat' \in Stats /\ Accounted(chunk, me, slab_stat', missed)
      BY <3>1, <3>2, <1>4, <1>9, AccountedAfter
    <3> QED
      BY <3>1, <3>3, <1>4
  <2> QED
    BY <2>1, <2>2
<1>11. Serves(chunk, me)
  BY <1>6 DEF SlInv, Serves
<1>12. WantFits(want', gl)
  BY <1>2 DEF WantFits
<1>13. /\ Same /\ manager' = manager /\ chunk' = chunk /\ taken' \in 0 .. Room
       /\ MemoryTaken(taken', chunk, manager) /\ manager' \in {"none", "half", "live", "failed"}
  BY <1>2 DEF Same, SlInv, SlTypes
<1> QED
  BY <1>2, <1>3, <1>7, <1>8, <1>10, <1>11, <1>12, <1>13, InvAfter

LEMMA SlInvNext == SlInv /\ [SL!Next]_slabs_vars => SlInv'
<1> SUFFICES ASSUME SlInv, [SL!Next]_slabs_vars PROVE SlInv'
  OBVIOUS
<1>1. CASE SL!CreateManager
  BY <1>1, KeepsCreateManager
<1>2. CASE SL!CreateClasses
  BY <1>2, KeepsCreateClasses
<1>3. CASE SL!Release \/ SL!RecoverAll \/ SL!RecoverNoSpace
  BY <1>3, KeepsQuiet
<1>4. ASSUME NEW req_size \in ChunkRequests, SL!AllocInvalid(req_size) PROVE SlInv'
  BY <1>4, KeepsQuiet
<1>5. ASSUME NEW req_size \in ChunkRequests, NEW type \in {"REQ", "ACT"}, SL!AllocListed(type, req_size)
      PROVE  SlInv'
  BY <1>5, KeepsAllocListed
<1>6. ASSUME NEW req_size \in ChunkRequests, NEW type \in {"REQ", "ACT"}, SL!AllocAsk(type, req_size)
      PROVE  SlInv'
  BY <1>6, KeepsAllocAsk
<1>7. CASE SL!AllocGranted
  BY <1>7, KeepsAllocGranted
<1>8. CASE SL!AllocRefused
  BY <1>8, KeepsAllocRefused
<1>9. CASE SL!RecoverLarger \/ SL!RecoverSmaller
  BY <1>9, KeepsRecover
<1>10. ASSUME NEW s \in OneSplit, SL!SplitRefused(s[1], s[2]) PROVE SlInv'
  BY <1>10, KeepsSplitRefused
<1>11. ASSUME NEW s \in OneSplit, SL!SplitAlloc(s[1], s[2]) PROVE SlInv'
  <2>1. s[1] \in Nat /\ s[2] \in Nat
    BY AllocatorsAssumption DEF SL!SlabsAssumption
  <2> QED
    BY <2>1, <1>11, KeepsSplitAlloc
<1>12. ASSUME NEW t \in Things, SL!FreeUnsupported(t) PROVE SlInv'
  BY <1>12, KeepsFreeUnsupported
<1>13. ASSUME NEW t \in Things, SL!FreeSplit(t) PROVE SlInv'
  BY <1>13, KeepsFreeSplit
<1>14. ASSUME NEW t \in Things, SL!Free(t) PROVE SlInv'
  BY <1>14, KeepsFree
<1>15. CASE UNCHANGED slabs_vars
  <2>1. Quiet /\ taken' = taken /\ manager' = manager /\ want' = want
    BY <1>15 DEF slabs_vars, Quiet
  <2> QED
    BY <2>1, WantKept, QuietInv
<1> QED
  BY <1>1, <1>2, <1>3, <1>4, <1>5, <1>6, <1>7, <1>8, <1>9, <1>10, <1>11, <1>12, <1>13, <1>14, <1>15
     DEF SL!Next

(* The area's steps leave the slabs alone. *)
LEMMA SlabsOnly == [AllocNext]_all_vars => [SL!Next]_slabs_vars
BY DEF AllocNext, Area, Slabs, all_vars

THEOREM SlInvariance == AllocSpec => []SlInv
<1>1. AllocInit => SlInv
  BY SlInvInit DEF AllocInit
<1>2. SlInv /\ [AllocNext]_all_vars => SlInv'
  BY SlInvNext, SlabsOnly
<1> QED
  BY <1>1, <1>2, PTL DEF AllocSpec

(* What Slabs calls the things that are lent and got, and what they come   *)
(* to.                                                                     *)
LEMMA SameNames ==
  /\ SL!Lent = LentOf(lent) /\ SL!Got = GotOf(chunk)
  /\ \A i : SL!OnList(i) = ToSet(free_list[i])
  /\ \A i : SL!IsInjective(free_list[i]) <=> IsInjective(free_list[i])
  /\ \A S, more : SL!Total(S, more) = Tot(chunk, S, more)
  /\ \A S : SL!Cardinality(S) = Cardinality(S)
<1>1. SL!Lent = LentOf(lent) /\ SL!Got = GotOf(chunk)
  BY DEF SL!Lent, SL!Got, LentOf, GotOf
<1>2. \A i : SL!OnList(i) = ToSet(free_list[i])
  BY DEF SL!OnList, SL!ToSet, ToSet
<1>3. \A i : SL!IsInjective(free_list[i]) <=> IsInjective(free_list[i])
  BY DEF SL!IsInjective, IsInjective
<1>4. \A S, more : SL!Total(S, more) = Tot(chunk, S, more)
  <2>1. ASSUME NEW S, NEW more PROVE SL!Total(S, more) = Tot(chunk, S, more)
    <3>1. SL!Total(S, more) = SL!SumOf(Worth(chunk, S, more))
      BY DEF SL!Total, SL!SizeOf, Worth
    <3> QED
      BY <3>1, SameArithmetic DEF Tot
  <2> QED
    BY <2>1
<1>5. \A S : SL!Cardinality(S) = Cardinality(S)
  BY DEF SL!Cardinality, Cardinality
<1> QED
  BY <1>1, <1>2, <1>3, <1>4, <1>5

(* A chunk is in one place - with one caller, or once on the list of the   *)
(* class its size says -, an allocator that can free has every other       *)
(* thing, and the shared memory taken is the manager's and the chunks':    *)
(* through lists, refusals, recoveries, splits and frees                   *)
(* (fast_slabs_alloc, fast_slabs_split_alloc, fast_slabs_free).            *)
THEOREM ChunksAreExact == AllocSpec => []ChunksExact
<1>1. SlInv => ChunksExact
  <2> SUFFICES ASSUME SlInv PROVE SL!TypeOK /\ SL!ChunksInPlace /\ SL!NothingLost
    BY DEF ChunksExact, SL!ChunksExact
  <2>1. /\ uptype \in Uptypes /\ Typed(free_list, chunk, lent, ClassSizes)
        /\ Places(free_list, chunk, lent, ClassSizes, SL!HasFree) /\ slab_stat \in Stats
    BY DEF SlInv, SlTypes
  <2>2. DOMAIN ClassSizes = SL!Classes /\ \A i \in SL!Classes : ClassSizes[i] = SL!ClassSize(i) - ChunkLinkSize
    BY <2>1, ClassesAre
  <2>3. free_list \in [SL!Classes -> Seq(Things)] /\ lent \in LentMaps
    BY <2>1, <2>2 DEF Typed
  <2>4. ASSUME NEW i \in SL!Classes PROVE ToSet(free_list[i]) \subseteq Things
    <3>1. PICK s : s = free_list[i]
      OBVIOUS
    <3>2. s \in Seq(Things)
      BY <2>3, <3>1
    <3>3. \A k \in DOMAIN s : s[k] \in Things
      BY <3>2
    <3> QED
      BY <3>1, <3>3 DEF ToSet
  <2>5. SL!TypeOK
    <3>1. \A f \in DOMAIN slab_stat : slab_stat[f] \in 0 .. SizeMod - 1
      BY <2>1 DEF Stats, Counts
    <3>2. lent \in [Things -> Nat]
      BY <2>3 DEF LentMaps
    <3>3. DOMAIN free_list = SL!Classes
      BY <2>3
    <3>4. \A i \in SL!Classes : SL!OnList(i) \subseteq Things
      BY <2>4, SameNames
    <3> QED
      BY <3>1, <3>2, <3>3, <3>4 DEF SL!TypeOK, SlInv, SlTypes
  <2>6. SL!ChunksInPlace
    <3>1. ASSUME NEW i \in SL!Classes
          PROVE  /\ SL!IsInjective(free_list[i]) /\ SL!OnList(i) \cap SL!Lent = {}
                 /\ \A t \in SL!OnList(i) :
                      t \in SL!Got /\ chunk[t].id = i /\ SL!SizeOf(t) = SL!ClassSize(i) - ChunkLinkSize
      <4>1. SL!IsInjective(free_list[i])
        BY <2>1, <2>2, SameNames DEF Places
      <4>2. ASSUME NEW t \in SL!OnList(i)
            PROVE  t \in SL!Got /\ chunk[t].id = i /\ SL!SizeOf(t) = SL!ClassSize(i) - ChunkLinkSize
                   /\ t \notin SL!Lent
        <5>1. t \in ToSet(free_list[i]) /\ t \in Things
          BY <2>4, SameNames
        <5>2. Placed(t, free_list, chunk, lent, ClassSizes, SL!HasFree)
          BY <5>1, <2>1 DEF Places
        <5>3. chunk[t] # NoChunk /\ lent[t] = 0 /\ chunk[t].id = i /\ chunk[t].size = ClassSizes[i]
          BY <5>1, <5>2, <2>2 DEF Placed
        <5> QED
          BY <5>1, <5>3, <2>2 DEF SL!Got, SL!Lent, SL!SizeOf
      <4> QED
        BY <4>1, <4>2
    <3>2. SL!Lent \subseteq SL!Got
      BY <2>1, LentAreGot, SameNames
    <3>3. ASSUME SL!HasFree, NEW t \in SL!Got PROVE t \in SL!Lent \cup UNION {SL!OnList(i) : i \in SL!Classes}
      <4>1. t \in Things /\ chunk[t] # NoChunk
        BY DEF SL!Got
      <4>2. Placed(t, free_list, chunk, lent, ClassSizes, SL!HasFree)
        BY <4>1, <2>1 DEF Places
      <4>3. lent[t] # 0 \/ \E i \in SL!Classes : t \in ToSet(free_list[i])
        BY <4>1, <4>2, <3>3, <2>2 DEF Placed
      <4>4. lent[t] # 0 => t \in SL!Lent
        BY <4>1, <2>1, LentAreGot DEF SL!Lent
      <4>5. \A i \in SL!Classes : t \in ToSet(free_list[i]) => t \in SL!OnList(i)
        BY SameNames
      <4> QED
        BY <4>3, <4>4, <4>5
    <3>4. ASSUME NEW i \in SL!Classes PROVE SL!OnList(i) \subseteq SL!Got
      BY <3>1
    <3>5. SL!HasFree => SL!Got = SL!Lent \cup UNION {SL!OnList(i) : i \in SL!Classes}
      BY <3>2, <3>3, <3>4
    <3> QED
      BY <3>1, <3>2, <3>5 DEF SL!ChunksInPlace
  <2>7. SL!NothingLost
    <3>1. PICK p, x : p = Tot(chunk, GotOf(chunk), ChunkLinkSize) /\ x = SlabclassSize * SL!free_len
      OBVIOUS
    <3>2. SL!Total(SL!Got, ChunkLinkSize) = p
      BY <3>1, SameNames
    <3>3. p \in Nat /\ x \in Nat /\ ManagerSize \in Nat
      BY <2>1, <3>1, GotIs, LentAreGot, OwnIs, Parameters
    <3>4. allocator_type = "SHMEM" =>
            taken = p + ((IF manager = "none" THEN 0 ELSE ManagerSize)
                         + (IF manager = "live" THEN x ELSE 0))
      BY <3>1 DEF SlInv, MemoryTaken, Own
    <3>5. PICK a, b : /\ a = (IF manager = "none" THEN 0 ELSE ManagerSize)
                      /\ b = (IF manager = "live" THEN x ELSE 0)
      OBVIOUS
    <3>6. a \in Nat /\ b \in Nat
      BY <3>3, <3>5
    <3>7. p + (a + b) = p + a + b
      BY <3>3, <3>6
    <3>8. allocator_type = "SHMEM" => taken = p + a + b
      BY <3>4, <3>5, <3>7
    <3> QED
      BY <3>1, <3>2, <3>5, <3>8 DEF SL!NothingLost
  <2> QED
    BY <2>5, <2>6, <2>7
<1> QED
  BY SlInvariance, <1>1, PTL

(* The statistics count the chunks, modulo the width of size_t: used_size  *)
(* and free_size all the chunks there are, used_size what callers have but *)
(* for frees in error, chunk_count their number.                           *)
THEOREM StatisticsAreExact == AllocSpec => []StatisticsExact
<1>1. SlInv => StatisticsExact
  <2> SUFFICES ASSUME SlInv PROVE SL!UsedPlusFree /\ SL!UsedIsLent
    BY DEF StatisticsExact, SL!StatisticsExact
  <2>1. /\ SL!Size(slab_stat.used_size + slab_stat.free_size) = SL!Size(Tot(chunk, GotOf(chunk), 0))
        /\ slab_stat.chunk_count = SL!Size(Cardinality(GotOf(chunk)))
        /\ SL!HasFree => slab_stat.used_size = SL!Size(Tot(chunk, LentOf(lent), 0) + missed)
    BY DEF SlInv, Accounted, Accounts
  <2> QED
    BY <2>1, SameNames DEF SL!UsedPlusFree, SL!UsedIsLent
<1> QED
  BY SlInvariance, <1>1, PTL

(* Every size the manager was created for has a class that holds it - the  *)
(* smallest one, of power classes - and a chunk that is lent holds what    *)
(* was asked for (fast_slabs_clsid).  Of two power classes the search      *)
(* finds none, hence the hypothesis.                                       *)
THEOREM ClassesServeAll ==
  ASSUME MoreThanTwo
  PROVE  AllocSpec => []ClassesServe
<1>1. SlInv => ClassesServe
  <2> SUFFICES ASSUME SlInv PROVE SL!EverySizeHasClass /\ SL!ChunkServes
    BY DEF ClassesServe, SL!ClassesServe
  <2>1. SL!EverySizeHasClass
    BY EverySizeIsServed DEF SlInv, SlTypes
  <2>2. ASSUME NEW t \in SL!Lent PROVE chunk[t].req_size <= SL!SizeOf(t)
    <3>1. t \in Things /\ lent[t] > 0
      BY DEF SL!Lent
    <3>2. lent[t] # 0
      BY <3>1, LentIs
    <3> QED
      BY <3>1, <3>2 DEF SlInv, Serves, SL!SizeOf
  <2> QED
    BY <2>1, <2>2 DEF SL!ChunkServes
<1> QED
  BY SlInvariance, <1>1, PTL

(* An allocation fails only when no class has a free chunk left: each went *)
(* back to the allocator before (fast_slabs_recover).                      *)
THEOREM FailsOnlyWhenNothingIsFree == AllocSpec => SL!FailsOnlyWhenEmpty
<1>1. ASSUME SlInv, [SL!Next]_slabs_vars, reply # "alloc_failed", reply' = "alloc_failed"
      PROVE  \A i \in SL!Classes : free_list[i] = <<>>
  <2>1. SL!RecoverNoSpace
    BY <1>1 DEF SL!Next, slabs_vars, SL!CreateManager, SL!CreateClasses, SL!Release, SL!AllocInvalid,
                SL!AllocListed, SL!AllocAsk, SL!AllocGranted, SL!AllocRefused, SL!HandOut,
                SL!RecoverLarger, SL!RecoverSmaller, SL!RecoverAll, SL!SplitRefused, SL!SplitAlloc,
                SL!FreeUnsupported, SL!FreeSplit, SL!Free
  <2>2. want # NoWant /\ SL!Larger = {} /\ SL!Smaller = {}
    BY <2>1 DEF SL!RecoverNoSpace
  <2>3. PICK w, n : w = want.id /\ n = SL!max_id
    OBVIOUS
  <2>4. n \in Nat /\ SL!Classes = 0 .. n /\ w \in 0 .. n /\ free_list[w] = <<>>
    <3>1. uptype \in Uptypes
      BY <1>1 DEF SlInv, SlTypes
    <3> QED
      BY <3>1, <1>1, <2>2, <2>3, WantIs, ClassesAre
  <2>5. (\A i \in w + 1 .. n : free_list[i] = <<>>) /\ (\A i \in 0 .. w - 1 : free_list[i] = <<>>)
    BY <2>2, <2>3 DEF SL!Larger, SL!Smaller, SL!Listed
  <2>6. ASSUME NEW i \in 0 .. n PROVE i = w \/ i \in w + 1 .. n \/ i \in 0 .. w - 1
    BY <2>4
  <2> QED
    BY <2>4, <2>5, <2>6
<1>2. SlInv /\ [AllocNext]_all_vars =>
        [reply # "alloc_failed" /\ reply' = "alloc_failed" => \A i \in SL!Classes : free_list[i] = <<>>]_slabs_vars
  BY <1>1, SlabsOnly
<1> QED
  BY SlInvariance, <1>2, PTL DEF AllocSpec, SL!FailsOnlyWhenEmpty, SL!vars, slabs_vars

(* Slabs implement lending: fast_slabs_alloc and fast_slabs_split_alloc    *)
(* give nobody a chunk that another has, and it is given again only after  *)
(* fast_slabs_free.                                                        *)
THEOREM SlabsImplementLoans == AllocSpec => ImplementsLoans
<1>1. AllocInit => SL!Lending!Init
  BY DEF AllocInit, SL!Init, SL!Lending!Init
<1>2. SlInv /\ [SL!Next]_slabs_vars => [SL!Lending!Next]_lent
  <2> SUFFICES ASSUME SlInv, [SL!Next]_slabs_vars PROVE [SL!Lending!Next]_lent
    OBVIOUS
  <2>0. ASSUME NEW t \in Things, lent[t] = 0, lent' = [lent EXCEPT ![t] = lent[t] + 1] PROVE SL!Lending!Next
    <3>1. lent' = [lent EXCEPT ![t] = 1]
      BY <2>0
    <3> QED
      BY <3>1, <2>0 DEF SL!Lending!Next, SL!Lending!Lend
  <2>1. ASSUME NEW t \in Things, lent[t] > 0, lent' = [lent EXCEPT ![t] = lent[t] - 1] PROVE SL!Lending!Next
    <3>1. lent[t] = 1 /\ lent' = [lent EXCEPT ![t] = 0]
      BY <2>1, LentIs
    <3> QED
      BY <3>1 DEF SL!Lending!Next, SL!Lending!Return
  <2>2. ASSUME NEW req_size \in ChunkRequests, NEW type \in {"REQ", "ACT"}, SL!AllocListed(type, req_size)
        PROVE  SL!Lending!Next
    <3>1. PICK id, t : id = SL!ClsId(req_size) /\ t = Head(free_list[id])
      OBVIOUS
    <3>2. id # SL!INVALID_ID /\ free_list[id] # <<>> /\ lent' = [lent EXCEPT ![t] = lent[t] + 1]
      BY <2>2, <3>1 DEF SL!AllocListed, SL!HandOut
    <3>3. id \in SL!Classes
      BY <3>1, <3>2, FoundIs
    <3>4. /\ Typed(free_list, chunk, lent, ClassSizes) /\ uptype \in Uptypes
          /\ Places(free_list, chunk, lent, ClassSizes, SL!HasFree)
      BY DEF SlInv, SlTypes
    <3>5. id \in DOMAIN ClassSizes
      BY <3>3, <3>4, ClassesAre
    <3>6. PICK gl : gl = [free_list EXCEPT ![id] = Tail(free_list[id])]
      OBVIOUS
    <3>7. Popped(free_list, chunk, lent, ClassSizes, id, t, gl)
      BY <3>1, <3>2, <3>4, <3>5, <3>6, PlacesPop
    <3>8. t \in Things /\ lent[t] = 0
      BY <3>7 DEF Popped
    <3> QED
      BY <3>2, <3>8, <2>0
  <2>3. ASSUME SL!AllocGranted PROVE SL!Lending!Next
    <3>1. PICK t : t = SL!Min(SL!Unused)
      OBVIOUS
    <3>2. SL!Unused # {} /\ lent' = [lent EXCEPT ![t] = lent[t] + 1]
      BY <2>3, <3>1 DEF SL!AllocGranted, SL!HandOut
    <3>3. t \in Things /\ lent[t] = 0
      BY <3>1, <3>2, UnusedIs
    <3> QED
      BY <3>2, <3>3, <2>0
  <2>4. ASSUME NEW s \in OneSplit, SL!SplitAlloc(s[1], s[2]) PROVE SL!Lending!Next
    <3>1. PICK t : t = SL!Min(SL!Unused)
      OBVIOUS
    <3>2. SL!Unused # {} /\ lent' = [lent EXCEPT ![t] = lent[t] + 1]
      BY <2>4, <3>1 DEF SL!SplitAlloc
    <3>3. t \in Things /\ lent[t] = 0
      BY <3>1, <3>2, UnusedIs
    <3> QED
      BY <3>2, <3>3, <2>0
  <2>5. ASSUME NEW t \in Things, SL!FreeUnsupported(t) \/ SL!FreeSplit(t) \/ SL!Free(t)
        PROVE  SL!Lending!Next
    <3>1. lent[t] > 0 /\ lent' = [lent EXCEPT ![t] = lent[t] - 1]
      BY <2>5 DEF SL!FreeUnsupported, SL!FreeSplit, SL!Free
    <3> QED
      BY <3>1, <2>1
  <2>6. ASSUME \/ SL!CreateManager \/ SL!CreateClasses \/ SL!Release
               \/ SL!AllocRefused \/ SL!RecoverLarger \/ SL!RecoverSmaller \/ SL!RecoverAll
               \/ SL!RecoverNoSpace
               \/ \E req_size \in ChunkRequests : SL!AllocInvalid(req_size)
               \/ \E req_size \in ChunkRequests, type \in {"REQ", "ACT"} : SL!AllocAsk(type, req_size)
               \/ \E s \in OneSplit : SL!SplitRefused(s[1], s[2])
        PROVE  UNCHANGED lent
    BY <2>6 DEF SL!CreateManager, SL!CreateClasses, SL!Release, SL!AllocInvalid, SL!AllocAsk,
                SL!AllocRefused, SL!RecoverLarger, SL!RecoverSmaller, SL!RecoverAll,
                SL!RecoverNoSpace, SL!SplitRefused
  <2>7. CASE UNCHANGED slabs_vars
    BY <2>7 DEF slabs_vars
  <2> QED
    BY <2>2, <2>3, <2>4, <2>5, <2>6, <2>7 DEF SL!Next
<1>3. SlInv /\ [AllocNext]_all_vars => [SL!Lending!Next]_lent
  BY <1>2, SlabsOnly
<1> QED
  BY SlInvariance, <1>1, <1>3, PTL DEF AllocSpec, ImplementsLoans, SL!ImplementsLoans, SL!Lending!Spec
=============================================================================
