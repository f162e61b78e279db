----------------------------- MODULE ShmemProofs -----------------------------
(***************************************************************************)
(* The shared-memory allocator keeps its books for every size of area,     *)
(* header and class: the blocks tile the area, the free lists and the      *)
(* classes available are exact, what is free can be had, and the calls     *)
(* implement an allocator.                                                 *)
(***************************************************************************)
EXTENDS Shmem, NumberLemmas, SequenceTheorems

-----------------------------------------------------------------------------
(* Size classes *)

LEMMA Parameters ==
  /\ Arena \in Nat \ {0} /\ Header \in Nat \ {0} /\ min_size \in Nat \ {0}
  /\ max_size \in Nat \ {0} /\ factor \in Nat \ {0}
  /\ min_size < max_size /\ max_size <= Arena - Header
  /\ Arena - Header \in Nat \ {0}
BY ShmemAssumption

LEMMA FreeLenType == free_len \in Nat \ {0}
<1>1. max_size - min_size \in Nat
  BY Parameters
<1>2. DivUp(max_size - min_size, factor) \in Nat
  BY <1>1, Parameters, DivUpIs
<1>3. DivUp(max_size, min_size) \in Nat
  BY Parameters, DivUpIs
<1>4. Log2Up(DivUp(max_size, min_size)) \in Nat
  BY <1>3, Log2UpType
<1> QED
  BY <1>2, <1>4 DEF free_len

LEMMA InsertIndexType ==
  ASSUME NEW size \in Nat
  PROVE  InsertIndex(size) \in Nat
<1>1. CASE size <= min_size
  BY <1>1 DEF InsertIndex
<1>2. CASE ~ (size <= min_size)
  <2>1. size - min_size \in Nat
    BY <1>2, Parameters
  <2>2. (size - min_size) \div factor \in Nat
    BY <2>1, Parameters, DivIs
  <2>3. size \div min_size \in Nat
    BY Parameters, DivIs
  <2>4. Log2Down(size \div min_size) \in Nat
    BY <2>3, Log2DownType
  <2> QED
    BY <1>2, <2>2, <2>4 DEF InsertIndex
<1> QED
  BY <1>1, <1>2

LEMMA AllocIndexType ==
  ASSUME NEW size \in Nat
  PROVE  AllocIndex(size) \in Nat
<1>1. CASE size <= min_size
  BY <1>1 DEF AllocIndex
<1>2. CASE ~ (size <= min_size)
  <2>1. size - min_size \in Nat
    BY <1>2, Parameters
  <2>2. DivUp(size - min_size, factor) \in Nat
    BY <2>1, Parameters, DivUpIs
  <2>3. DivUp(size, min_size) \in Nat
    BY Parameters, DivUpIs
  <2>4. Log2Up(DivUp(size, min_size)) \in Nat
    BY <2>3, Log2UpType
  <2> QED
    BY <1>2, <2>2, <2>4 DEF AllocIndex
<1> QED
  BY <1>1, <1>2

(* Larger blocks are of no smaller class. *)
LEMMA InsertIndexMonotone ==
  ASSUME NEW a \in Nat, NEW b \in Nat, a <= b
  PROVE  InsertIndex(a) <= InsertIndex(b)
<1>1. CASE a <= min_size
  BY <1>1, InsertIndexType DEF InsertIndex
<1>2. CASE ~ (a <= min_size)
  <2>1. ~ (b <= min_size) /\ a - min_size \in Nat /\ b - min_size \in Nat
        /\ a - min_size <= b - min_size
    BY <1>2, Parameters
  <2>2. (a - min_size) \div factor <= (b - min_size) \div factor
    BY <2>1, Parameters, DivMonotone
  <2>3. a \div min_size \in Nat /\ b \div min_size \in Nat /\ a \div min_size <= b \div min_size
    BY Parameters, DivMonotone, DivIs
  <2>4. Log2Down(a \div min_size) <= Log2Down(b \div min_size)
    BY <2>3, Log2DownMonotone
  <2> QED
    BY <1>2, <2>1, <2>2, <2>4 DEF InsertIndex
<1> QED
  BY <1>1, <1>2

(* A block of the class of a request above min_size is large enough. *)
LEMMA ClassServes ==
  ASSUME NEW size \in Nat, NEW c \in Nat, size > min_size,
         AllocIndex(size) <= InsertIndex(c)
  PROVE  size <= c
<1>1. CASE level_type = "linear"
  <2>1. size - min_size \in Nat \ {0}
    BY Parameters
  <2> DEFINE up == DivUp(size - min_size, factor)
  <2>2. up \in Nat /\ size - min_size <= factor * up
    BY <2>1, Parameters, DivUpIs
  <2>3. AllocIndex(size) = up
    BY <1>1, Parameters DEF AllocIndex
  <2>4. up # 0
    BY <2>1, <2>2, Parameters
  <2> HIDE DEF up
  <2>5. ~ (c <= min_size) /\ InsertIndex(c) = (c - min_size) \div factor
    BY <1>1, <2>2, <2>3, <2>4 DEF InsertIndex
  <2>6. c - min_size \in Nat
    BY <2>5, Parameters
  <2> DEFINE d == (c - min_size) \div factor
  <2>7. d \in Nat /\ factor * d <= c - min_size
    BY <2>6, Parameters, DivIs
  <2>8. up <= d
    BY <2>3, <2>5
  <2> HIDE DEF d
  <2>9. factor * up <= factor * d
    BY <2>2, <2>7, <2>8, Parameters, TimesMonotone
  <2>10. factor * up \in Nat /\ factor * d \in Nat
    BY <2>2, <2>7, Parameters
  <2> QED
    BY <2>2, <2>6, <2>7, <2>9, <2>10, <2>1, Parameters
<1>2. CASE level_type # "linear"
  <2> DEFINE up == DivUp(size, min_size)
             k  == Log2Up(up)
  <2>1. up \in Nat /\ size <= min_size * up
    BY Parameters, DivUpIs
  <2>2. up # 0 /\ up # 1
    BY <2>1, Parameters
  <2>3. k \in Nat /\ up <= 2^k
    BY <2>1, <2>2, Log2UpIs
  <2>4. AllocIndex(size) = k
    BY <1>2, Parameters DEF AllocIndex
  <2> HIDE DEF up, k
  <2>5. k # 0
    <3>1. SUFFICES ASSUME k = 0 PROVE FALSE
      OBVIOUS
    <3>2. up <= 1
      BY <3>1, <2>3, PowZero, Zenon
    <3> QED
      BY <3>2, <2>1, <2>2
  <2>6. ~ (c <= min_size) /\ InsertIndex(c) = Log2Down(c \div min_size)
    BY <1>2, <2>3, <2>4, <2>5 DEF InsertIndex
  <2> DEFINE d == c \div min_size
             m == Log2Down(d)
  <2>7. d \in Nat /\ min_size * d <= c /\ d # 0
    BY <2>6, Parameters
  <2>8. m \in Nat /\ 2^m <= d
    BY <2>7, Log2DownIs
  <2>9. k <= m
    BY <2>4, <2>6
  <2> HIDE DEF d, m
  <2>10. 2^k <= 2^m
    BY <2>3, <2>8, <2>9, PowMonotone
  <2>11. 2^k \in Nat /\ 2^m \in Nat
    BY <2>3, <2>8, PowCounts
  <2>12. up <= d
    BY <2>1, <2>3, <2>7, <2>8, <2>10, <2>11
  <2>13. min_size * up <= min_size * d
    BY <2>1, <2>7, <2>12, Parameters, TimesMonotone
  <2>14. min_size * up \in Nat /\ min_size * d \in Nat
    BY <2>1, <2>7, Parameters
  <2> QED
    BY <2>1, <2>7, <2>13, <2>14, Parameters
<1> QED
  BY <1>1, <1>2

(* A block that is large enough is at most one class below the request's. *)
LEMMA ClassNear ==
  ASSUME NEW size \in Nat, NEW c \in Nat, size > min_size, size <= c
  PROVE  AllocIndex(size) - 1 <= InsertIndex(c)
<1>0. ~ (size <= min_size) /\ ~ (c <= min_size)
  BY Parameters
<1>1. CASE level_type = "linear"
  <2>1. size - min_size \in Nat /\ c - min_size \in Nat /\ size - min_size <= c - min_size
    BY Parameters
  <2>2. (size - min_size) \div factor <= (c - min_size) \div factor
    BY <2>1, Parameters, DivMonotone
  <2>3. AllocIndex(size) = DivUp(size - min_size, factor)
        /\ InsertIndex(c) = (c - min_size) \div factor
    BY <1>0, <1>1 DEF AllocIndex, InsertIndex
  <2>4. (size - min_size) \div factor \in Nat /\ (c - min_size) \div factor \in Nat
    BY <2>1, Parameters, DivIs
  <2>5. DivUp(size - min_size, factor) <= (size - min_size) \div factor + 1
    BY <2>4 DEF DivUp
  <2>6. DivUp(size - min_size, factor) \in Nat
    BY <2>1, Parameters, DivUpIs
  <2> QED
    BY <2>2, <2>3, <2>4, <2>5, <2>6
<1>2. CASE level_type # "linear"
  <2> DEFINE up == DivUp(size, min_size)
             x  == Log2Down(up)
             d  == c \div min_size
             m  == Log2Down(d)
  <2>1. AllocIndex(size) = Log2Up(up) /\ InsertIndex(c) = m
    BY <1>0, <1>2 DEF AllocIndex, InsertIndex
  <2>2. up \in Nat /\ size <= min_size * up
    BY Parameters, DivUpIs
  <2>3. up # 0
    BY <2>2, Parameters
  <2>4. d \in Nat /\ size \div min_size \in Nat /\ size \div min_size <= d
    BY Parameters, DivIs, DivMonotone
  <2>5. up <= size \div min_size + 1
    BY <2>4 DEF DivUp
  <2>6. up <= d + 1
    BY <2>2, <2>4, <2>5
  <2>7. x \in Nat /\ 2^x <= up /\ m \in Nat
    BY <2>2, <2>3, <2>4, Log2DownIs, Log2DownType
  <2>8. x <= m + 1 /\ (2^x # up => x <= m)
    <3>1. CASE 2^x # up
      <4>1. 2^x \in Nat
        BY <2>7, PowCounts
      <4>2. 2^x <= d /\ d # 0
        <5>1. 2^x <= d
          BY <3>1, <4>1, <2>2, <2>4, <2>6, <2>7
        <5>2. 1 <= 2^x
          <6>1. 0 \in Nat /\ 0 <= x
            BY <2>7
          <6>2. 2^0 <= 2^x
            BY <6>1, <2>7, PowMonotone
          <6> QED
            BY <6>2, PowZero
        <5> QED
          BY <5>1, <5>2, <2>4, <4>1
      <4>3. d < 2^(m + 1) /\ 2^(m + 1) \in Nat
        <5>1. d < 2^(m + 1)
          BY <4>2, <2>4, Log2DownIs
        <5>2. m + 1 \in Nat
          BY <2>7
        <5> QED
          BY <5>1, <5>2, PowCounts
      <4>4. ASSUME m + 1 <= x PROVE FALSE
        <5>1. m + 1 \in Nat
          BY <2>7
        <5>2. 2^(m + 1) <= 2^x
          BY <5>1, <2>7, <4>4, PowMonotone
        <5> QED
          BY <5>2, <4>1, <4>2, <4>3, <2>4
      <4>5. x <= m
        BY <4>4, <2>7
      <4> QED
        BY <4>5, <2>7
    <3>2. CASE 2^x = up
      <4>1. ASSUME m + 2 <= x PROVE FALSE
        <5>1. d < 2^(m + 1)
          <6>1. CASE d = 0
            <7>1. m = 0
              BY <6>1 DEF Log2Down
            <7>2. 2^(m + 1) = 2 * 2^m
              BY <2>7, PowGrows
            <7>3. 2^m = 1
              BY <7>1, PowZero, Zenon
            <7> QED
              BY <7>2, <7>3, <6>1
          <6>2. CASE d # 0
            BY <6>2, <2>4, Log2DownIs
          <6> QED
            BY <6>1, <6>2
        <5>2. m + 1 \in Nat /\ m + 2 \in Nat /\ m + 2 = (m + 1) + 1
          BY <2>7
        <5>3. 2^(m + 2) <= 2^x
          BY <5>2, <2>7, <4>1, PowMonotone
        <5>4. 2^(m + 2) = 2 * 2^(m + 1)
          BY <5>2, PowGrows
        <5>5. 2^(m + 1) \in Nat /\ 2^(m + 2) \in Nat /\ 2^x \in Nat
          BY <5>2, <2>7, PowCounts
        <5>6. 2 <= 2^(m + 1)
          <6>1. 2^(m + 1) = 2 * 2^m
            BY <2>7, PowGrows
          <6>2. 0 \in Nat /\ 0 <= m
            BY <2>7
          <6>3. 2^0 <= 2^m
            BY <6>2, <2>7, PowMonotone
          <6>4. 2^m \in Nat
            BY <2>7, PowCounts
          <6> QED
            BY <6>1, <6>3, <6>4, PowZero
        <5> QED
          BY <3>2, <5>1, <5>3, <5>4, <5>5, <5>6, <2>2, <2>4, <2>6
      <4> QED
        BY <3>2, <4>1, <2>7
    <3> QED
      BY <3>1, <3>2
  <2>9. Log2Up(up) = IF 2^x = up THEN x ELSE x + 1
    BY <2>3 DEF Log2Up
  <2> HIDE DEF up, x, d, m
  <2> QED
    BY <2>1, <2>7, <2>8, <2>9
<1> QED
  BY <1>1, <1>2

-----------------------------------------------------------------------------
(* Sequences *)

Injective(s) == \A j, k \in 1 .. Len(s) : s[j] = s[k] => j = k

LEMMA MinIs ==
  ASSUME NEW I \in SUBSET Nat, I # {}
  PROVE  Min(I) \in I /\ \A k \in I : Min(I) <= k
<1>1. \E m \in I : \A k \in I : m <= k
  BY LeastOf
<1> QED
  BY <1>1 DEF Min

Inserted(S, s, p, e, t) ==
  /\ t \in Seq(S)
  /\ Len(t) = Len(s) + 1
  /\ \A k \in 1 .. Len(s) + 1 : t[k] = IF k < p THEN s[k] ELSE IF k = p THEN e ELSE s[k - 1]

LEMMA InsertAtIs ==
  ASSUME NEW S, NEW s \in Seq(S), NEW p \in 1 .. Len(s) + 1, NEW e \in S
  PROVE  Inserted(S, s, p, e, InsertAt(s, p, e))
<1>1. Len(s) \in Nat
  OBVIOUS
<1>2. /\ SubSeq(s, 1, p - 1) \in Seq(S) /\ Len(SubSeq(s, 1, p - 1)) = p - 1
      /\ \A k \in 1 .. p - 1 : SubSeq(s, 1, p - 1)[k] = s[k]
  <2>1. \A k \in 1 .. p - 1 : s[k] \in S
    BY <1>1
  <2> QED
    BY <1>1, <2>1, SubSeqProperties
<1>3. /\ SubSeq(s, p, Len(s)) \in Seq(S) /\ Len(SubSeq(s, p, Len(s))) = Len(s) - p + 1
      /\ \A k \in 1 .. Len(s) - p + 1 : SubSeq(s, p, Len(s))[k] = s[p + k - 1]
  <2>1. \A k \in p .. Len(s) : s[k] \in S
    BY <1>1
  <2> QED
    BY <1>1, <2>1, SubSeqProperties
<1>4. PICK x, z : x = SubSeq(s, 1, p - 1) /\ z = SubSeq(s, p, Len(s))
  OBVIOUS
<1>5. <<e>> \in Seq(S) /\ Len(<<e>>) = 1 /\ <<e>>[1] = e
  OBVIOUS
<1>6. /\ x \o <<e>> \in Seq(S) /\ Len(x \o <<e>>) = p
      /\ \A k \in 1 .. p : (x \o <<e>>)[k] = IF k < p THEN s[k] ELSE e
  <2>1. x \in Seq(S) /\ Len(x) = p - 1 /\ \A k \in 1 .. p - 1 : x[k] = s[k]
    BY <1>2, <1>4
  <2>2. /\ x \o <<e>> \in Seq(S) /\ Len(x \o <<e>>) = Len(x) + Len(<<e>>)
        /\ \A k \in 1 .. Len(x) + Len(<<e>>) : (x \o <<e>>)[k] =
             IF k <= Len(x) THEN x[k] ELSE <<e>>[k - Len(x)]
    BY <2>1, <1>5, ConcatProperties
  <2>3. PICK y : y = x \o <<e>>
    OBVIOUS
  <2>4. p \in Nat \ {0}
    BY <1>1
  <2>5. y \in Seq(S) /\ Len(y) = p
    BY <2>1, <2>2, <2>3, <2>4, <1>5
  <2>6. ASSUME NEW k \in 1 .. p, k < p PROVE y[k] = s[k]
    <3>1. k \in 1 .. p - 1 /\ k <= Len(x) /\ k \in 1 .. Len(x) + Len(<<e>>)
      BY <2>1, <2>4, <2>6, <1>5
    <3>2. y[k] = x[k]
      BY <3>1, <2>2, <2>3
    <3> QED
      BY <3>1, <3>2, <2>1
  <2>7. y[p] = e
    <3>1. ~ (p <= Len(x)) /\ p \in 1 .. Len(x) + Len(<<e>>) /\ p - Len(x) = 1
      BY <2>1, <2>4, <1>5
    <3>2. y[p] = <<e>>[p - Len(x)]
      BY <3>1, <2>2, <2>3
    <3> QED
      BY <3>1, <3>2, <1>5
  <2>8. \A k \in 1 .. p : y[k] = IF k < p THEN s[k] ELSE e
    BY <2>4, <2>6, <2>7
  <2> QED
    BY <2>3, <2>5, <2>8
<1>7. PICK w : w = x \o <<e>>
  OBVIOUS
<1>8. /\ w \o z \in Seq(S) /\ Len(w \o z) = Len(s) + 1
      /\ \A k \in 1 .. Len(s) + 1 : (w \o z)[k] = IF k <= p THEN w[k] ELSE z[k - p]
  <2>1. z \in Seq(S) /\ Len(z) = Len(s) - p + 1 /\ w \in Seq(S) /\ Len(w) = p
    BY <1>3, <1>4, <1>6, <1>7
  <2>2. /\ w \o z \in Seq(S) /\ Len(w \o z) = Len(w) + Len(z)
        /\ \A k \in 1 .. Len(w) + Len(z) : (w \o z)[k] =
             IF k <= Len(w) THEN w[k] ELSE z[k - Len(w)]
    BY <2>1, ConcatProperties
  <2> QED
    BY <2>1, <2>2, <1>1
<1>9. InsertAt(s, p, e) = w \o z
  BY <1>4, <1>7 DEF InsertAt
<1>10. \A k \in 1 .. Len(s) + 1 : (w \o z)[k] =
         IF k < p THEN s[k] ELSE IF k = p THEN e ELSE s[k - 1]
  <2> SUFFICES ASSUME NEW k \in 1 .. Len(s) + 1
               PROVE  (w \o z)[k] = IF k < p THEN s[k] ELSE IF k = p THEN e ELSE s[k - 1]
    OBVIOUS
  <2>1. CASE k <= p
    BY <2>1, <1>1, <1>6, <1>7, <1>8
  <2>2. CASE ~ (k <= p)
    <3>1. k - p \in 1 .. Len(s) - p + 1 /\ p + (k - p) - 1 = k - 1
      BY <2>2, <1>1
    <3>2. z[k - p] = s[k - 1]
      BY <3>1, <1>3, <1>4
    <3> QED
      BY <2>2, <3>2, <1>8, <1>1
  <2> QED
    BY <2>1, <2>2
<1> QED
  BY <1>8, <1>9, <1>10 DEF Inserted

LEMMA RemoveFirstIs ==
  ASSUME NEW S, NEW s \in Seq(S), Injective(s), NEW p \in 1 .. Len(s)
  PROVE  /\ RemoveFirst(s, s[p]) \in Seq(S)
         /\ Len(RemoveFirst(s, s[p])) = Len(s) - 1
         /\ \A k \in 1 .. Len(s) - 1 : RemoveFirst(s, s[p])[k] = IF k < p THEN s[k] ELSE s[k + 1]
<1>1. Len(s) \in Nat
  OBVIOUS
<1>2. RemoveFirst(s, s[p]) = SubSeq(s, 1, p - 1) \o SubSeq(s, p + 1, Len(s))
  <2>1. {i \in 1 .. Len(s) : s[i] = s[p]} = {p}
    BY DEF Injective
  <2>2. Min({p}) = p
    BY DEF Min
  <2>3. SelectInSeq(s, LAMBDA v : v = s[p]) = p
    BY <2>1, <2>2 DEF SelectInSeq
  <2> QED
    BY <2>3 DEF RemoveFirst, RemoveAt
<1>3. /\ SubSeq(s, 1, p - 1) \in Seq(S) /\ Len(SubSeq(s, 1, p - 1)) = p - 1
      /\ \A k \in 1 .. p - 1 : SubSeq(s, 1, p - 1)[k] = s[k]
  <2>1. \A k \in 1 .. p - 1 : s[k] \in S
    BY <1>1
  <2> QED
    BY <1>1, <2>1, SubSeqProperties
<1>4. /\ SubSeq(s, p + 1, Len(s)) \in Seq(S) /\ Len(SubSeq(s, p + 1, Len(s))) = Len(s) - p
      /\ \A k \in 1 .. Len(s) - p : SubSeq(s, p + 1, Len(s))[k] = s[p + k]
  <2>1. \A k \in p + 1 .. Len(s) : s[k] \in S
    BY <1>1
  <2>2. /\ SubSeq(s, p + 1, Len(s)) \in Seq(S)
        /\ Len(SubSeq(s, p + 1, Len(s))) = IF p + 1 <= Len(s) THEN Len(s) - (p + 1) + 1 ELSE 0
        /\ \A k \in 1 .. Len(s) - (p + 1) + 1 : SubSeq(s, p + 1, Len(s))[k] = s[(p + 1) + k - 1]
    <3>1. p + 1 \in Int /\ Len(s) \in Int
      BY <1>1
    <3> QED
      BY <2>1, <3>1, SubSeqProperties
  <2> QED
    BY <1>1, <2>2
<1>5. PICK x, z : x = SubSeq(s, 1, p - 1) /\ z = SubSeq(s, p + 1, Len(s))
  OBVIOUS
<1>6. /\ x \o z \in Seq(S) /\ Len(x \o z) = Len(s) - 1
      /\ \A k \in 1 .. Len(s) - 1 : (x \o z)[k] = IF k <= p - 1 THEN x[k] ELSE z[k - (p - 1)]
  <2>1. z \in Seq(S) /\ Len(z) = Len(s) - p /\ x \in Seq(S) /\ Len(x) = p - 1
    BY <1>3, <1>4, <1>5
  <2>2. /\ x \o z \in Seq(S) /\ Len(x \o z) = Len(x) + Len(z)
        /\ \A k \in 1 .. Len(x) + Len(z) : (x \o z)[k] =
             IF k <= Len(x) THEN x[k] ELSE z[k - Len(x)]
    BY <2>1, ConcatProperties
  <2> QED
    BY <2>1, <2>2, <1>1
<1>7. \A k \in 1 .. Len(s) - 1 : (x \o z)[k] = IF k < p THEN s[k] ELSE s[k + 1]
  <2> SUFFICES ASSUME NEW k \in 1 .. Len(s) - 1
               PROVE  (x \o z)[k] = IF k < p THEN s[k] ELSE s[k + 1]
    OBVIOUS
  <2>1. CASE k < p
    <3>1. k \in 1 .. p - 1 /\ k <= p - 1
      BY <2>1, <1>1
    <3> QED
      BY <3>1, <2>1, <1>3, <1>5, <1>6
  <2>2. CASE ~ (k < p)
    <3>1. k - (p - 1) \in 1 .. Len(s) - p /\ p + (k - (p - 1)) = k + 1
      BY <2>2, <1>1
    <3>2. z[k - (p - 1)] = s[k + 1]
      BY <3>1, <1>4, <1>5
    <3> QED
      BY <2>2, <3>2, <1>6, <1>1
  <2> QED
    BY <2>1, <2>2
<1> QED
  BY <1>2, <1>5, <1>6, <1>7

-----------------------------------------------------------------------------
(* The free lists *)

Block == [addr : Nat, size : Nat, act : Nat, alloc : BOOLEAN]
Lists == [free : [Classes -> Seq(Nat)], available : Seq(Classes),
          max_available_index : 0 .. free_len]

ClassOf(b) == IF InsertIndex(b.size) > free_len - 1 THEN free_len - 1 ELSE InsertIndex(b.size)

(* A set of free blocks, known by their addresses. *)
Distinct(F) == \A b, c \in F : b.addr = c.addr => b = c

Listed(L, F) ==
  /\ \A i \in Classes : \A k \in 1 .. Len(L.free[i]) :
       \E b \in F : ClassOf(b) = i /\ b.addr = L.free[i][k]
  /\ \A b \in F : \E k \in 1 .. Len(L.free[ClassOf(b)]) : L.free[ClassOf(b)][k] = b.addr
  /\ \A i \in Classes : Injective(L.free[i])

Available(L) ==
  /\ \A j \in 1 .. Len(L.available) : L.free[L.available[j]] # <<>>
  /\ \A i \in Classes : L.free[i] # <<>> => \E j \in 1 .. Len(L.available) : L.available[j] = i
  /\ \A j, k \in 1 .. Len(L.available) : j < k => L.available[j] < L.available[k]
  /\ L.max_available_index =
       IF L.available = <<>> THEN free_len ELSE L.available[Len(L.available)]

(* The lists are those of the free blocks F. *)
InStep(L, F) == L \in Lists /\ Listed(L, F) /\ Available(L)

LEMMA ClassOfType ==
  ASSUME NEW b \in Block
  PROVE  /\ ClassOf(b) \in Classes /\ ClassOf(b) <= InsertIndex(b.size)
         /\ ClassOf(b) < free_len - 1 => ClassOf(b) = InsertIndex(b.size)
<1>1. b.size \in Nat
  BY DEF Block
<1>2. InsertIndex(b.size) \in Nat
  BY <1>1, InsertIndexType
<1> QED
  BY <1>2, FreeLenType DEF ClassOf, Classes

(* What is free is on a list of an available class, none of which is       *)
(* larger than the cached maximum.                                         *)
LEMMA MaximumIs ==
  ASSUME NEW L \in Lists, Available(L), NEW i \in Classes, L.free[i] # <<>>
  PROVE  /\ L.available # <<>> /\ Len(L.available) \in Nat \ {0}
         /\ L.max_available_index = L.available[Len(L.available)]
         /\ L.max_available_index \in Classes
         /\ L.free[L.max_available_index] # <<>>
         /\ i <= L.max_available_index
<1>1. L.available \in Seq(Classes)
  BY DEF Lists
<1>2. PICK s : s = L.available
  OBVIOUS
<1>3. s \in Seq(Classes) /\ Len(s) \in Nat
  BY <1>1, <1>2
<1>4. PICK j \in 1 .. Len(s) : s[j] = i
  BY <1>2 DEF Available
<1>5. Len(s) # 0 /\ s # <<>> /\ Len(s) \in 1 .. Len(s)
  BY <1>3, <1>4
<1>6. s[Len(s)] \in Classes
  BY <1>3, <1>5
<1>7. L.max_available_index = s[Len(s)]
  BY <1>2, <1>5 DEF Available
<1>8. L.free[s[Len(s)]] # <<>>
  BY <1>2, <1>5 DEF Available
<1>9. i <= s[Len(s)]
  <2>1. CASE j = Len(s)
    BY <2>1, <1>4, FreeLenType DEF Classes
  <2>2. CASE j < Len(s)
    BY <2>2, <1>2, <1>4, <1>5, <1>6, FreeLenType DEF Available, Classes
  <2> QED
    BY <2>1, <2>2, <1>3, <1>4
<1> QED
  BY <1>2, <1>3, <1>5, <1>6, <1>7, <1>8, <1>9

(* The lists of no block. *)
NoLists == [free |-> [i \in Classes |-> <<>>], available |-> <<>>, max_available_index |-> free_len]

LEMMA NoListsInStep == InStep(NoLists, {})
<1>1. NoLists \in Lists
  BY FreeLenType DEF NoLists, Lists
<1>2. Listed(NoLists, {})
  BY DEF Listed, NoLists, Injective
<1>3. Available(NoLists)
  BY DEF Available, NoLists
<1> QED
  BY <1>1, <1>2, <1>3 DEF InStep

(* fast_shmem_remove_free of a free block succeeds, and takes it off its   *)
(* list: the classes available and their maximum follow.                   *)
LEMMA RemoveFreeIs ==
  ASSUME NEW F \in SUBSET Block, Distinct(F), NEW L, InStep(L, F), NEW b \in F
  PROVE  RemoveFree(L, b).ok /\ InStep(RemoveFree(L, b).lists, F \ {b})
<1> DEFINE c == ClassOf(b)
<1>1. /\ L \in Lists /\ L.free \in [Classes -> Seq(Nat)] /\ L.available \in Seq(Classes)
      /\ L.max_available_index \in 0 .. free_len
  BY DEF InStep, Lists
<1>2. b \in Block /\ b.addr \in Nat /\ b.size \in Nat /\ InsertIndex(b.size) \in Nat
  BY InsertIndexType DEF Block
<1>3. c \in Classes /\ L.free[c] \in Seq(Nat) /\ Len(L.free[c]) \in Nat
  BY <1>1, <1>2, ClassOfType
<1>4. PICK p \in 1 .. Len(L.free[c]) : L.free[c][p] = b.addr
  BY DEF InStep, Listed
<1>5. L.free[c] # <<>>
  BY <1>3, <1>4
<1>6. /\ L.available # <<>> /\ L.max_available_index = L.available[Len(L.available)]
      /\ L.max_available_index \in Classes /\ c <= L.max_available_index
      /\ Len(L.available) \in Nat \ {0}
  BY <1>1, <1>3, <1>5, MaximumIs DEF InStep
<1>7. (IF InsertIndex(b.size) > L.max_available_index
       THEN L.max_available_index ELSE InsertIndex(b.size)) = c
  <2>1. PICK n, m, l : n = InsertIndex(b.size) /\ m = L.max_available_index /\ l = free_len
    OBVIOUS
  <2>2. c = IF n > l - 1 THEN l - 1 ELSE n
    BY <2>1 DEF ClassOf
  <2>3. n \in Nat /\ l \in Nat /\ m \in 0 .. l - 1 /\ c <= m
    BY <1>2, <1>6, <2>1, FreeLenType DEF Classes
  <2>4. (IF n > m THEN m ELSE n) = c
    BY <2>2, <2>3
  <2> QED
    BY <2>1, <2>4
<1>8. Contains(L.free[c], b.addr)
  BY <1>4 DEF Contains
<1> HIDE DEF c
<1>9. PICK f, rest, left : /\ f = L.free[c] /\ rest = RemoveFirst(f, b.addr)
                           /\ left = RemoveFirst(L.available, c)
  OBVIOUS
<1>10. RemoveFree(L, b) =
         [ok |-> TRUE,
          lists |-> IF rest # <<>> THEN [L EXCEPT !.free[c] = rest]
                    ELSE [free |-> [L.free EXCEPT ![c] = rest],
                          available |-> left,
                          max_available_index |->
                            IF c # L.max_available_index THEN L.max_available_index
                            ELSE IF left = <<>> THEN free_len ELSE Last(left)]]
  BY <1>7, <1>8, <1>9 DEF RemoveFree
<1>11. /\ f \in Seq(Nat) /\ Injective(f) /\ f[p] = b.addr /\ p \in 1 .. Len(f) /\ Len(f) \in Nat
  BY <1>3, <1>4, <1>9 DEF InStep, Listed
<1>12. /\ rest \in Seq(Nat) /\ Len(rest) = Len(f) - 1
       /\ \A k \in 1 .. Len(f) - 1 : rest[k] = IF k < p THEN f[k] ELSE f[k + 1]
  <2>1. rest = RemoveFirst(f, f[p])
    BY <1>9, <1>11
  <2> QED
    BY <2>1, <1>11, RemoveFirstIs
<1>13. PICK M : M = RemoveFree(L, b).lists
  OBVIOUS
<1>14. M.free = [L.free EXCEPT ![c] = rest]
  BY <1>1, <1>10, <1>13 DEF Lists
<1>15. /\ M.free \in [Classes -> Seq(Nat)] /\ M.free[c] = rest
       /\ \A i \in Classes \ {c} : M.free[i] = L.free[i]
  BY <1>1, <1>3, <1>12, <1>14
<1>16. Listed(M, F \ {b})
  <2>1. ASSUME NEW i \in Classes, NEW k \in 1 .. Len(M.free[i])
        PROVE  \E d \in F \ {b} : ClassOf(d) = i /\ d.addr = M.free[i][k]
    <3>1. CASE i # c
      <4>1. i \in Classes \ {c} /\ M.free[i] = L.free[i] /\ k \in 1 .. Len(L.free[i])
        BY <3>1, <1>15, <2>1
      <4>2. PICK d \in F : ClassOf(d) = i /\ d.addr = L.free[i][k]
        BY <4>1 DEF InStep, Listed
      <4>3. d # b
        BY <4>2, <3>1 DEF c
      <4> QED
        BY <4>1, <4>2, <4>3
    <3>2. CASE i = c
      <4>1. PICK m \in 1 .. Len(f) : m # p /\ rest[k] = f[m]
        <5>1. k \in 1 .. Len(f) - 1
          BY <3>2, <1>12, <1>15
        <5>2. CASE k < p
          <6>1. k \in 1 .. Len(f) /\ k # p
            BY <5>1, <5>2, <1>11
          <6>2. rest[k] = f[k]
            BY <5>1, <5>2, <1>12
          <6> QED
            BY <6>1, <6>2
        <5>3. CASE ~ (k < p)
          <6>1. k + 1 \in 1 .. Len(f) /\ k + 1 # p
            BY <5>1, <5>3, <1>11
          <6> QED
            BY <6>1, <5>1, <5>3, <1>12
        <5> QED
          BY <5>2, <5>3
      <4>2. PICK d \in F : ClassOf(d) = c /\ d.addr = f[m]
        BY <1>3, <1>9, <4>1 DEF InStep, Listed
      <4>3. d # b
        BY <4>1, <4>2, <1>11 DEF Injective
      <4> QED
        BY <4>1, <4>2, <4>3, <3>2, <1>15
    <3> QED
      BY <3>1, <3>2
  <2>2. ASSUME NEW d \in F \ {b}
        PROVE  \E k \in 1 .. Len(M.free[ClassOf(d)]) : M.free[ClassOf(d)][k] = d.addr
    <3>1. PICK m \in 1 .. Len(L.free[ClassOf(d)]) : L.free[ClassOf(d)][m] = d.addr
      BY DEF InStep, Listed
    <3>2. ClassOf(d) \in Classes
      BY ClassOfType
    <3>3. CASE ClassOf(d) # c
      BY <3>1, <3>2, <3>3, <1>15
    <3>4. CASE ClassOf(d) = c
      <4>1. m \in 1 .. Len(f) /\ f[m] = d.addr
        BY <3>1, <3>4, <1>9
      <4>2. m # p
        BY <4>1, <1>11 DEF Distinct
      <4>3. \E k \in 1 .. Len(f) - 1 : rest[k] = d.addr
        <5>1. CASE m < p
          <6>1. m \in 1 .. Len(f) - 1
            BY <5>1, <4>1, <1>11
          <6> QED
            BY <6>1, <5>1, <4>1, <1>12
        <5>2. CASE p < m
          <6>1. m - 1 \in 1 .. Len(f) - 1 /\ ~ (m - 1 < p) /\ (m - 1) + 1 = m
            BY <5>2, <4>1, <1>11
          <6> QED
            BY <6>1, <4>1, <1>12
        <5> QED
          BY <5>1, <5>2, <4>1, <4>2, <1>11
      <4> QED
        BY <4>3, <3>4, <1>12, <1>15
    <3> QED
      BY <3>3, <3>4
  <2>3. ASSUME NEW i \in Classes PROVE Injective(M.free[i])
    <3>1. CASE i # c
      BY <3>1, <1>15 DEF InStep, Listed
    <3>2. CASE i = c
      <4>1. ASSUME NEW j \in 1 .. Len(f) - 1, NEW k \in 1 .. Len(f) - 1, rest[j] = rest[k]
            PROVE  j = k
        <5>1. PICK x \in 1 .. Len(f) : x = IF j < p THEN j ELSE j + 1
          BY <1>11
        <5>2. PICK y \in 1 .. Len(f) : y = IF k < p THEN k ELSE k + 1
          BY <1>11
        <5>3. rest[j] = f[x] /\ rest[k] = f[y]
          BY <5>1, <5>2, <1>12
        <5>4. x = y
          BY <5>3, <4>1, <1>11 DEF Injective
        <5> QED
          BY <5>1, <5>2, <5>4, <1>11
      <4> QED
        BY <4>1, <3>2, <1>12, <1>15 DEF Injective
    <3> QED
      BY <3>1, <3>2
  <2> QED
    BY <2>1, <2>2, <2>3 DEF Listed
<1>17. CASE rest # <<>>
  <2>1. /\ M.available = L.available /\ M.max_available_index = L.max_available_index
        /\ M = [free |-> M.free, available |-> M.available,
                max_available_index |-> M.max_available_index]
    <3>1. M = [L EXCEPT !.free[c] = rest]
      BY <1>10, <1>13, <1>17
    <3>2. L = [free |-> L.free, available |-> L.available,
               max_available_index |-> L.max_available_index]
      BY <1>1 DEF Lists
    <3> QED
      BY <3>1, <3>2
  <2>2. M \in Lists
    BY <1>1, <1>15, <2>1 DEF Lists
  <2>3. Available(M)
    <3>1. ASSUME NEW i \in Classes PROVE M.free[i] # <<>> <=> L.free[i] # <<>>
      BY <1>5, <1>15, <1>17
    <3>2. \A j \in 1 .. Len(L.available) : L.available[j] \in Classes
      BY <1>1
    <3> QED
      BY <2>1, <3>1, <3>2 DEF InStep, Available
  <2> QED
    BY <1>10, <1>13, <1>16, <2>2, <2>3 DEF InStep
<1>18. CASE rest = <<>>
  <2>1. PICK s : s = L.available
    OBVIOUS
  <2>2. /\ s \in Seq(Classes) /\ Len(s) \in Nat \ {0}
        /\ \A j, k \in 1 .. Len(s) : j < k => s[j] < s[k]
        /\ \A j \in 1 .. Len(s) : s[j] \in Classes /\ L.free[s[j]] # <<>>
    <3>1. s \in Seq(Classes) /\ Len(s) \in Nat \ {0}
      BY <1>1, <1>6, <2>1
    <3>2. \A j \in 1 .. Len(s) : s[j] \in Classes
      BY <3>1
    <3>3. \A j \in 1 .. Len(s) : L.free[s[j]] # <<>>
      BY <2>1 DEF InStep, Available
    <3>4. \A j, k \in 1 .. Len(s) : j < k => s[j] < s[k]
      BY <2>1 DEF InStep, Available
    <3> QED
      BY <3>1, <3>2, <3>3, <3>4
  <2>3. Injective(s)
    <3>1. ASSUME NEW j \in 1 .. Len(s), NEW k \in 1 .. Len(s), s[j] = s[k], j < k PROVE FALSE
      BY <3>1, <2>2, FreeLenType DEF Classes
    <3> QED
      BY <3>1, <2>2 DEF Injective
  <2>4. PICK q \in 1 .. Len(s) : s[q] = c
    BY <1>3, <1>5, <2>1 DEF InStep, Available
  <2>5. /\ left \in Seq(Classes) /\ Len(left) = Len(s) - 1
        /\ \A k \in 1 .. Len(s) - 1 : left[k] = IF k < q THEN s[k] ELSE s[k + 1]
    BY <1>9, <2>1, <2>2, <2>3, <2>4, RemoveFirstIs
  <2>6. PICK m : m = IF c # L.max_available_index THEN L.max_available_index
                     ELSE IF left = <<>> THEN free_len ELSE Last(left)
    OBVIOUS
  <2>7. M = [free |-> M.free, available |-> left, max_available_index |-> m]
    BY <1>10, <1>13, <1>14, <1>18, <2>6
  <2>8. q = Len(s) <=> c = L.max_available_index
    BY <1>6, <2>1, <2>2, <2>3, <2>4 DEF Injective
  <2>9. left = <<>> <=> Len(s) = 1
    BY <2>2, <2>5
  <2>10. left # <<>> => Last(left) = left[Len(s) - 1]
    BY <2>5 DEF Last
  <2>11. m = IF left = <<>> THEN free_len ELSE left[Len(left)]
    <3>1. CASE left = <<>>
      <4>1. q = Len(s)
        <5>1. Len(s) = 1
          BY <3>1, <2>9
        <5>2. q \in 1 .. 1
          BY <5>1, <2>4
        <5> QED
          BY <5>1, <5>2
      <4> QED
        BY <4>1, <3>1, <2>6, <2>8
    <3>2. CASE left # <<>> /\ q = Len(s)
      BY <3>2, <2>5, <2>6, <2>8, <2>10
    <3>3. CASE left # <<>> /\ q # Len(s)
      <4>1. Len(s) - 1 \in 1 .. Len(s) - 1 /\ ~ (Len(s) - 1 < q) /\ (Len(s) - 1) + 1 = Len(s)
        BY <3>3, <2>2, <2>4, <2>9
      <4>2. left[Len(s) - 1] = s[Len(s)]
        BY <4>1, <2>5
      <4> QED
        BY <4>2, <3>3, <2>1, <2>5, <2>6, <2>8, <1>6
    <3> QED
      BY <3>1, <3>2, <3>3
  <2>12. M \in Lists
    <3>1. m \in 0 .. free_len
      <4>1. CASE left = <<>>
        BY <4>1, <2>11, FreeLenType
      <4>2. CASE left # <<>>
        <5>1. Len(left) \in 1 .. Len(left)
          BY <4>2, <2>2, <2>5, <2>9
        <5>2. left[Len(left)] \in Classes
          BY <5>1, <2>5
        <5> QED
          BY <5>2, <4>2, <2>11, FreeLenType DEF Classes
      <4> QED
        BY <4>1, <4>2
    <3> QED
      BY <3>1, <1>15, <2>5, <2>7 DEF Lists
  <2>13. Available(M)
    <3>1. ASSUME NEW j \in 1 .. Len(left) PROVE M.free[left[j]] # <<>>
      <4>1. PICK k \in 1 .. Len(s) : k # q /\ left[j] = s[k]
        <5>1. CASE j < q
          <6>1. j \in 1 .. Len(s) /\ j \in 1 .. Len(s) - 1
            BY <2>2, <2>5
          <6> QED
            BY <5>1, <6>1, <2>5, <2>4
        <5>2. CASE ~ (j < q)
          <6>1. j + 1 \in 1 .. Len(s) /\ j \in 1 .. Len(s) - 1 /\ j + 1 # q
            BY <5>2, <2>2, <2>4, <2>5
          <6> QED
            BY <5>2, <6>1, <2>5
        <5> QED
          BY <5>1, <5>2
      <4>2. s[k] # c /\ s[k] \in Classes
        BY <4>1, <2>2, <2>3, <2>4 DEF Injective
      <4> QED
        BY <4>1, <4>2, <2>2, <1>15
    <3>2. ASSUME NEW i \in Classes, M.free[i] # <<>>
          PROVE  \E j \in 1 .. Len(left) : left[j] = i
      <4>1. i # c /\ L.free[i] # <<>>
        BY <3>2, <1>15, <1>18
      <4>2. PICK k \in 1 .. Len(s) : s[k] = i
        BY <4>1, <2>1 DEF InStep, Available
      <4>3. k # q
        BY <4>1, <4>2, <2>4
      <4>4. CASE k < q
        <5>1. k \in 1 .. Len(s) - 1
          BY <4>4, <2>2, <2>4
        <5> QED
          BY <5>1, <4>4, <4>2, <2>5
      <4>5. CASE q < k
        <5>1. k - 1 \in 1 .. Len(s) - 1 /\ ~ (k - 1 < q) /\ (k - 1) + 1 = k
          BY <4>5, <2>2, <2>4
        <5> QED
          BY <5>1, <4>2, <2>5
      <4> QED
        BY <4>3, <4>4, <4>5, <2>2, <2>4
    <3>3. ASSUME NEW j \in 1 .. Len(left), NEW k \in 1 .. Len(left), j < k
          PROVE  left[j] < left[k]
      <4>1. PICK x \in 1 .. Len(s) : x = IF j < q THEN j ELSE j + 1
        BY <2>2, <2>5
      <4>2. PICK y \in 1 .. Len(s) : y = IF k < q THEN k ELSE k + 1
        BY <2>2, <2>5
      <4>3. x < y
        BY <4>1, <4>2, <3>3, <2>2, <2>4
      <4>4. left[j] = s[x] /\ left[k] = s[y]
        BY <4>1, <4>2, <2>5
      <4> QED
        BY <4>3, <4>4, <2>2
    <3> QED
      BY <3>1, <3>2, <3>3, <2>7, <2>11 DEF Available
  <2> QED
    BY <1>10, <1>13, <1>16, <2>12, <2>13 DEF InStep
<1> QED
  BY <1>17, <1>18

(* fast_shmem_insert_free puts a block on the list of its class, which     *)
(* becomes available in its place.                                         *)
LEMMA InsertFreeIs ==
  ASSUME NEW F \in SUBSET Block, NEW L, InStep(L, F), NEW b \in Block,
         \A d \in F : d.addr # b.addr
  PROVE  InStep(InsertFree(L, b), F \cup {b})
<1> DEFINE c == ClassOf(b)
<1>1. /\ L \in Lists /\ L.free \in [Classes -> Seq(Nat)] /\ L.available \in Seq(Classes)
      /\ L.max_available_index \in 0 .. free_len
  BY DEF InStep, Lists
<1>2. b.addr \in Nat
  BY DEF Block
<1>3. c \in Classes /\ L.free[c] \in Seq(Nat) /\ Len(L.free[c]) \in Nat
  BY <1>1, ClassOfType
<1>4. PICK f, g : f = L.free[c] /\ g = <<b.addr>> \o f
  OBVIOUS
<1>5. f \in Seq(Nat) /\ Len(f) \in Nat
  BY <1>3, <1>4
<1>6. /\ g \in Seq(Nat) /\ Len(g) = Len(f) + 1 /\ g # <<>>
      /\ \A k \in 1 .. Len(f) + 1 : g[k] = IF k = 1 THEN b.addr ELSE f[k - 1]
  <2>1. <<b.addr>> \in Seq(Nat) /\ Len(<<b.addr>>) = 1 /\ <<b.addr>>[1] = b.addr
    BY <1>2
  <2>2. /\ g \in Seq(Nat) /\ Len(g) = Len(<<b.addr>>) + Len(f)
        /\ \A k \in 1 .. Len(<<b.addr>>) + Len(f) : g[k] =
             IF k <= Len(<<b.addr>>) THEN <<b.addr>>[k] ELSE f[k - Len(<<b.addr>>)]
    BY <1>4, <1>5, <2>1, ConcatProperties
  <2>3. Len(g) = Len(f) + 1
    BY <2>1, <2>2, <1>5
  <2> QED
    BY <2>1, <2>2, <2>3, <1>5
<1>7. PICK larger : larger = SelectInSeq(L.available, LAMBDA j : j > c)
  OBVIOUS
<1>8. PICK M : M = InsertFree(L, b)
  OBVIOUS
<1>9. M = [free |-> [L.free EXCEPT ![c] = <<b.addr>> \o @],
           available |->
             IF L.free[c] # <<>> THEN L.available
             ELSE InsertAt(L.available, IF larger = 0 THEN Len(L.available) + 1 ELSE larger, c),
           max_available_index |->
             IF L.free[c] = <<>> /\ larger = 0 THEN c ELSE L.max_available_index]
  BY <1>7, <1>8 DEF InsertFree, ClassOf
<1> HIDE DEF c
<1>10. /\ M.free \in [Classes -> Seq(Nat)] /\ M.free[c] = g
       /\ \A i \in Classes \ {c} : M.free[i] = L.free[i]
  <2>1. PICK H : H = [L.free EXCEPT ![c] = g]
    OBVIOUS
  <2>2. [L.free EXCEPT ![c] = <<b.addr>> \o @] = H
    BY <2>1, <1>4
  <2>3. M.free = H
    BY <2>2, <1>9
  <2>4. PICK x : x = L.free
    OBVIOUS
  <2>5. x \in [Classes -> Seq(Nat)] /\ c \in Classes /\ g \in Seq(Nat) /\ H = [x EXCEPT ![c] = g]
    BY <2>1, <2>4, <1>1, <1>3, <1>6
  <2>6. H \in [Classes -> Seq(Nat)] /\ H[c] = g /\ \A i \in Classes \ {c} : H[i] = x[i]
    BY <2>5
  <2> QED
    BY <2>3, <2>4, <2>6
<1>11. Listed(M, F \cup {b})
  <2>1. ASSUME NEW i \in Classes, NEW k \in 1 .. Len(M.free[i])
        PROVE  \E d \in F \cup {b} : ClassOf(d) = i /\ d.addr = M.free[i][k]
    <3>1. CASE i # c
      <4>1. M.free[i] = L.free[i] /\ k \in 1 .. Len(L.free[i])
        BY <3>1, <2>1, <1>10
      <4>2. PICK d \in F : ClassOf(d) = i /\ d.addr = L.free[i][k]
        BY <4>1 DEF InStep, Listed
      <4>3. d.addr = M.free[i][k] /\ d \in F \cup {b}
        BY <4>1, <4>2
      <4> QED
        BY <4>2, <4>3
    <3>2. CASE i = c /\ k = 1
      <4>1. M.free[i][k] = b.addr
        BY <3>2, <1>5, <1>6, <1>10
      <4> QED
        BY <3>2, <4>1 DEF c
    <3>3. CASE i = c /\ k # 1
      <4>1. k - 1 \in 1 .. Len(f) /\ M.free[i][k] = f[k - 1]
        BY <3>3, <1>5, <1>6, <1>10
      <4>2. PICK d \in F : ClassOf(d) = c /\ d.addr = f[k - 1]
        BY <4>1, <1>3, <1>4 DEF InStep, Listed
      <4> QED
        BY <4>1, <4>2, <3>3
    <3> QED
      BY <3>1, <3>2, <3>3
  <2>2. ASSUME NEW d \in F \cup {b}
        PROVE  \E k \in 1 .. Len(M.free[ClassOf(d)]) : M.free[ClassOf(d)][k] = d.addr
    <3>1. CASE d = b
      <4>1. 1 \in 1 .. Len(g) /\ g[1] = b.addr
        BY <1>5, <1>6
      <4> QED
        BY <4>1, <3>1, <1>10 DEF c
    <3>2. CASE d \in F /\ ClassOf(d) # c
      <4>1. ClassOf(d) \in Classes
        BY <3>2, ClassOfType
      <4> QED
        BY <4>1, <3>2, <1>10 DEF InStep, Listed
    <3>3. CASE d \in F /\ ClassOf(d) = c
      <4>1. PICK m \in 1 .. Len(f) : f[m] = d.addr
        BY <3>3, <1>4 DEF InStep, Listed
      <4>2. m + 1 \in 1 .. Len(g) /\ g[m + 1] = f[m]
        BY <4>1, <1>5, <1>6
      <4> QED
        BY <4>1, <4>2, <3>3, <1>10
    <3> QED
      BY <3>1, <3>2, <3>3
  <2>3. ASSUME NEW i \in Classes PROVE Injective(M.free[i])
    <3>1. CASE i # c
      BY <3>1, <1>10 DEF InStep, Listed
    <3>2. CASE i = c
      <4>1. Injective(f)
        BY <1>3, <1>4 DEF InStep, Listed
      <4>2. \A m \in 1 .. Len(f) : f[m] # b.addr
        BY <1>3, <1>4 DEF InStep, Listed
      <4>3. ASSUME NEW j \in 1 .. Len(f) + 1, NEW k \in 1 .. Len(f) + 1, g[j] = g[k]
            PROVE  j = k
        <5>1. CASE j = 1 /\ k # 1
          <6>1. k - 1 \in 1 .. Len(f)
            BY <5>1, <1>5
          <6> QED
            BY <6>1, <5>1, <4>2, <4>3, <1>6
        <5>2. CASE j # 1 /\ k = 1
          <6>1. j - 1 \in 1 .. Len(f)
            BY <5>2, <1>5
          <6> QED
            BY <6>1, <5>2, <4>2, <4>3, <1>6
        <5>3. CASE j # 1 /\ k # 1
          <6>1. j - 1 \in 1 .. Len(f) /\ k - 1 \in 1 .. Len(f)
            BY <5>3, <1>5
          <6>2. f[j - 1] = f[k - 1]
            BY <5>3, <4>3, <1>6
          <6>3. j - 1 = k - 1
            BY <6>1, <6>2, <4>1 DEF Injective
          <6> QED
            BY <6>3, <1>5
        <5> QED
          BY <5>1, <5>2, <5>3
      <4> QED
        BY <4>3, <3>2, <1>6, <1>10 DEF Injective
    <3> QED
      BY <3>1, <3>2
  <2> QED
    BY <2>1, <2>2, <2>3 DEF Listed
<1>12. CASE L.free[c] # <<>>
  <2>1. /\ M = [free |-> M.free, available |-> L.available,
                max_available_index |-> L.max_available_index]
        /\ M.available = L.available /\ M.max_available_index = L.max_available_index
    BY <1>9, <1>12
  <2>2. M \in Lists
    BY <1>1, <1>10, <2>1 DEF Lists
  <2>3. Available(M)
    <3>1. ASSUME NEW i \in Classes PROVE M.free[i] # <<>> <=> L.free[i] # <<>>
      BY <1>6, <1>10, <1>12
    <3>2. \A j \in 1 .. Len(L.available) : L.available[j] \in Classes
      BY <1>1
    <3> QED
      BY <2>1, <3>1, <3>2 DEF InStep, Available
  <2> QED
    BY <1>8, <1>11, <2>2, <2>3 DEF InStep
<1>13. CASE L.free[c] = <<>>
  <2>1. PICK s : s = L.available
    OBVIOUS
  <2>2. /\ s \in Seq(Classes) /\ Len(s) \in Nat
        /\ \A j \in 1 .. Len(s) : s[j] \in Classes
    BY <1>1, <2>1
  <2>3. \A j, k \in 1 .. Len(s) : j < k => s[j] < s[k]
    BY <2>1 DEF InStep, Available
  <2>4. \A j \in 1 .. Len(s) : L.free[s[j]] # <<>> /\ s[j] # c
    BY <2>1, <1>13 DEF InStep, Available
  <2>5. PICK q : q = IF larger = 0 THEN Len(s) + 1 ELSE larger
    OBVIOUS
  <2>6. /\ q \in 1 .. Len(s) + 1 /\ (larger = 0 <=> q = Len(s) + 1)
        /\ \A j \in 1 .. Len(s) : j < q => s[j] < c
        /\ \A j \in 1 .. Len(s) : q <= j => c < s[j]
    <3>1. PICK I : I = {j \in 1 .. Len(s) : s[j] > c}
      OBVIOUS
    <3>2. larger = IF I # {} THEN Min(I) ELSE 0
      BY <1>7, <2>1, <3>1 DEF SelectInSeq
    <3>3. \A j \in 1 .. Len(s) : s[j] \in Nat
      BY <2>2, FreeLenType DEF Classes
    <3>4. c \in Nat
      BY <1>3, FreeLenType DEF Classes
    <3>5. CASE I = {}
      <4>1. larger = 0 /\ q = Len(s) + 1
        BY <3>2, <3>5, <2>5
      <4> QED
        BY <4>1, <3>1, <3>3, <3>4, <3>5, <2>2, <2>4
    <3>6. CASE I # {}
      <4>1. I \in SUBSET Nat
        BY <3>1
      <4>2. larger \in I /\ \A k \in I : larger <= k
        BY <3>2, <3>6, <4>1, MinIs
      <4>3. q = larger /\ q \in 1 .. Len(s) /\ s[q] > c
        BY <4>2, <3>1, <2>5, <2>2
      <4>4. ASSUME NEW j \in 1 .. Len(s), j < q PROVE s[j] < c
        BY <4>2, <4>3, <4>4, <3>1, <3>3, <3>4, <2>4
      <4>5. ASSUME NEW j \in 1 .. Len(s), q <= j PROVE c < s[j]
        <5>1. CASE q = j
          BY <5>1, <4>3
        <5>2. CASE q < j
          <6>1. s[q] < s[j]
            BY <5>2, <4>3, <2>3
          <6> QED
            BY <6>1, <4>3, <3>3, <3>4
        <5> QED
          BY <5>1, <5>2, <4>5, <4>3
      <4> QED
        BY <4>3, <4>4, <4>5, <2>2
    <3> QED
      BY <3>5, <3>6
  <2>7. PICK t : t = InsertAt(s, q, c)
    OBVIOUS
  <2>8. /\ t \in Seq(Classes) /\ Len(t) = Len(s) + 1
        /\ \A k \in 1 .. Len(s) + 1 : t[k] =
             IF k < q THEN s[k] ELSE IF k = q THEN c ELSE s[k - 1]
    <3>1. s \in Seq(Classes) /\ c \in Classes /\ q \in 1 .. Len(s) + 1
      BY <1>3, <2>2, <2>6
    <3>2. Inserted(Classes, s, q, c, InsertAt(s, q, c))
      BY <3>1, InsertAtIs, Zenon
    <3> QED
      BY <2>7, <3>2 DEF Inserted
  <2>9. PICK m : m = IF larger = 0 THEN c ELSE L.max_available_index
    OBVIOUS
  <2>10. M = [free |-> M.free, available |-> t, max_available_index |-> m]
    BY <1>9, <1>13, <2>1, <2>5, <2>7, <2>9
  <2>11. m = t[Len(t)] /\ t # <<>>
    <3>1. t # <<>>
      BY <2>2, <2>8
    <3>2. CASE larger = 0
      BY <3>1, <3>2, <2>2, <2>6, <2>8, <2>9
    <3>3. CASE larger # 0
      <4>1. q \in 1 .. Len(s) /\ Len(s) # 0 /\ s # <<>>
        BY <3>3, <2>2, <2>6
      <4>2. m = s[Len(s)]
        BY <3>3, <4>1, <2>1, <2>9 DEF InStep, Available
      <4>3. Len(s) + 1 \in 1 .. Len(s) + 1 /\ ~ (Len(s) + 1 < q) /\ Len(s) + 1 # q
            /\ (Len(s) + 1) - 1 = Len(s)
        BY <4>1, <2>2
      <4>4. t[Len(s) + 1] = s[Len(s)]
        BY <4>3, <2>8
      <4> QED
        BY <3>1, <4>2, <4>4, <2>8
    <3> QED
      BY <3>2, <3>3
  <2>12. M \in Lists
    <3>1. Len(t) \in 1 .. Len(t)
      BY <2>2, <2>8
    <3>2. m \in Classes
      BY <3>1, <2>8, <2>11
    <3>3. m \in 0 .. free_len
      BY <3>2, FreeLenType DEF Classes
    <3> QED
      BY <3>3, <1>10, <2>8, <2>10 DEF Lists
  <2>13. Available(M)
    <3>1. ASSUME NEW j \in 1 .. Len(t) PROVE M.free[t[j]] # <<>>
      <4>1. CASE j = q
        BY <4>1, <2>6, <2>8, <1>6, <1>10
      <4>2. CASE j # q
        <5>1. PICK k \in 1 .. Len(s) : t[j] = s[k]
          <6>1. CASE j < q
            <7>1. j \in 1 .. Len(s) /\ j \in 1 .. Len(s) + 1
              BY <6>1, <2>2, <2>6, <2>8
            <7> QED
              BY <7>1, <6>1, <2>8
          <6>2. CASE ~ (j < q)
            <7>1. j - 1 \in 1 .. Len(s) /\ j \in 1 .. Len(s) + 1
              BY <6>2, <4>2, <2>2, <2>6, <2>8
            <7> QED
              BY <7>1, <6>2, <4>2, <2>8
          <6> QED
            BY <6>1, <6>2
        <5> QED
          BY <5>1, <2>2, <2>4, <1>10
      <4> QED
        BY <4>1, <4>2
    <3>2. ASSUME NEW i \in Classes, M.free[i] # <<>>
          PROVE  \E j \in 1 .. Len(t) : t[j] = i
      <4>1. CASE i = c
        BY <4>1, <2>6, <2>8
      <4>2. CASE i # c
        <5>1. PICK k \in 1 .. Len(s) : s[k] = i
          BY <4>2, <3>2, <1>10, <2>1 DEF InStep, Available
        <5>2. CASE k < q
          <6>1. k \in 1 .. Len(s) + 1
            BY <2>2
          <6> QED
            BY <6>1, <5>1, <5>2, <2>8
        <5>3. CASE ~ (k < q)
          <6>1. k + 1 \in 1 .. Len(s) + 1 /\ ~ (k + 1 < q) /\ k + 1 # q /\ (k + 1) - 1 = k
            BY <5>3, <2>2, <2>6
          <6> QED
            BY <6>1, <5>1, <2>8
        <5> QED
          BY <5>2, <5>3
      <4> QED
        BY <4>1, <4>2
    <3>3. ASSUME NEW j \in 1 .. Len(t), NEW k \in 1 .. Len(t), j < k
          PROVE  t[j] < t[k]
      <4>1. j \in 1 .. Len(s) + 1 /\ k \in 1 .. Len(s) + 1
        BY <2>8
      <4>2. CASE k < q
        <5>1. j \in 1 .. Len(s) /\ k \in 1 .. Len(s) /\ j < q
          BY <4>1, <4>2, <3>3, <2>2, <2>6
        <5> QED
          BY <5>1, <4>1, <4>2, <3>3, <2>3, <2>8
      <4>3. CASE k = q
        <5>1. j \in 1 .. Len(s) /\ j < q
          BY <4>1, <4>3, <3>3, <2>2, <2>6
        <5> QED
          BY <5>1, <4>1, <4>3, <2>6, <2>8
      <4>4. CASE q < k
        <5>1. k - 1 \in 1 .. Len(s) /\ q <= k - 1 /\ t[k] = s[k - 1]
          BY <4>1, <4>4, <2>2, <2>6, <2>8
        <5>2. CASE j < q
          <6>1. j \in 1 .. Len(s) /\ j < k - 1 /\ t[j] = s[j]
            BY <5>1, <5>2, <4>1, <2>2, <2>6, <2>8
          <6> QED
            BY <6>1, <5>1, <2>3
        <5>3. CASE j = q
          <6>1. t[j] = c
            BY <5>3, <4>1, <2>8
          <6> QED
            BY <6>1, <5>1, <2>6
        <5>4. CASE q < j
          <6>1. j - 1 \in 1 .. Len(s) /\ j - 1 < k - 1 /\ t[j] = s[j - 1]
            BY <5>4, <4>1, <3>3, <2>2, <2>6, <2>8
          <6> QED
            BY <6>1, <5>1, <2>3
        <5> QED
          BY <5>2, <5>3, <5>4, <4>1, <2>6
      <4> QED
        BY <4>2, <4>3, <4>4, <4>1, <2>6
    <3>4. /\ M.available = t /\ M.max_available_index = m
      BY <2>10
    <3> QED
      BY <3>1, <3>2, <3>3, <3>4, <2>11 DEF Available
  <2> QED
    BY <1>8, <1>11, <2>12, <2>13 DEF InStep
<1> QED
  BY <1>12, <1>13

-----------------------------------------------------------------------------
(* The blocks by address *)

End(b) == b.addr + Header + b.size

(* What was asked for a block is kept while it is allocated, and it holds  *)
(* that much.                                                              *)
Holds(b) == IF b.alloc THEN 1 <= b.act /\ b.act <= b.size ELSE b.act = 0

Tiles(s) ==
  /\ s \in Seq(Block) /\ s # <<>>
  /\ s[1].addr = 0 /\ End(s[Len(s)]) = Arena
  /\ \A k \in 1 .. Len(s) - 1 : s[k + 1].addr = End(s[k])
  /\ \A k \in 1 .. Len(s) - 1 : s[k].alloc \/ s[k + 1].alloc
  /\ \A k \in 1 .. Len(s) : Holds(s[k])

Frees(s) == {b \in ToSet(s) : ~ b.alloc}

LEMMA BlockParts ==
  ASSUME NEW b \in Block
  PROVE  /\ b.addr \in Nat /\ b.size \in Nat /\ b.act \in Nat /\ b.alloc \in BOOLEAN
         /\ b = [addr |-> b.addr, size |-> b.size, act |-> b.act, alloc |-> b.alloc]
         /\ End(b) \in Nat /\ b.addr + b.size + 1 <= End(b)
BY Parameters DEF Block, End

(* Each block ends before the later ones begin. *)
LEMMA TilesIncrease ==
  ASSUME NEW s, Tiles(s), NEW i \in 1 .. Len(s), NEW j \in 1 .. Len(s), i < j
  PROVE  End(s[i]) <= s[j].addr
<1>1. s \in Seq(Block) /\ Len(s) \in Nat
  BY DEF Tiles
<1>2. \A k \in 1 .. Len(s) : s[k] \in Block
  BY <1>1
<1>3. \A k \in 1 .. Len(s) : s[k].addr \in Nat /\ End(s[k]) \in Nat /\ s[k].addr <= End(s[k])
  <2> TAKE k \in 1 .. Len(s)
  <2>1. s[k] \in Block
    BY <1>2
  <2>2. PICK b \in Block : b = s[k]
    BY <2>1
  <2>3. b.addr \in Nat /\ End(b) \in Nat /\ b.size \in Nat /\ b.addr + b.size + 1 <= End(b)
    BY BlockParts
  <2>4. b.addr <= End(b)
    BY <2>3
  <2> QED
    BY <2>2, <2>3, <2>4
<1>4. PICK D : D = {k \in 1 .. Len(s) : i < k /\ ~ (End(s[i]) <= s[k].addr)}
  OBVIOUS
<1>5. ASSUME D # {} PROVE FALSE
  <2>1. D \in SUBSET Nat
    BY <1>1, <1>4
  <2>2. PICK m \in D : \A k \in D : m <= k
    BY <2>1, <1>5, LeastOf
  <2>3. m \in 1 .. Len(s) /\ i < m /\ ~ (End(s[i]) <= s[m].addr)
    BY <2>2, <1>4
  <2>4. m - 1 \in 1 .. Len(s) - 1 /\ m - 1 \in 1 .. Len(s) /\ (m - 1) + 1 = m
    BY <2>3, <1>1
  <2>5. s[m].addr = End(s[m - 1])
    BY <2>4 DEF Tiles
  <2>6. CASE m - 1 = i
    BY <2>6, <2>3, <2>5, <1>3
  <2>7. CASE m - 1 # i
    <3>1. i < m - 1 /\ ~ (m <= m - 1)
      BY <2>3, <2>4, <2>7
    <3>2. End(s[i]) <= s[m - 1].addr
      BY <3>1, <2>2, <2>4, <1>4
    <3>3. /\ End(s[i]) \in Nat /\ s[m - 1].addr \in Nat /\ End(s[m - 1]) \in Nat
          /\ s[m - 1].addr <= End(s[m - 1])
      BY <2>4, <1>3
    <3> QED
      BY <3>2, <3>3, <2>3, <2>5
  <2> QED
    BY <2>6, <2>7
<1>6. j \notin D
  BY <1>5
<1> QED
  BY <1>4, <1>6

(* Addresses tell blocks apart, and all blocks are in the area. *)
LEMMA TilesDistinct ==
  ASSUME NEW s, Tiles(s), NEW i \in 1 .. Len(s), NEW j \in 1 .. Len(s), s[i].addr = s[j].addr
  PROVE  i = j
<1>1. s \in Seq(Block) /\ Len(s) \in Nat
  BY DEF Tiles
<1>2. ASSUME NEW k \in 1 .. Len(s), NEW m \in 1 .. Len(s), k < m, s[k].addr = s[m].addr
      PROVE  FALSE
  <2>1. End(s[k]) <= s[m].addr
    BY <1>2, TilesIncrease
  <2>2. PICK b \in Block : b = s[k]
    BY <1>1
  <2>3. b.addr \in Nat /\ b.size \in Nat /\ End(b) \in Nat /\ b.addr + b.size + 1 <= End(b)
    BY BlockParts
  <2> QED
    BY <2>1, <2>2, <2>3, <1>2
<1>3. i < j \/ j < i \/ i = j
  BY <1>1
<1> QED
  BY <1>2, <1>3

LEMMA TilesInside ==
  ASSUME NEW s, Tiles(s), NEW i \in 1 .. Len(s)
  PROVE  End(s[i]) <= Arena
<1>1. s \in Seq(Block) /\ Len(s) \in Nat /\ Len(s) \in 1 .. Len(s)
  BY DEF Tiles
<1>2. CASE i = Len(s)
  BY <1>2, Parameters DEF Tiles
<1>3. CASE i # Len(s)
  <2>1. i < Len(s)
    BY <1>1, <1>3
  <2>2. End(s[i]) <= s[Len(s)].addr
    BY <2>1, <1>1, TilesIncrease
  <2>3. PICK b \in Block : b = s[Len(s)]
    BY <1>1
  <2>4. b.addr \in Nat /\ b.size \in Nat /\ End(b) \in Nat /\ b.addr + b.size + 1 <= End(b)
    BY BlockParts
  <2>5. End(b) = Arena
    BY <2>3 DEF Tiles
  <2>6. PICK c \in Block : c = s[i]
    BY <1>1
  <2>7. End(c) \in Nat
    BY BlockParts
  <2> QED
    BY <2>2, <2>3, <2>4, <2>5, <2>6, <2>7
<1> QED
  BY <1>2, <1>3

LEMMA FreesDistinct ==
  ASSUME NEW s, Tiles(s)
  PROVE  Frees(s) \in SUBSET Block /\ Distinct(Frees(s))
<1>1. s \in Seq(Block) /\ Len(s) \in Nat /\ DOMAIN s = 1 .. Len(s)
  BY DEF Tiles
<1>2. Frees(s) \in SUBSET Block
  BY <1>1 DEF Frees, ToSet
<1>3. ASSUME NEW b \in Frees(s), NEW c \in Frees(s), b.addr = c.addr PROVE b = c
  <2>1. PICK i \in 1 .. Len(s) : b = s[i]
    BY <1>1 DEF Frees, ToSet
  <2>2. PICK j \in 1 .. Len(s) : c = s[j]
    BY <1>1 DEF Frees, ToSet
  <2> QED
    BY <2>1, <2>2, <1>3, TilesDistinct
<1> QED
  BY <1>2, <1>3 DEF Distinct

-----------------------------------------------------------------------------
(* Splitting and merging *)

(* The blocks mid take the place of those of s between a and b. *)
Splice(s, t, a, mid, b) ==
  /\ t \in Seq(Block) /\ mid \in Seq(Block) /\ mid # <<>>
  /\ a \in 0 .. Len(s) /\ b \in a + 2 .. Len(s) + 1
  /\ Len(t) = a + Len(mid) + (Len(s) + 1 - b)
  /\ \A k \in 1 .. a : t[k] = s[k]
  /\ \A k \in 1 .. Len(mid) : t[a + k] = mid[k]
  /\ \A k \in b .. Len(s) : t[k - b + 1 + a + Len(mid)] = s[k]

(* They fill the same room, and leave no two free neighbours. *)
Fills(s, a, mid, b) ==
  /\ mid[1].addr = s[a + 1].addr /\ End(mid[Len(mid)]) = End(s[b - 1])
  /\ \A k \in 1 .. Len(mid) - 1 : mid[k + 1].addr = End(mid[k])
  /\ \A k \in 1 .. Len(mid) - 1 : mid[k].alloc \/ mid[k + 1].alloc
  /\ \A k \in 1 .. Len(mid) : Holds(mid[k])
  /\ a # 0 => s[a].alloc \/ mid[1].alloc
  /\ b # Len(s) + 1 => mid[Len(mid)].alloc \/ s[b].alloc

LEMMA SpliceTiles ==
  ASSUME NEW s, Tiles(s), NEW t, NEW a, NEW mid, NEW b,
         Splice(s, t, a, mid, b), Fills(s, a, mid, b)
  PROVE  Tiles(t)
<1>1. /\ s \in Seq(Block) /\ t \in Seq(Block) /\ mid \in Seq(Block)
      /\ Len(s) \in Nat \ {0} /\ Len(t) \in Nat /\ Len(mid) \in Nat \ {0}
  <2>1. s \in Seq(Block) /\ Len(s) # 0
    BY DEF Tiles
  <2>2. t \in Seq(Block) /\ mid \in Seq(Block) /\ mid # <<>>
    BY DEF Splice
  <2>3. Len(mid) # 0
    BY <2>2
  <2> QED
    BY <2>1, <2>2, <2>3
<1>2. PICK n, m, l : n = Len(s) /\ m = Len(mid) /\ l = Len(t)
  OBVIOUS
<1>3. /\ a \in 0 .. n /\ b \in a + 2 .. n + 1 /\ l = a + m + (n + 1 - b)
      /\ n \in Nat \ {0} /\ m \in Nat \ {0} /\ l \in Nat \ {0} /\ a \in Nat /\ b \in Nat
  BY <1>1, <1>2 DEF Splice
<1>4. /\ \A k \in 1 .. a : t[k] = s[k]
      /\ \A k \in 1 .. m : t[a + k] = mid[k]
      /\ \A k \in b .. n : t[k - b + 1 + a + m] = s[k]
  BY <1>2 DEF Splice
<1>5. \A k \in a + 1 .. a + m : t[k] = mid[k - a]
  <2> TAKE k \in a + 1 .. a + m
  <2>1. k - a \in 1 .. m /\ a + (k - a) = k
    BY <1>3
  <2> QED
    BY <2>1, <1>4
<1>6. \A k \in a + m + 1 .. l : k - a - m + b - 1 \in b .. n /\ t[k] = s[k - a - m + b - 1]
  <2> TAKE k \in a + m + 1 .. l
  <2>1. k - a - m + b - 1 \in b .. n /\ (k - a - m + b - 1) - b + 1 + a + m = k
    BY <1>3
  <2> QED
    BY <2>1, <1>4
<1>7. /\ s[1].addr = 0 /\ End(s[n]) = Arena
      /\ \A k \in 1 .. n - 1 : s[k + 1].addr = End(s[k])
      /\ \A k \in 1 .. n - 1 : s[k].alloc \/ s[k + 1].alloc
      /\ \A k \in 1 .. n : Holds(s[k])
  BY <1>2 DEF Tiles
<1>8. /\ mid[1].addr = s[a + 1].addr /\ End(mid[m]) = End(s[b - 1])
      /\ \A k \in 1 .. m - 1 : mid[k + 1].addr = End(mid[k])
      /\ \A k \in 1 .. m - 1 : mid[k].alloc \/ mid[k + 1].alloc
      /\ \A k \in 1 .. m : Holds(mid[k])
      /\ a # 0 => s[a].alloc \/ mid[1].alloc
      /\ b # n + 1 => mid[m].alloc \/ s[b].alloc
  BY <1>2 DEF Fills
<1>9. t[1].addr = 0
  <2>1. CASE a = 0
    <3>1. t[1] = mid[1] /\ s[a + 1] = s[1]
      BY <2>1, <1>3, <1>4
    <3> QED
      BY <3>1, <1>7, <1>8
  <2>2. CASE a # 0
    <3>1. t[1] = s[1]
      BY <2>2, <1>3, <1>4
    <3> QED
      BY <3>1, <1>7
  <2> QED
    BY <2>1, <2>2
<1>10. End(t[l]) = Arena
  <2>1. CASE b = n + 1
    <3>1. l = a + m /\ t[l] = mid[m] /\ b - 1 = n
      BY <2>1, <1>3, <1>4
    <3> QED
      BY <3>1, <1>7, <1>8
  <2>2. CASE b # n + 1
    <3>1. l \in a + m + 1 .. l /\ l - a - m + b - 1 = n
      BY <2>2, <1>3
    <3>2. t[l] = s[n]
      BY <3>1, <1>6
    <3> QED
      BY <3>2, <1>7
  <2> QED
    BY <2>1, <2>2
<1>11. ASSUME NEW k \in 1 .. l - 1
       PROVE  t[k + 1].addr = End(t[k]) /\ (t[k].alloc \/ t[k + 1].alloc)
  <2>1. CASE k < a
    <3>1. k \in 1 .. a /\ k + 1 \in 1 .. a /\ k \in 1 .. n - 1
      BY <2>1, <1>3
    <3>2. t[k] = s[k] /\ t[k + 1] = s[k + 1]
      BY <3>1, <1>4
    <3> QED
      BY <3>1, <3>2, <1>7
  <2>2. CASE k = a
    <3>1. k \in 1 .. a /\ k \in 1 .. n - 1 /\ 1 \in 1 .. m
      BY <2>2, <1>3
    <3>2. t[k] = s[k] /\ t[k + 1] = mid[1] /\ s[k + 1] = s[a + 1] /\ a # 0
      BY <3>1, <2>2, <1>4
    <3> QED
      BY <3>1, <3>2, <1>7, <1>8, <2>2
  <2>3. CASE a < k /\ k < a + m
    <3>1. k \in a + 1 .. a + m /\ k + 1 \in a + 1 .. a + m /\ k - a \in 1 .. m - 1
          /\ (k + 1) - a = (k - a) + 1
      BY <2>3, <1>3
    <3>2. t[k] = mid[k - a] /\ t[k + 1] = mid[(k - a) + 1]
      BY <3>1, <1>5
    <3> QED
      BY <3>1, <3>2, <1>8
  <2>4. CASE k = a + m
    <3>1. b # n + 1 /\ b - 1 \in 1 .. n - 1 /\ (b - 1) + 1 = b /\ b \in b .. n
          /\ b - b + 1 + a + m = k + 1 /\ m \in 1 .. m
      BY <2>4, <1>3
    <3>2. t[k] = mid[m]
      BY <3>1, <2>4, <1>4
    <3>3. t[k + 1] = s[b]
      BY <3>1, <1>4
    <3>4. s[b].addr = End(s[b - 1])
      BY <3>1, <1>7
    <3> QED
      BY <3>1, <3>2, <3>3, <3>4, <1>8
  <2>5. CASE a + m < k
    <3>1. PICK j : j = k - a - m + b - 1
      OBVIOUS
    <3>2. /\ k \in a + m + 1 .. l /\ k + 1 \in a + m + 1 .. l
          /\ j \in 1 .. n - 1 /\ (k + 1) - a - m + b - 1 = j + 1
      BY <2>5, <3>1, <1>3
    <3>3. t[k] = s[j] /\ t[k + 1] = s[j + 1]
      BY <3>1, <3>2, <1>6
    <3> QED
      BY <3>2, <3>3, <1>7
  <2> QED
    BY <2>1, <2>2, <2>3, <2>4, <2>5, <1>3
<1>12. ASSUME NEW k \in 1 .. l PROVE Holds(t[k])
  <2>1. CASE k <= a
    <3>1. k \in 1 .. a /\ k \in 1 .. n
      BY <2>1, <1>3
    <3> QED
      BY <3>1, <1>4, <1>7
  <2>2. CASE a < k /\ k <= a + m
    <3>1. k \in a + 1 .. a + m /\ k - a \in 1 .. m
      BY <2>2, <1>3
    <3> QED
      BY <3>1, <1>5, <1>8
  <2>3. CASE a + m < k
    <3>1. PICK j : j = k - a - m + b - 1
      OBVIOUS
    <3>2. k \in a + m + 1 .. l /\ j \in 1 .. n
      BY <2>3, <3>1, <1>3
    <3> QED
      BY <3>1, <3>2, <1>6, <1>7
  <2> QED
    BY <2>1, <2>2, <2>3, <1>3
<1>13. t # <<>>
  BY <1>2, <1>3
<1> QED
  BY <1>1, <1>2, <1>9, <1>10, <1>11, <1>12, <1>13 DEF Tiles

LEMMA SpliceBlocks ==
  ASSUME NEW s, Tiles(s), NEW t, NEW a, NEW mid, NEW b, Splice(s, t, a, mid, b)
  PROVE  ToSet(t) = (ToSet(s) \ {s[j] : j \in a + 1 .. b - 1}) \cup ToSet(mid)
<1>1. /\ s \in Seq(Block) /\ t \in Seq(Block) /\ mid \in Seq(Block)
      /\ Len(s) \in Nat \ {0} /\ Len(t) \in Nat /\ Len(mid) \in Nat \ {0}
  <2>1. s \in Seq(Block) /\ Len(s) # 0
    BY DEF Tiles
  <2>2. t \in Seq(Block) /\ mid \in Seq(Block) /\ mid # <<>>
    BY DEF Splice
  <2>3. Len(mid) # 0
    BY <2>2
  <2> QED
    BY <2>1, <2>2, <2>3
<1>2. PICK n, m, l : n = Len(s) /\ m = Len(mid) /\ l = Len(t)
  OBVIOUS
<1>3. /\ a \in 0 .. n /\ b \in a + 2 .. n + 1 /\ l = a + m + (n + 1 - b)
      /\ n \in Nat \ {0} /\ m \in Nat \ {0} /\ l \in Nat \ {0} /\ a \in Nat /\ b \in Nat
  BY <1>1, <1>2 DEF Splice
<1>4. /\ \A k \in 1 .. a : t[k] = s[k]
      /\ \A k \in 1 .. m : t[a + k] = mid[k]
      /\ \A k \in b .. n : t[k - b + 1 + a + m] = s[k]
  BY <1>2 DEF Splice
<1>5. ToSet(s) = {s[j] : j \in 1 .. n} /\ ToSet(t) = {t[j] : j \in 1 .. l}
      /\ ToSet(mid) = {mid[j] : j \in 1 .. m}
  BY <1>1, <1>2 DEF ToSet
<1>6. \A i, j \in 1 .. n : s[i] = s[j] => i = j
  BY <1>2, TilesDistinct
<1>7. ASSUME NEW x \in ToSet(t)
      PROVE  x \in (ToSet(s) \ {s[j] : j \in a + 1 .. b - 1}) \cup ToSet(mid)
  <2>1. PICK k \in 1 .. l : x = t[k]
    BY <1>5
  <2>2. CASE k <= a
    <3>1. k \in 1 .. a /\ k \in 1 .. n /\ \A j \in a + 1 .. b - 1 : j \in 1 .. n /\ j # k
      BY <2>2, <1>3
    <3>2. x = s[k]
      BY <3>1, <2>1, <1>4
    <3> QED
      BY <3>1, <3>2, <1>5, <1>6
  <2>3. CASE a < k /\ k <= a + m
    <3>1. k - a \in 1 .. m /\ a + (k - a) = k
      BY <2>3, <1>3
    <3>2. x = mid[k - a]
      BY <3>1, <2>1, <1>4
    <3> QED
      BY <3>1, <3>2, <1>5
  <2>4. CASE a + m < k
    <3>1. PICK i : i = k - a - m + b - 1
      OBVIOUS
    <3>2. i \in b .. n /\ i - b + 1 + a + m = k /\ i \in 1 .. n
          /\ \A j \in a + 1 .. b - 1 : j \in 1 .. n /\ j # i
      BY <2>4, <3>1, <1>3
    <3>3. x = s[i]
      BY <3>2, <2>1, <1>4
    <3> QED
      BY <3>2, <3>3, <1>5, <1>6
  <2> QED
    BY <2>2, <2>3, <2>4, <1>3
<1>8. ASSUME NEW x \in ToSet(mid) PROVE x \in ToSet(t)
  <2>1. PICK k \in 1 .. m : x = mid[k]
    BY <1>5
  <2>2. a + k \in 1 .. l /\ t[a + k] = x
    BY <2>1, <1>3, <1>4
  <2> QED
    BY <2>2, <1>5
<1>9. ASSUME NEW x \in ToSet(s), x \notin {s[j] : j \in a + 1 .. b - 1} PROVE x \in ToSet(t)
  <2>1. PICK k \in 1 .. n : x = s[k]
    BY <1>5
  <2>2. k \notin a + 1 .. b - 1
    BY <2>1, <1>9
  <2>3. CASE k <= a
    <3>1. k \in 1 .. a /\ k \in 1 .. l
      BY <2>3, <1>3
    <3> QED
      BY <3>1, <2>1, <1>4, <1>5
  <2>4. CASE b <= k
    <3>1. k \in b .. n /\ k - b + 1 + a + m \in 1 .. l
      BY <2>4, <1>3
    <3> QED
      BY <3>1, <2>1, <1>4, <1>5
  <2> QED
    BY <2>2, <2>3, <2>4, <1>3
<1> QED
  BY <1>7, <1>8, <1>9

LEMMA SpliceFrees ==
  ASSUME NEW s, Tiles(s), NEW t, NEW a, NEW mid, NEW b, Splice(s, t, a, mid, b)
  PROVE  Frees(t) = (Frees(s) \ {s[j] : j \in a + 1 .. b - 1}) \cup Frees(mid)
BY SpliceBlocks DEF Frees

(* The blocks in use. *)
Given(s) == {b \in ToSet(s) : b.alloc}

LEMMA SpliceGiven ==
  ASSUME NEW s, Tiles(s), NEW t, NEW a, NEW mid, NEW b, Splice(s, t, a, mid, b)
  PROVE  Given(t) = (Given(s) \ {s[j] : j \in a + 1 .. b - 1}) \cup Given(mid)
BY SpliceBlocks DEF Given

-----------------------------------------------------------------------------
(* Sums *)

(* What a splice of up to three numbers by one or two adds to the sum. *)
SameBut(x, n, y, l, a, m, b) ==
  /\ a \in 0 .. n /\ b \in a + 2 .. n + 1 /\ m \in 1 .. 2 /\ l = a + m + (n + 1 - b)
  /\ \A k \in 1 .. a : y[k] = x[k]
  /\ \A k \in b .. n : y[k - b + 1 + a + m] = x[k]
TakesOf(x, a, b, old) ==
  \/ b = a + 2 /\ old = x[a + 1]
  \/ b = a + 3 /\ old = x[a + 1] + x[a + 2]
  \/ b = a + 4 /\ old = x[a + 1] + x[a + 2] + x[a + 3]
BringsTo(y, a, m, new) ==
  \/ m = 1 /\ new = y[a + 1]
  \/ m = 2 /\ new = y[a + 1] + y[a + 2]

LEMMA SpliceSums ==
  ASSUME NEW n \in Nat, NEW a, NEW b, NEW m, NEW l,
         NEW x \in [1 .. n -> Int], NEW y \in [1 .. l -> Int],
         SameBut(x, n, y, l, a, m, b),
         NEW old \in Int, NEW new \in Int,
         TakesOf(x, a, b, old), BringsTo(y, a, m, new),
         NEW total \in Int, Sums(x, n, total)
  PROVE  Sums(y, l, total - old + new)
<1>1. PICK S \in [0 .. n -> Int] : Running(S, x, n) /\ S[n] = total
  BY DEF Sums
<1>2. S[0] = 0 /\ \A k \in 1 .. n : S[k] = S[k - 1] + x[k]
  BY <1>1 DEF Running
<1>3. /\ a \in Nat /\ b \in Nat /\ l \in Nat /\ m \in 1 .. 2 /\ a <= n /\ a <= l
      /\ b <= n + 1 /\ a + 2 <= b /\ l = a + m + (n + 1 - b)
  BY DEF SameBut
<1>0. /\ \A k \in 1 .. a : y[k] = x[k]
      /\ \A k \in b .. n : y[k - b + 1 + a + m] = x[k]
  BY DEF SameBut
<1>4. S[b - 1] = S[a] + old
  <2>1. a + 1 \in 1 .. n /\ S[a + 1] = S[a] + x[a + 1]
    <3>1. a + 1 \in 1 .. n /\ (a + 1) - 1 = a
      BY <1>3
    <3> QED
      BY <3>1, <1>2
  <2>2. CASE b = a + 2 /\ old = x[a + 1]
    BY <2>1, <2>2, <1>3
  <2>3. CASE b = a + 3 /\ old = x[a + 1] + x[a + 2]
    <3>1. a + 2 \in 1 .. n /\ (a + 2) - 1 = a + 1 /\ b - 1 = a + 2
      BY <2>3, <1>3
    <3>2. S[a + 2] = S[a + 1] + x[a + 2]
      BY <3>1, <1>2
    <3>3. PICK u, v, w : u = S[a] /\ v = x[a + 1] /\ w = x[a + 2]
      OBVIOUS
    <3>4. a \in 0 .. n /\ a + 1 \in 1 .. n /\ a + 2 \in 1 .. n
      BY <2>1, <3>1, <1>3
    <3>5. u \in Int /\ v \in Int /\ w \in Int
      BY <3>3, <3>4
    <3>6. S[b - 1] = (u + v) + w
      BY <2>1, <3>1, <3>2, <3>3
    <3>7. old = v + w
      BY <2>3, <3>3
    <3>8. (u + v) + w = u + (v + w)
      BY <3>5
    <3> QED
      BY <3>3, <3>6, <3>7, <3>8
  <2>4. CASE b = a + 4 /\ old = x[a + 1] + x[a + 2] + x[a + 3]
    <3>1. /\ a + 2 \in 1 .. n /\ (a + 2) - 1 = a + 1
          /\ a + 3 \in 1 .. n /\ (a + 3) - 1 = a + 2 /\ b - 1 = a + 3
      BY <2>4, <1>3
    <3>2. S[a + 2] = S[a + 1] + x[a + 2] /\ S[a + 3] = S[a + 2] + x[a + 3]
      BY <3>1, <1>2
    <3>3. PICK u, v, w, z : u = S[a] /\ v = x[a + 1] /\ w = x[a + 2] /\ z = x[a + 3]
      OBVIOUS
    <3>4. a \in 0 .. n /\ a + 1 \in 1 .. n /\ a + 2 \in 1 .. n /\ a + 3 \in 1 .. n
      BY <2>1, <3>1, <1>3
    <3>5. u \in Int /\ v \in Int /\ w \in Int /\ z \in Int
      BY <3>3, <3>4
    <3>6. S[b - 1] = ((u + v) + w) + z
      BY <2>1, <3>1, <3>2, <3>3
    <3>7. old = v + w + z
      BY <2>4, <3>3
    <3>8. ((u + v) + w) + z = u + (v + w + z)
      BY <3>5
    <3> QED
      BY <3>3, <3>6, <3>7, <3>8
  <2> QED
    BY <2>2, <2>3, <2>4 DEF TakesOf
<1> DEFINE T == [k \in 0 .. l |->
      IF k <= a THEN S[k]
      ELSE IF k < a + m THEN S[a] + y[a + 1]
      ELSE S[k - a - m + b - 1] - old + new]
<1>5. \A k \in 0 .. a : S[k] \in Int /\ k \in 0 .. l
  <2> TAKE k \in 0 .. a
  <2>1. k \in Nat /\ k <= a
    BY <1>3
  <2>2. k \in 0 .. n
    BY <2>1, <1>3
  <2>3. k \in 0 .. l
    BY <2>1, <1>3
  <2> QED
    BY <2>2, <2>3
<1>6. \A k \in a + m .. l : k - a - m + b - 1 \in b - 1 .. n
  BY <1>3
<1>7. b - 1 \in 0 .. n /\ a + 1 \in 1 .. l /\ S[a] \in Int /\ y[a + 1] \in Int
  BY <1>3
<1>8. T \in [0 .. l -> Int]
  <2>1. ASSUME NEW k \in 0 .. l PROVE T[k] \in Int
    <3>1. CASE k <= a
      <4>1. k \in 0 .. a
        BY <3>1, <1>3
      <4>2. T[k] = S[k]
        BY <3>1
      <4> QED
        BY <4>1, <4>2, <1>5
    <3>2. CASE a < k /\ k < a + m
      BY <3>2, <1>3, <1>7
    <3>3. CASE a + m <= k
      <4>1. PICK e : e = k - a - m + b - 1
        OBVIOUS
      <4>2. e \in 0 .. n
        BY <4>1, <3>3, <1>3, <1>6
      <4>3. S[e] \in Int
        BY <4>2
      <4>4. ~ (k <= a) /\ ~ (k < a + m)
        BY <3>3, <1>3
      <4>5. T[k] = S[e] - old + new
        BY <4>1, <4>4
      <4> QED
        BY <4>3, <4>5
    <3> QED
      BY <3>1, <3>2, <3>3, <1>3
  <2> QED
    BY <2>1
<1>9. /\ \A k \in 0 .. a : T[k] = S[k]
      /\ \A k \in a + m .. l : T[k] = S[k - a - m + b - 1] - old + new
      /\ m = 2 => T[a + 1] = S[a] + y[a + 1]
  <2>1. ASSUME NEW k \in 0 .. a PROVE T[k] = S[k]
    <3>1. k \in 0 .. l /\ k <= a
      BY <1>3
    <3> QED
      BY <3>1
  <2>2. ASSUME NEW k \in a + m .. l PROVE T[k] = S[k - a - m + b - 1] - old + new
    <3>1. k \in 0 .. l /\ ~ (k <= a) /\ ~ (k < a + m)
      BY <1>3
    <3> QED
      BY <3>1
  <2>3. ASSUME m = 2 PROVE T[a + 1] = S[a] + y[a + 1]
    <3>1. a + 1 \in 0 .. l /\ ~ (a + 1 <= a) /\ a + 1 < a + m
      BY <2>3, <1>3
    <3> QED
      BY <3>1
  <2> QED
    BY <2>1, <2>2, <2>3
<1> HIDE DEF T
<1>10. T[0] = 0
  <2>1. 0 \in 0 .. a
    BY <1>3
  <2> QED
    BY <2>1, <1>2, <1>9
<1>11. ASSUME NEW k \in 1 .. l PROVE T[k] = T[k - 1] + y[k]
  <2>1. CASE k <= a
    <3>1. k \in 0 .. a /\ k - 1 \in 0 .. a /\ k \in 1 .. a /\ k \in 1 .. n
      BY <2>1, <1>3
    <3> QED
      BY <3>1, <1>0, <1>2, <1>9
  <2>2. CASE k = a + 1 /\ m = 1
    <3>1. /\ k \in a + m .. l /\ k - a - m + b - 1 = b - 1 /\ k - 1 = a /\ k - 1 \in 0 .. a
          /\ new = y[k]
      BY <2>2, <1>3 DEF BringsTo
    <3>2. T[k] = S[b - 1] - old + new /\ T[k - 1] = S[a]
      BY <3>1, <1>9
    <3>3. PICK u : u = S[a]
      OBVIOUS
    <3>4. u \in Int /\ T[k] = (u + old) - old + y[k] /\ T[k - 1] = u /\ y[k] \in Int
      BY <3>1, <3>2, <3>3, <1>4, <1>7
    <3> QED
      BY <3>4
  <2>3. CASE k = a + 1 /\ m = 2
    BY <2>3, <1>3, <1>9
  <2>4. CASE k = a + 2 /\ m = 2
    <3>1. /\ k \in a + m .. l /\ k - a - m + b - 1 = b - 1 /\ k - 1 = a + 1
          /\ new = y[a + 1] + y[k] /\ y[k] \in Int
      BY <2>4, <1>3 DEF BringsTo
    <3>2. T[k] = S[b - 1] - old + new /\ T[k - 1] = S[a] + y[a + 1]
      BY <3>1, <2>4, <1>9
    <3>3. PICK u, v : u = S[a] /\ v = y[a + 1]
      OBVIOUS
    <3>4. u \in Int /\ v \in Int /\ T[k] = (u + old) - old + new /\ T[k - 1] = u + v /\ new = v + y[k]
      BY <3>1, <3>2, <3>3, <1>4, <1>7
    <3>5. y[k] \in Int
      BY <3>1
    <3> QED
      BY <3>4, <3>5
  <2>5. CASE a + m < k
    <3>1. PICK j : j = k - a - m + b - 1
      OBVIOUS
    <3>2. /\ k \in a + m .. l /\ k - 1 \in a + m .. l /\ (k - 1) - a - m + b - 1 = j - 1
          /\ j \in b .. n /\ j \in 1 .. n /\ j - 1 \in 0 .. n /\ j - b + 1 + a + m = k
      BY <2>5, <3>1, <1>3
    <3>3. T[k] = S[j] - old + new /\ T[k - 1] = S[j - 1] - old + new /\ y[k] = x[j]
      BY <3>1, <3>2, <1>0, <1>9
    <3>4. S[j] = S[j - 1] + x[j] /\ S[j - 1] \in Int /\ x[j] \in Int
      BY <3>2, <1>2
    <3>5. PICK u, v : u = S[j - 1] /\ v = x[j]
      OBVIOUS
    <3>6. u \in Int /\ v \in Int /\ T[k] = (u + v) - old + new /\ T[k - 1] = u - old + new
          /\ y[k] = v
      BY <3>3, <3>4, <3>5
    <3> QED
      BY <3>6
  <2> QED
    <3>1. \/ k <= a
          \/ k = a + 1 /\ m = 1
          \/ k = a + 1 /\ m = 2
          \/ k = a + 2 /\ m = 2
          \/ a + m < k
      BY <1>3
    <3> QED
      BY <3>1, <2>1, <2>2, <2>3, <2>4, <2>5
<1>12. T[l] = total - old + new
  <2>1. l \in a + m .. l /\ l - a - m + b - 1 = n
    BY <1>3
  <2> QED
    BY <2>1, <1>1, <1>9
<1> QED
  BY <1>8, <1>10, <1>11, <1>12 DEF Sums, Running

(* The weights w of the blocks s. *)
Weights(s, w) == [k \in 1 .. Len(s) |-> w[s[k]]]

(* A splice takes away and brings the sums old and new. *)
Takes(w, s, a, b, old) ==
  \/ b = a + 2 /\ old = w[s[a + 1]]
  \/ b = a + 3 /\ old = w[s[a + 1]] + w[s[a + 2]]
  \/ b = a + 4 /\ old = w[s[a + 1]] + w[s[a + 2]] + w[s[a + 3]]
Brings(w, mid, new) ==
  \/ Len(mid) = 1 /\ new = w[mid[1]]
  \/ Len(mid) = 2 /\ new = w[mid[1]] + w[mid[2]]

LEMMA SpliceWeights ==
  ASSUME NEW s, Tiles(s), NEW t, NEW a, NEW mid, NEW b, Splice(s, t, a, mid, b),
         Len(mid) \in 1 .. 2, NEW w \in [Block -> Nat],
         NEW old \in Int, NEW new \in Int,
         Takes(w, s, a, b, old), Brings(w, mid, new),
         NEW total \in Int, Sums(Weights(s, w), Len(s), total)
  PROVE  Sums(Weights(t, w), Len(t), total - old + new)
<1>1. /\ s \in Seq(Block) /\ t \in Seq(Block) /\ mid \in Seq(Block)
      /\ Len(s) \in Nat \ {0} /\ Len(t) \in Nat /\ Len(mid) \in Nat \ {0}
  <2>1. s \in Seq(Block) /\ Len(s) # 0
    BY DEF Tiles
  <2>2. t \in Seq(Block) /\ mid \in Seq(Block) /\ mid # <<>>
    BY DEF Splice
  <2>3. Len(mid) # 0
    BY <2>2
  <2> QED
    BY <2>1, <2>2, <2>3
<1>2. PICK n, m, l : n = Len(s) /\ m = Len(mid) /\ l = Len(t)
  OBVIOUS
<1>3. /\ a \in 0 .. n /\ b \in a + 2 .. n + 1 /\ l = a + m + (n + 1 - b)
      /\ n \in Nat \ {0} /\ m \in 1 .. 2 /\ l \in Nat \ {0} /\ a \in Nat /\ b \in Nat
  <2>1. /\ a \in 0 .. n /\ b \in a + 2 .. n + 1 /\ l = a + m + (n + 1 - b)
    BY <1>2 DEF Splice
  <2>2. m \in 1 .. 2 /\ n \in Nat \ {0}
    BY <1>1, <1>2
  <2> QED
    BY <2>1, <2>2
<1>4. /\ \A k \in 1 .. a : t[k] = s[k]
      /\ \A k \in 1 .. m : t[a + k] = mid[k]
      /\ \A k \in b .. n : t[k - b + 1 + a + m] = s[k]
  BY <1>2 DEF Splice
<1>5. PICK x, y : x = Weights(s, w) /\ y = Weights(t, w)
  OBVIOUS
<1>6. /\ x \in [1 .. n -> Nat] /\ \A k \in 1 .. n : x[k] = w[s[k]]
  <2>1. \A k \in 1 .. n : s[k] \in Block
    BY <1>1, <1>2
  <2> QED
    BY <2>1, <1>2, <1>5 DEF Weights
<1>7. /\ y \in [1 .. l -> Nat] /\ \A k \in 1 .. l : y[k] = w[t[k]]
  <2>1. \A k \in 1 .. l : t[k] \in Block
    BY <1>1, <1>2
  <2> QED
    BY <2>1, <1>2, <1>5 DEF Weights
<1>8. x \in [1 .. n -> Int] /\ y \in [1 .. l -> Int]
  BY <1>6, <1>7
<1>9. \A k \in 1 .. a : y[k] = x[k]
  <2> TAKE k \in 1 .. a
  <2>1. k \in 1 .. n /\ k \in 1 .. l
    BY <1>3
  <2> QED
    BY <2>1, <1>4, <1>6, <1>7
<1>10. \A k \in b .. n : y[k - b + 1 + a + m] = x[k]
  <2> TAKE k \in b .. n
  <2>1. k \in 1 .. n /\ k - b + 1 + a + m \in 1 .. l
    BY <1>3
  <2> QED
    BY <2>1, <1>4, <1>6, <1>7
<1>11. TakesOf(x, a, b, old)
  <2>0. b = a + 2 \/ b = a + 3 \/ b = a + 4
    BY DEF Takes
  <2>1. CASE b = a + 2
    <3>1. a + 1 \in 1 .. n
      BY <2>1, <1>3
    <3>2. old = w[s[a + 1]]
      BY <2>1, <1>3 DEF Takes
    <3> QED
      BY <3>1, <3>2, <2>1, <1>6 DEF TakesOf
  <2>2. CASE b = a + 3
    <3>1. a + 1 \in 1 .. n /\ a + 2 \in 1 .. n
      BY <2>2, <1>3
    <3>2. old = w[s[a + 1]] + w[s[a + 2]]
      BY <2>2, <1>3 DEF Takes
    <3> QED
      BY <3>1, <3>2, <2>2, <1>6 DEF TakesOf
  <2>3. CASE b = a + 4
    <3>1. a + 1 \in 1 .. n /\ a + 2 \in 1 .. n /\ a + 3 \in 1 .. n
      BY <2>3, <1>3
    <3>2. old = w[s[a + 1]] + w[s[a + 2]] + w[s[a + 3]]
      BY <2>3, <1>3 DEF Takes
    <3>3. x[a + 1] = w[s[a + 1]] /\ x[a + 2] = w[s[a + 2]] /\ x[a + 3] = w[s[a + 3]]
      BY <3>1, <1>6
    <3>4. old = x[a + 1] + x[a + 2] + x[a + 3]
      BY <3>2, <3>3
    <3> QED
      BY <3>4, <2>3 DEF TakesOf
  <2> QED
    BY <2>0, <2>1, <2>2, <2>3
<1>12. BringsTo(y, a, m, new)
  <2>1. CASE m = 1
    <3>1. a + 1 \in 1 .. l /\ 1 \in 1 .. m
      BY <2>1, <1>3
    <3>2. new = w[mid[1]]
      <4>1. Len(mid) = 1
        BY <2>1, <1>2
      <4> QED
        BY <4>1 DEF Brings
    <3>3. t[a + 1] = mid[1]
      BY <3>1, <1>4
    <3> QED
      BY <3>1, <3>2, <3>3, <2>1, <1>7 DEF BringsTo
  <2>2. CASE m = 2
    <3>1. a + 1 \in 1 .. l /\ a + 2 \in 1 .. l /\ 1 \in 1 .. m /\ 2 \in 1 .. m
      BY <2>2, <1>3
    <3>2. new = w[mid[1]] + w[mid[2]] /\ t[a + 1] = mid[1] /\ t[a + 2] = mid[2]
      BY <3>1, <2>2, <1>2, <1>4 DEF Brings
    <3> QED
      BY <3>1, <3>2, <2>2, <1>7 DEF BringsTo
  <2> QED
    BY <2>1, <2>2, <1>3
<1>13. Sums(x, n, total)
  BY <1>2, <1>5
<1>14. n \in Nat
  BY <1>3
<1>15. SameBut(x, n, y, l, a, m, b)
  BY <1>3, <1>9, <1>10 DEF SameBut
<1>16. Sums(y, l, total - old + new)
  BY <1>8, <1>11, <1>12, <1>13, <1>14, <1>15, SpliceSums
<1> QED
  BY <1>2, <1>5, <1>16

(* The code's two ways of changing the order list are splices. *)
LEMMA ConcatIsSplice ==
  ASSUME NEW s \in Seq(Block), NEW a \in 0 .. Len(s), NEW b \in a + 2 .. Len(s) + 1,
         NEW mid \in Seq(Block), mid # <<>>
  PROVE  Splice(s, SubSeq(s, 1, a) \o mid \o SubSeq(s, b, Len(s)), a, mid, b)
<1>1. PICK n, m : n = Len(s) /\ m = Len(mid)
  OBVIOUS
<1>2. n \in Nat /\ m \in Nat \ {0} /\ a \in Nat /\ b \in Nat /\ a <= n /\ b <= n + 1 /\ a + 2 <= b
  BY <1>1
<1>3. PICK u, v : u = SubSeq(s, 1, a) /\ v = SubSeq(s, b, Len(s))
  OBVIOUS
<1>4. u \in Seq(Block) /\ Len(u) = a /\ \A k \in 1 .. a : u[k] = s[k]
  <2>1. \A k \in 1 .. a : s[k] \in Block
    BY <1>1, <1>2
  <2>2. /\ SubSeq(s, 1, a) \in Seq(Block)
        /\ Len(SubSeq(s, 1, a)) = IF 1 <= a THEN a - 1 + 1 ELSE 0
        /\ \A k \in 1 .. a - 1 + 1 : SubSeq(s, 1, a)[k] = s[1 + k - 1]
    <3>1. 1 \in Int /\ a \in Int
      BY <1>2
    <3> QED
      BY <2>1, <3>1, SubSeqProperties
  <2> QED
    BY <2>2, <1>2, <1>3
<1>5. v \in Seq(Block) /\ Len(v) = n + 1 - b /\ \A k \in 1 .. n + 1 - b : v[k] = s[b + k - 1]
  <2>1. \A k \in b .. n : s[k] \in Block
    BY <1>1, <1>2
  <2>2. /\ SubSeq(s, b, n) \in Seq(Block)
        /\ Len(SubSeq(s, b, n)) = IF b <= n THEN n - b + 1 ELSE 0
        /\ \A k \in 1 .. n - b + 1 : SubSeq(s, b, n)[k] = s[b + k - 1]
    <3>1. b \in Int /\ n \in Int
      BY <1>2
    <3> QED
      BY <2>1, <3>1, SubSeqProperties
  <2>3. v = SubSeq(s, b, n)
    BY <1>1, <1>3
  <2>4. (IF b <= n THEN n - b + 1 ELSE 0) = n + 1 - b /\ n - b + 1 = n + 1 - b
    BY <1>2
  <2> QED
    BY <2>2, <2>3, <2>4
<1>6. PICK x : x = u \o mid
  OBVIOUS
<1>7. /\ x \in Seq(Block) /\ Len(x) = a + m
      /\ \A k \in 1 .. a + m : x[k] = IF k <= a THEN u[k] ELSE mid[k - a]
  <2>1. /\ u \o mid \in Seq(Block) /\ Len(u \o mid) = Len(u) + Len(mid)
        /\ \A k \in 1 .. Len(u) + Len(mid) : (u \o mid)[k] =
             IF k <= Len(u) THEN u[k] ELSE mid[k - Len(u)]
    BY <1>4, ConcatProperties
  <2> QED
    BY <2>1, <1>1, <1>4, <1>6
<1>8. PICK t : t = x \o v
  OBVIOUS
<1>9. /\ t \in Seq(Block) /\ Len(t) = a + m + (n + 1 - b)
      /\ \A k \in 1 .. a + m + (n + 1 - b) : t[k] = IF k <= a + m THEN x[k] ELSE v[k - (a + m)]
  <2>1. /\ x \o v \in Seq(Block) /\ Len(x \o v) = Len(x) + Len(v)
        /\ \A k \in 1 .. Len(x) + Len(v) : (x \o v)[k] =
             IF k <= Len(x) THEN x[k] ELSE v[k - Len(x)]
    BY <1>5, <1>7, ConcatProperties
  <2> QED
    BY <2>1, <1>5, <1>7, <1>8
<1>10. ASSUME NEW k \in 1 .. a PROVE t[k] = s[k]
  <2>1. k \in 1 .. a + m + (n + 1 - b) /\ k \in 1 .. a + m /\ k <= a + m /\ k <= a
    BY <1>2
  <2> QED
    BY <2>1, <1>4, <1>7, <1>9
<1>11. ASSUME NEW k \in 1 .. m PROVE t[a + k] = mid[k]
  <2>1. /\ a + k \in 1 .. a + m + (n + 1 - b) /\ a + k \in 1 .. a + m /\ a + k <= a + m
        /\ ~ (a + k <= a) /\ (a + k) - a = k
    BY <1>2
  <2> QED
    BY <2>1, <1>7, <1>9
<1>12. ASSUME NEW k \in b .. n PROVE t[k - b + 1 + a + m] = s[k]
  <2>1. PICK j : j = k - b + 1
    OBVIOUS
  <2>2. /\ j \in 1 .. n + 1 - b /\ b + j - 1 = k /\ k - b + 1 + a + m = j + a + m
        /\ j + a + m \in 1 .. a + m + (n + 1 - b) /\ ~ (j + a + m <= a + m)
        /\ (j + a + m) - (a + m) = j
    BY <2>1, <1>2
  <2>3. t[j + a + m] = v[j]
    BY <2>2, <1>9
  <2>4. v[j] = s[k]
    BY <2>2, <1>5
  <2> QED
    BY <2>2, <2>3, <2>4
<1> QED
  BY <1>1, <1>3, <1>6, <1>8, <1>9, <1>10, <1>11, <1>12 DEF Splice

LEMMA ExceptIsSplice ==
  ASSUME NEW s \in Seq(Block), NEW k \in 1 .. Len(s), NEW e \in Block
  PROVE  /\ Splice(s, [s EXCEPT ![k] = e], k - 1, <<e>>, k + 1)
         /\ [s EXCEPT ![k] = e] \in Seq(Block) /\ Len([s EXCEPT ![k] = e]) = Len(s)
<1>1. PICK n, t : n = Len(s) /\ t = [s EXCEPT ![k] = e]
  OBVIOUS
<1>2. n \in Nat /\ k \in 1 .. n
  BY <1>1
<1>3. /\ t \in Seq(Block) /\ Len(t) = n
      /\ \A j \in 1 .. n : t[j] = IF j = k THEN e ELSE s[j]
  BY <1>1, ExceptSeq
<1>4. <<e>> \in Seq(Block) /\ Len(<<e>>) = 1 /\ <<e>>[1] = e /\ <<e>> # <<>>
  OBVIOUS
<1>5. k - 1 \in 0 .. n /\ k + 1 \in (k - 1) + 2 .. n + 1 /\ n = (k - 1) + 1 + (n + 1 - (k + 1))
  BY <1>2
<1>6. ASSUME NEW j \in 1 .. k - 1 PROVE t[j] = s[j]
  BY <1>2, <1>3
<1>7. ASSUME NEW j \in 1 .. 1 PROVE t[(k - 1) + j] = <<e>>[j]
  BY <1>2, <1>3, <1>4
<1>8. ASSUME NEW j \in k + 1 .. n PROVE t[j - (k + 1) + 1 + (k - 1) + 1] = s[j]
  <2>1. j - (k + 1) + 1 + (k - 1) + 1 = j /\ j \in 1 .. n /\ j # k
    BY <1>2
  <2> QED
    BY <2>1, <1>3
<1> QED
  BY <1>1, <1>3, <1>4, <1>5, <1>6, <1>7, <1>8 DEF Splice

LEMMA InsertBlock ==
  ASSUME NEW r \in Seq(Block), NEW q \in 1 .. Len(r) + 1, NEW i \in Block
  PROVE  /\ InsertAt(r, q, i) \in Seq(Block)
         /\ Len(InsertAt(r, q, i)) = Len(r) + 1
         /\ \A j \in 1 .. Len(r) + 1 : InsertAt(r, q, i)[j] =
              IF j < q THEN r[j] ELSE IF j = q THEN i ELSE r[j - 1]
<1>1. Inserted(Block, r, q, i, InsertAt(r, q, i))
  BY InsertAtIs, Zenon
<1> QED
  BY <1>1 DEF Inserted

LEMMA InsertIsSplice ==
  ASSUME NEW s \in Seq(Block), NEW k \in 1 .. Len(s), NEW e \in Block, NEW g \in Block
  PROVE  Splice(s, InsertAt([s EXCEPT ![k] = e], k + 1, g), k - 1, <<e, g>>, k + 1)
<1>1. PICK n, r, t : n = Len(s) /\ r = [s EXCEPT ![k] = e] /\ t = InsertAt(r, k + 1, g)
  OBVIOUS
<1>2. n \in Nat /\ k \in 1 .. n
  BY <1>1
<1>3. /\ r \in Seq(Block) /\ Len(r) = n
      /\ \A j \in 1 .. n : r[j] = IF j = k THEN e ELSE s[j]
  BY <1>1, ExceptSeq
<1>4. /\ t \in Seq(Block) /\ Len(t) = n + 1
      /\ \A j \in 1 .. n + 1 : t[j] =
           IF j < k + 1 THEN r[j] ELSE IF j = k + 1 THEN g ELSE r[j - 1]
  <2>1. k + 1 \in 1 .. Len(r) + 1
    BY <1>2, <1>3
  <2>2. /\ InsertAt(r, k + 1, g) \in Seq(Block)
        /\ Len(InsertAt(r, k + 1, g)) = Len(r) + 1
        /\ \A j \in 1 .. Len(r) + 1 : InsertAt(r, k + 1, g)[j] =
             IF j < k + 1 THEN r[j] ELSE IF j = k + 1 THEN g ELSE r[j - 1]
    <3>1. PICK q : q = k + 1
      OBVIOUS
    <3>2. q \in 1 .. Len(r) + 1 /\ r \in Seq(Block) /\ g \in Block
      BY <3>1, <2>1, <1>3
    <3>3. /\ InsertAt(r, q, g) \in Seq(Block)
          /\ Len(InsertAt(r, q, g)) = Len(r) + 1
          /\ \A j \in 1 .. Len(r) + 1 : InsertAt(r, q, g)[j] =
               IF j < q THEN r[j] ELSE IF j = q THEN g ELSE r[j - 1]
      BY <3>2, InsertBlock
    <3> QED
      BY <3>1, <3>3
  <2> QED
    BY <2>2, <1>1, <1>3
<1>5. <<e, g>> \in Seq(Block) /\ Len(<<e, g>>) = 2 /\ <<e, g>>[1] = e /\ <<e, g>>[2] = g
      /\ <<e, g>> # <<>>
  OBVIOUS
<1>6. /\ k - 1 \in 0 .. n /\ k + 1 \in (k - 1) + 2 .. n + 1
      /\ n + 1 = (k - 1) + 2 + (n + 1 - (k + 1))
  BY <1>2
<1>7. ASSUME NEW j \in 1 .. k - 1 PROVE t[j] = s[j]
  <2>1. j \in 1 .. n /\ j \in 1 .. n + 1 /\ j < k + 1 /\ j # k
    BY <1>2
  <2> QED
    BY <2>1, <1>3, <1>4
<1>8. ASSUME NEW j \in 1 .. 2 PROVE t[(k - 1) + j] = <<e, g>>[j]
  <2>1. CASE j = 1
    <3>1. (k - 1) + j = k /\ k \in 1 .. n + 1 /\ k < k + 1
      BY <2>1, <1>2
    <3> QED
      BY <3>1, <2>1, <1>2, <1>3, <1>4, <1>5
  <2>2. CASE j = 2
    <3>1. (k - 1) + j = k + 1 /\ k + 1 \in 1 .. n + 1 /\ ~ (k + 1 < k + 1)
      BY <2>2, <1>2
    <3> QED
      BY <3>1, <2>2, <1>4, <1>5
  <2> QED
    BY <2>1, <2>2
<1>9. ASSUME NEW j \in k + 1 .. n PROVE t[j - (k + 1) + 1 + (k - 1) + 2] = s[j]
  <2>1. j - (k + 1) + 1 + (k - 1) + 2 = j + 1 /\ j \in 1 .. n /\ j # k
        /\ j + 1 \in 1 .. n + 1 /\ ~ (j + 1 < k + 1) /\ j + 1 # k + 1 /\ (j + 1) - 1 = j
    BY <1>2
  <2> QED
    BY <2>1, <1>3, <1>4
<1> QED
  BY <1>1, <1>4, <1>5, <1>6, <1>7, <1>8, <1>9 DEF Splice

-----------------------------------------------------------------------------
(* The invariant *)

UsedW  == [b \in Block |-> Used(b)]
AskedW == [b \in Block |-> Asked(b)]

(* The blocks tile the area and the statistics are their sums, the free    *)
(* lists are in step with the free blocks, and no call has met damage.     *)
ShInv ==
  /\ level_type \in LevelTypes /\ split_threshold \in Thresholds \cup {min_size}
  /\ Tiles(order) /\ st_count = Len(order)
  /\ Sums(Weights(order, UsedW), Len(order), used_size)
  /\ Sums(Weights(order, AskedW), Len(order), reqs_size)
  /\ InStep(lists, Frees(order))
  /\ NoListDamage

LEMMA WeightTypes ==
  /\ UsedW \in [Block -> Nat] /\ \A b \in Block : UsedW[b] = Used(b)
  /\ AskedW \in [Block -> Nat] /\ \A b \in Block : AskedW[b] = Asked(b)
<1>1. ASSUME NEW b \in Block PROVE Used(b) \in Nat /\ Asked(b) \in Nat
  BY BlockParts DEF Used, Asked
<1> QED
  BY <1>1 DEF UsedW, AskedW

LEMMA SumTypes ==
  ASSUME ShInv
  PROVE  used_size \in Nat /\ reqs_size \in Nat
<1>1. order \in Seq(Block) /\ Len(order) \in Nat
  BY DEF ShInv, Tiles
<1>2. PICK n, x, y : n = Len(order) /\ x = Weights(order, UsedW) /\ y = Weights(order, AskedW)
  OBVIOUS
<1>3. x \in [1 .. n -> Nat] /\ y \in [1 .. n -> Nat] /\ n \in Nat
  <2>1. \A k \in 1 .. n : order[k] \in Block
    BY <1>1, <1>2
  <2> QED
    BY <2>1, <1>1, <1>2, WeightTypes DEF Weights
<1>4. Sums(x, n, used_size) /\ Sums(y, n, reqs_size)
  BY <1>2 DEF ShInv
<1>5. PICK u, v : u = used_size /\ v = reqs_size
  OBVIOUS
<1>6. Sums(x, n, u) /\ Sums(y, n, v)
  BY <1>4, <1>5
<1>7. u \in Nat
  BY <1>3, <1>6, SumsNatural
<1>8. v \in Nat
  BY <1>3, <1>6, SumsNatural
<1> QED
  BY <1>5, <1>7, <1>8

(* The classes stay as long as the kind of the area does. *)
LEMMA StepPrime ==
  ASSUME level_type' = level_type, NEW L, NEW F, lists' = L, Frees(order') = F, InStep(L, F)
  PROVE  InStep(lists, Frees(order))'
<1>1. free_len' = free_len
  BY DEF free_len
<1>2. Classes' = Classes
  BY <1>1 DEF Classes
<1>3. Lists' = Lists
  BY <1>1, <1>2 DEF Lists
<1>4. \A size : InsertIndex(size)' = InsertIndex(size)
  BY DEF InsertIndex
<1>5. \A b : ClassOf(b)' = ClassOf(b)
  BY <1>1, <1>4 DEF ClassOf
<1>6. (lists \in Lists)'
  BY <1>3 DEF InStep
<1>7. Available(lists)'
  BY <1>1, <1>2 DEF InStep, Available
<1>8. Listed(lists, Frees(order))'
  BY <1>2, <1>5 DEF InStep, Listed
<1> QED
  BY <1>6, <1>7, <1>8 DEF InStep

(* A call that replaces blocks by others that fill their room, and keeps   *)
(* the lists and the statistics in step, keeps the invariant.              *)
LEMMA Rebooked ==
  ASSUME ShInv, NEW t, NEW a, NEW mid, NEW b, NEW L,
         Splice(order, t, a, mid, b), Fills(order, a, mid, b), Len(mid) \in 1 .. 2,
         order' = t, InStep(L, Frees(t)), lists' = L,
         NEW u \in Int, NEW v \in Int, Takes(UsedW, order, a, b, u), Brings(UsedW, mid, v),
         used_size' = used_size - u + v,
         NEW x \in Int, NEW y \in Int, Takes(AskedW, order, a, b, x), Brings(AskedW, mid, y),
         reqs_size' = reqs_size - x + y,
         st_count' = Len(t), err' = "none", UNCHANGED settings
  PROVE  ShInv'
<1>1. Tiles(order) /\ Tiles(t)
  <2>1. Tiles(order)
    BY DEF ShInv
  <2> QED
    BY <2>1, SpliceTiles
<1>2. PICK s, p, q : s = order /\ p = used_size /\ q = reqs_size
  OBVIOUS
<1>3. p \in Int /\ q \in Int
  BY <1>2, SumTypes
<1>4. Tiles(s) /\ Splice(s, t, a, mid, b)
  BY <1>1, <1>2
<1>5. Sums(Weights(t, UsedW), Len(t), p - u + v)
  <2>1. Sums(Weights(s, UsedW), Len(s), p) /\ Takes(UsedW, s, a, b, u) /\ UsedW \in [Block -> Nat]
    BY <1>2, WeightTypes DEF ShInv
  <2>2. PICK w : w = UsedW
    OBVIOUS
  <2>3. Sums(Weights(s, w), Len(s), p) /\ Takes(w, s, a, b, u) /\ w \in [Block -> Nat]
        /\ Brings(w, mid, v)
    BY <2>1, <2>2
  <2>4. Sums(Weights(t, w), Len(t), p - u + v)
    BY <2>3, <1>3, <1>4, SpliceWeights
  <2> QED
    BY <2>2, <2>4
<1>6. Sums(Weights(t, AskedW), Len(t), q - x + y)
  <2>1. Sums(Weights(s, AskedW), Len(s), q) /\ Takes(AskedW, s, a, b, x) /\ AskedW \in [Block -> Nat]
    BY <1>2, WeightTypes DEF ShInv
  <2>2. PICK w : w = AskedW
    OBVIOUS
  <2>3. Sums(Weights(s, w), Len(s), q) /\ Takes(w, s, a, b, x) /\ w \in [Block -> Nat]
        /\ Brings(w, mid, y)
    BY <2>1, <2>2
  <2>4. Sums(Weights(t, w), Len(t), q - x + y)
    BY <2>3, <1>3, <1>4, SpliceWeights
  <2> QED
    BY <2>2, <2>4
<1>7. InStep(lists, Frees(order))'
  <2>1. PICK F : F = Frees(t)
    OBVIOUS
  <2>2. Frees(order') = F /\ InStep(L, F) /\ level_type' = level_type
    BY <2>1 DEF settings
  <2> QED
    BY <2>2, StepPrime
<1>8. Tiles(order)'
  BY <1>1
<1>9. Sums(Weights(order, UsedW), Len(order), used_size)'
  BY <1>2, <1>5
<1>10. Sums(Weights(order, AskedW), Len(order), reqs_size)'
  BY <1>2, <1>6
<1>11. /\ (level_type \in LevelTypes)' /\ (split_threshold \in Thresholds \cup {min_size})'
       /\ (st_count = Len(order))' /\ NoListDamage'
  BY DEF ShInv, settings, NoListDamage
<1> QED
  BY <1>7, <1>8, <1>9, <1>10, <1>11 DEF ShInv

(* A call that changes neither blocks nor lists. *)
LEMMA ReportKeeps ==
  ASSUME ShInv, UNCHANGED <<level_type, order, lists, used_size, reqs_size, st_count>>,
         split_threshold' \in Thresholds \cup {min_size}, NoListDamage'
  PROVE  ShInv'
<1>1. PICK L, F : L = lists /\ F = Frees(order)
  OBVIOUS
<1>2. InStep(lists, Frees(order))'
  <2>1. level_type' = level_type /\ lists' = L /\ Frees(order') = F /\ InStep(L, F)
    BY <1>1 DEF ShInv
  <2> QED
    BY <2>1, StepPrime
<1>3. Tiles(order)' /\ (st_count = Len(order))'
  BY DEF ShInv
<1>4. /\ Sums(Weights(order, UsedW), Len(order), used_size)'
      /\ Sums(Weights(order, AskedW), Len(order), reqs_size)'
  BY DEF ShInv
<1> QED
  BY <1>2, <1>3, <1>4 DEF ShInv

-----------------------------------------------------------------------------
(* The beginning *)

LEMMA OneBlock ==
  ASSUME NEW b \in Block
  PROVE  <<b>> \in Seq(Block) /\ Len(<<b>>) = 1 /\ <<b>>[1] = b /\ ToSet(<<b>>) = {b}
BY DEF ToSet

LEMMA FirstIsBlock ==
  FirstBlock \in Block /\ FirstBlock.addr = 0 /\ FirstBlock.size = Arena - Header
  /\ FirstBlock.act = 0 /\ ~ FirstBlock.alloc
BY Parameters DEF FirstBlock, Block

LEMMA ShInvInit == Init => ShInv
<1> SUFFICES ASSUME Init PROVE ShInv
  OBVIOUS
<1>1. order = <<FirstBlock>> /\ Len(order) = 1 /\ order[1] = FirstBlock /\ order \in Seq(Block)
  BY FirstIsBlock, OneBlock DEF Init
<1>2. Tiles(order)
  <2>1. End(FirstBlock) = Arena /\ Holds(FirstBlock)
    BY FirstIsBlock, Parameters DEF End, Holds
  <2>2. order # <<>>
    BY <1>1
  <2> QED
    BY <2>1, <2>2, <1>1, FirstIsBlock DEF Tiles
<1>3. Frees(order) = {FirstBlock}
  <2>1. ToSet(order) = {FirstBlock}
    BY <1>1, FirstIsBlock, OneBlock
  <2> QED
    BY <2>1, FirstIsBlock DEF Frees
<1>4. InStep(lists, Frees(order))
  <2>1. lists = InsertFree(NoLists, FirstBlock)
    BY DEF Init, NoLists
  <2>2. PICK F \in SUBSET Block : F = {}
    OBVIOUS
  <2>3. PICK N, B : N = NoLists /\ B = FirstBlock
    OBVIOUS
  <2>4. InStep(N, F) /\ B \in Block /\ \A d \in F : d.addr # B.addr
    BY <2>2, <2>3, NoListsInStep, FirstIsBlock
  <2>5. InStep(InsertFree(N, B), F \cup {B})
    BY <2>4, InsertFreeIs
  <2>6. F \cup {B} = Frees(order)
    BY <2>2, <2>3, <1>3
  <2> QED
    BY <2>1, <2>3, <2>5, <2>6
<1>5. ASSUME NEW w \in [Block -> Nat], w[FirstBlock] = 0 PROVE Sums(Weights(order, w), 1, 0)
  <2>1. Weights(order, w)[1] = 0
    BY <1>1, <1>5 DEF Weights
  <2>2. PICK S : S = [k \in 0 .. 1 |-> 0]
    OBVIOUS
  <2>3. S \in [0 .. 1 -> Int] /\ Running(S, Weights(order, w), 1) /\ S[1] = 0
    BY <2>1, <2>2 DEF Running
  <2> QED
    BY <2>3 DEF Sums
<1>6. UsedW[FirstBlock] = 0 /\ AskedW[FirstBlock] = 0
  BY FirstIsBlock, WeightTypes DEF Used, Asked
<1>7. /\ Sums(Weights(order, UsedW), Len(order), used_size)
      /\ Sums(Weights(order, AskedW), Len(order), reqs_size)
  BY <1>1, <1>5, <1>6, WeightTypes DEF Init
<1> QED
  BY <1>1, <1>2, <1>4, <1>7 DEF ShInv, Init, NoListDamage

-----------------------------------------------------------------------------
(* Finding blocks *)

LEMMA OrderType ==
  ASSUME ShInv
  PROVE  /\ Tiles(order) /\ order \in Seq(Block) /\ Len(order) \in Nat \ {0}
         /\ DOMAIN order = 1 .. Len(order)
         /\ \A k \in 1 .. Len(order) : order[k] \in Block
         /\ ToSet(order) = {order[k] : k \in 1 .. Len(order)}
         /\ Frees(order) \in SUBSET Block /\ Distinct(Frees(order))
<1>1. Tiles(order)
  BY DEF ShInv
<1>2. order \in Seq(Block) /\ Len(order) \in Nat \ {0}
  BY <1>1 DEF Tiles
<1>3. PICK s : s = order
  OBVIOUS
<1>4. Frees(s) \in SUBSET Block /\ Distinct(Frees(s))
  BY <1>1, <1>3, FreesDistinct
<1> QED
  BY <1>1, <1>2, <1>3, <1>4 DEF ToSet

LEMMA ByAddress ==
  ASSUME ShInv, NEW k \in 1 .. Len(order)
  PROVE  BlockAt(order[k].addr) = order[k] /\ IndexOf(order[k].addr) = k
<1>1. PICK s : s = order
  OBVIOUS
<1>2. Tiles(s) /\ ToSet(s) = {s[j] : j \in 1 .. Len(s)} /\ DOMAIN s = 1 .. Len(s) /\ k \in 1 .. Len(s)
  BY <1>1, OrderType
<1>3. \A j \in 1 .. Len(s) : s[j].addr = s[k].addr => j = k
  BY <1>2, TilesDistinct
<1>4. (CHOOSE b \in ToSet(s) : b.addr = s[k].addr) = s[k]
  <2>1. s[k] \in ToSet(s) /\ \A b \in ToSet(s) : b.addr = s[k].addr => b = s[k]
    BY <1>2, <1>3
  <2> QED
    BY <2>1
<1>5. (CHOOSE j \in DOMAIN s : s[j].addr = s[k].addr) = k
  BY <1>2, <1>3
<1> QED
  BY <1>1, <1>4, <1>5 DEF BlockAt, IndexOf

(* What a list holds are the addresses of free blocks of its class. *)
LEMMA OnList ==
  ASSUME ShInv, NEW i \in Classes, NEW a \in ToSet(lists.free[i])
  PROVE  \E k \in 1 .. Len(order) :
           /\ order[k] \in Frees(order) /\ ~ order[k].alloc /\ ClassOf(order[k]) = i
           /\ order[k].addr = a /\ BlockAt(a) = order[k] /\ IndexOf(a) = k
<1>1. lists \in Lists /\ lists.free[i] \in Seq(Nat)
  BY DEF ShInv, InStep, Lists
<1>2. PICK j \in 1 .. Len(lists.free[i]) : a = lists.free[i][j]
  BY <1>1 DEF ToSet
<1>3. PICK b \in Frees(order) : ClassOf(b) = i /\ b.addr = a
  BY <1>2 DEF ShInv, InStep, Listed
<1>4. PICK k \in 1 .. Len(order) : b = order[k]
  BY OrderType DEF Frees
<1>5. BlockAt(order[k].addr) = order[k] /\ IndexOf(order[k].addr) = k
  BY ByAddress
<1> QED
  BY <1>3, <1>4, <1>5 DEF Frees

(* A free block is on the list of its class. *)
LEMMA HasList ==
  ASSUME ShInv, NEW b \in Frees(order)
  PROVE  /\ b \in Block /\ ClassOf(b) \in Classes /\ lists.free[ClassOf(b)] # <<>>
         /\ b.addr \in ToSet(lists.free[ClassOf(b)]) /\ BlockAt(b.addr) = b
         /\ lists.available # <<>> /\ Len(lists.available) \in Nat \ {0}
         /\ lists.max_available_index = lists.available[Len(lists.available)]
         /\ lists.max_available_index \in Classes
         /\ lists.free[lists.max_available_index] # <<>>
         /\ ClassOf(b) <= lists.max_available_index
<1>1. b \in Block
  BY OrderType
<1>2. ClassOf(b) \in Classes
  BY <1>1, ClassOfType
<1>3. lists \in Lists /\ lists.free[ClassOf(b)] \in Seq(Nat)
  BY <1>2 DEF ShInv, InStep, Lists
<1>4. PICK j \in 1 .. Len(lists.free[ClassOf(b)]) : lists.free[ClassOf(b)][j] = b.addr
  BY DEF ShInv, InStep, Listed
<1>5. lists.free[ClassOf(b)] # <<>> /\ b.addr \in ToSet(lists.free[ClassOf(b)])
  BY <1>3, <1>4 DEF ToSet
<1>6. PICK L, i : L = lists /\ i = ClassOf(b)
  OBVIOUS
<1>7. L \in Lists /\ Available(L) /\ i \in Classes /\ L.free[i] # <<>>
  BY <1>2, <1>3, <1>5, <1>6 DEF ShInv, InStep
<1>8. /\ L.available # <<>> /\ Len(L.available) \in Nat \ {0}
      /\ L.max_available_index = L.available[Len(L.available)]
      /\ L.max_available_index \in Classes
      /\ L.free[L.max_available_index] # <<>>
      /\ i <= L.max_available_index
  BY <1>7, MaximumIs
<1>9. BlockAt(b.addr) = b
  <2>1. PICK k \in 1 .. Len(order) : b = order[k]
    BY OrderType DEF Frees
  <2> QED
    BY <2>1, ByAddress
<1> QED
  BY <1>1, <1>2, <1>5, <1>6, <1>8, <1>9

(* The classes fast_shmem_alloc may search. *)
LEMMA SearchListIs ==
  ASSUME ShInv, NEW size \in Nat, lists.max_available_index # free_len
  PROVE  /\ SearchList(size) \in Classes \cup {free_len}
         /\ AllocIndex(size) >= lists.max_available_index =>
              SearchList(size) = lists.max_available_index
         /\ AllocIndex(size) < lists.max_available_index =>
              /\ SearchList(size) \in Classes
              /\ lists.free[SearchList(size)] # <<>>
              /\ AllocIndex(size) <= SearchList(size)
<1>1. PICK L, i, n : L = lists /\ i = AllocIndex(size) /\ n = L.max_available_index
  OBVIOUS
<1>2. L \in Lists /\ i \in Nat /\ Available(L)
  BY <1>1, AllocIndexType DEF ShInv, InStep
<1>3. n \in Classes /\ n \in Nat
  <2>1. n \in 0 .. free_len
    BY <1>1, <1>2 DEF Lists
  <2>2. n # free_len
    BY <1>1
  <2> QED
    BY <2>1, <2>2, FreeLenType DEF Classes
<1>4. PICK s : s = L.available
  OBVIOUS
<1>5. s \in Seq(Classes) /\ Len(s) \in Nat \ {0} /\ n = s[Len(s)] /\ L.free[n] # <<>>
  <2>1. s \in Seq(Classes) /\ Len(s) \in Nat
    BY <1>2, <1>4 DEF Lists
  <2>2. s # <<>> /\ n = s[Len(s)]
    BY <1>1, <1>2, <1>4 DEF Available
  <2>3. Len(s) \in 1 .. Len(s)
    BY <2>1, <2>2
  <2> QED
    BY <2>1, <2>2, <2>3, <1>2, <1>4 DEF Available
<1>6. PICK I : I = {j \in 1 .. Len(s) : s[j] > i /\ L.free[s[j]] # <<>>}
  OBVIOUS
<1>7. PICK later : later = IF I # {} THEN Min(I) ELSE 0
  OBVIOUS
<1>8. SearchList(size) = IF i >= n THEN n ELSE IF L.free[i] # <<>> THEN i
                         ELSE IF later # 0 THEN s[later] ELSE free_len
  BY <1>1, <1>4, <1>6, <1>7 DEF SearchList, SelectInSeq
<1>9. CASE i >= n
  BY <1>1, <1>3, <1>8, <1>9, <1>2
<1>10. CASE i < n
  <2>1. i \in Classes /\ ~ (i >= n)
    BY <1>2, <1>3, <1>10, FreeLenType DEF Classes
  <2>2. CASE L.free[i] # <<>>
    BY <2>1, <2>2, <1>1, <1>2, <1>8, <1>10
  <2>3. CASE L.free[i] = <<>>
    <3>1. Len(s) \in I /\ I \in SUBSET Nat
      BY <1>5, <1>6, <1>10, <1>2, <1>3
    <3>2. later \in I
      BY <3>1, <1>7, MinIs
    <3>3. later \in 1 .. Len(s) /\ s[later] > i /\ L.free[s[later]] # <<>> /\ later # 0
      BY <3>2, <1>6
    <3>4. SearchList(size) = s[later]
      BY <2>1, <2>3, <3>3, <1>8
    <3>5. s[later] \in Classes /\ s[later] \in Nat
      BY <3>3, <1>5, FreeLenType DEF Classes
    <3> QED
      BY <2>1, <3>3, <3>4, <3>5, <1>1, <1>2
  <2> QED
    BY <2>2, <2>3
<1> QED
  BY <1>1, <1>2, <1>3, <1>9, <1>10

(* What fast_shmem_alloc finds is a free block that is large enough. *)
LEMMA Found ==
  ASSUME ShInv, NEW size \in Nat, ~ Refused(size)
  PROVE  \E k \in 1 .. Len(order) :
           /\ IndexOf(FirstFit(size)) = k /\ order[k] \in Frees(order) /\ size <= order[k].size
<1>1. SearchList(size) \in Classes
  BY SearchListIs DEF Refused
<1>2. PICK f : f = lists.free[SearchList(size)]
  OBVIOUS
<1>3. f \in Seq(Nat) /\ ToSet(f) = {f[j] : j \in 1 .. Len(f)} /\ Len(f) \in Nat
  <2>1. f \in Seq(Nat)
    BY <1>1, <1>2 DEF ShInv, InStep, Lists
  <2> QED
    BY <2>1 DEF ToSet
<1>4. PICK I : I = {j \in 1 .. Len(f) : Fits(f[j], size)}
  OBVIOUS
<1>5. I # {} /\ I \in SUBSET Nat
  BY <1>2, <1>3, <1>4 DEF Refused
<1>6. Min(I) \in I
  BY <1>5, MinIs
<1>7. FirstFit(size) = f[Min(I)]
  BY <1>2, <1>4, <1>5 DEF FirstFit, SelectInSeq
<1>8. FirstFit(size) \in ToSet(f) /\ Fits(FirstFit(size), size)
  BY <1>3, <1>4, <1>6, <1>7
<1>9. PICK a : a = FirstFit(size)
  OBVIOUS
<1>10. PICK k \in 1 .. Len(order) : /\ order[k] \in Frees(order)
                                    /\ BlockAt(a) = order[k] /\ IndexOf(a) = k
  BY <1>1, <1>2, <1>8, <1>9, OnList
<1>11. size <= order[k].size
  <2>1. order[k].size \in Nat
    BY OrderType, BlockParts
  <2> QED
    BY <2>1, <1>8, <1>9, <1>10 DEF Fits
<1> QED
  BY <1>9, <1>10, <1>11

-----------------------------------------------------------------------------
(* Taking a free block *)

LEMMA RemovedFrom ==
  ASSUME ShInv, NEW k \in 1 .. Len(order), order[k] \in Frees(order)
  PROVE  /\ RemoveFree(lists, order[k]).ok
         /\ InStep(RemoveFree(lists, order[k]).lists, Frees(order) \ {order[k]})
<1>1. PICK L, F, b : L = lists /\ F = Frees(order) /\ b = order[k]
  OBVIOUS
<1>2. F \in SUBSET Block /\ Distinct(F) /\ InStep(L, F) /\ b \in F
  BY <1>1, OrderType DEF ShInv
<1>3. RemoveFree(L, b).ok /\ InStep(RemoveFree(L, b).lists, F \ {b})
  BY <1>2, RemoveFreeIs
<1> QED
  BY <1>1, <1>3

(* The call gives a block for a request of the size. *)
Gives(size) ==
  \E e \in Block : e.alloc /\ size <= e.act /\ Given(order') = Given(order) \cup {e}

(* A free block is given whole. *)
LEMMA TakeWhole ==
  ASSUME ShInv, NEW k \in 1 .. Len(order), order[k] \in Frees(order),
         NEW size \in Nat \ {0}, size <= order[k].size,
         order' = [order EXCEPT ![k].alloc = TRUE, ![k].act = size],
         lists' = RemoveFree(lists, order[k]).lists,
         used_size' = used_size + order[k].size, reqs_size' = reqs_size + size,
         st_count' = st_count, err' = "none", UNCHANGED settings
  PROVE  ShInv' /\ Gives(size)
<1>1. PICK s, st, e : /\ s = order /\ st = order[k]
                      /\ e = [st EXCEPT !.alloc = TRUE, !.act = size]
  OBVIOUS
<1>2. s \in Seq(Block) /\ k \in 1 .. Len(s) /\ Tiles(s) /\ s[k] = st /\ Len(s) \in Nat \ {0}
  BY <1>1, OrderType
<1>3. /\ st \in Block /\ ~ st.alloc /\ st.size \in Nat /\ st.addr \in Nat
      /\ st = [addr |-> st.addr, size |-> st.size, act |-> st.act, alloc |-> st.alloc]
  BY <1>1, OrderType, BlockParts DEF Frees
<1>4. e = [addr |-> st.addr, size |-> st.size, act |-> size, alloc |-> TRUE]
  BY <1>1, <1>3
<1>5. e \in Block /\ End(e) = End(st) /\ Holds(e) /\ e.addr = st.addr /\ e.alloc
  <2>1. e.addr = st.addr /\ e.size = st.size /\ e.act = size /\ e.alloc = TRUE
    BY <1>4
  <2>2. e \in Block
    BY <1>3, <1>4 DEF Block
  <2>3. size <= st.size
    BY <1>1
  <2>4. End(e) = End(st)
    BY <2>1 DEF End
  <2>5. Holds(e)
    BY <2>1, <2>3, <1>3 DEF Holds
  <2> QED
    BY <2>1, <2>2, <2>4, <2>5
<1>6. PICK t : t = [s EXCEPT ![k] = e]
  OBVIOUS
<1>7. order' = t
  BY <1>1, <1>2, <1>6
<1>8. Splice(s, t, k - 1, <<e>>, k + 1) /\ Len(t) = Len(s)
  BY <1>2, <1>5, <1>6, ExceptIsSplice
<1>9. PICK a, b, mid : a = k - 1 /\ b = k + 1 /\ mid = <<e>>
  OBVIOUS
<1>10. Splice(s, t, a, mid, b)
  BY <1>8, <1>9
<1>11. Len(mid) = 1 /\ mid[1] = e /\ ToSet(mid) = {e} /\ a + 1 = k /\ b - 1 = k
  BY <1>2, <1>5, <1>9, OneBlock
<1>12. Fills(s, a, mid, b)
  BY <1>1, <1>2, <1>5, <1>11 DEF Fills
<1>13. PICK L : L = RemoveFree(lists, order[k]).lists
  OBVIOUS
<1>14. InStep(L, Frees(t))
  <2>1. InStep(L, Frees(s) \ {st})
    BY <1>1, <1>13, RemovedFrom
  <2>2. Frees(t) = (Frees(s) \ {s[j] : j \in a + 1 .. b - 1}) \cup Frees(mid)
    BY <1>2, <1>10, SpliceFrees
  <2>3. Frees(mid) = {}
    BY <1>5, <1>11 DEF Frees
  <2>4. {s[j] : j \in a + 1 .. b - 1} = {st}
    BY <1>2, <1>11
  <2> QED
    BY <2>1, <2>2, <2>3, <2>4
<1>15. /\ UsedW[st] = 0 /\ UsedW[e] = st.size /\ AskedW[st] = 0 /\ AskedW[e] = size
  BY <1>3, <1>4, <1>5, WeightTypes DEF Used, Asked
<1>16. b = a + 2
  BY <1>2, <1>9
<1>17. Takes(UsedW, s, a, b, 0) /\ Takes(AskedW, s, a, b, 0)
  BY <1>2, <1>11, <1>15, <1>16 DEF Takes
<1>18. Brings(UsedW, mid, st.size) /\ Brings(AskedW, mid, size)
  BY <1>11, <1>15 DEF Brings
<1>19. PICK v : v = st.size
  OBVIOUS
<1>20. used_size' = used_size - 0 + v /\ reqs_size' = reqs_size - 0 + size
  BY <1>1, <1>3, <1>19, SumTypes
<1>21. st_count' = Len(t)
  BY <1>1, <1>8 DEF ShInv
<1>22. /\ Splice(order, t, a, mid, b) /\ Fills(order, a, mid, b) /\ Len(mid) \in 1 .. 2
       /\ Takes(UsedW, order, a, b, 0) /\ Brings(UsedW, mid, v)
       /\ Takes(AskedW, order, a, b, 0) /\ Brings(AskedW, mid, size)
       /\ v \in Int /\ size \in Int /\ 0 \in Int
  BY <1>1, <1>3, <1>10, <1>11, <1>12, <1>17, <1>18, <1>19
<1>23. ShInv'
  BY <1>7, <1>13, <1>14, <1>20, <1>21, <1>22, Rebooked
<1>24. Given(t) = Given(s) \cup {e}
  <2>1. Given(t) = (Given(s) \ {s[j] : j \in a + 1 .. b - 1}) \cup Given(mid)
    BY <1>2, <1>10, SpliceGiven
  <2>2. Given(mid) = {e}
    BY <1>5, <1>11 DEF Given
  <2>3. {s[j] : j \in a + 1 .. b - 1} = {st}
    BY <1>2, <1>11
  <2>4. st \notin Given(s)
    BY <1>3 DEF Given
  <2> QED
    BY <2>1, <2>2, <2>3, <2>4
<1>25. e.act = size
  BY <1>4
<1> QED
  <2>1. size <= e.act
    BY <1>25
  <2>2. e.alloc /\ Given(order') = Given(order) \cup {e}
    BY <1>1, <1>5, <1>7, <1>24
  <2> QED
    BY <2>1, <2>2, <1>5, <1>23 DEF Gives

(* What ends before z does not begin beyond it. *)
LEMMA NotInside ==
  ASSUME NEW p \in Nat, NEW q \in Nat, NEW y \in Nat, NEW z \in Nat, NEW h \in Nat,
         NEW size \in Nat, p + y + 1 <= q, q <= z, p = z + h + size
  PROVE  FALSE
OBVIOUS

(* A free block is split: what is asked for is taken from its beginning,   *)
(* the rest is a new free block.                                           *)
LEMMA TakeSplit ==
  ASSUME ShInv, NEW k \in 1 .. Len(order), order[k] \in Frees(order),
         NEW size \in Nat \ {0}, size <= order[k].size,
         ~ (order[k].size - size < Header + split_threshold),
         NEW g, g = [order[k] EXCEPT !.addr = @ + Header + size, !.size = @ - (size + Header)],
         order' = InsertAt([order EXCEPT ![k].alloc = TRUE, ![k].act = size, ![k].size = size],
                           k + 1, g),
         lists' = InsertFree(RemoveFree(lists, order[k]).lists, g),
         used_size' = used_size + size, reqs_size' = reqs_size + size,
         st_count' = st_count + 1, err' = "none", UNCHANGED settings
  PROVE  ShInv' /\ Gives(size)
<1>1. PICK s, st, e : /\ s = order /\ st = order[k]
                      /\ e = [st EXCEPT !.alloc = TRUE, !.act = size, !.size = size]
  OBVIOUS
<1>2. s \in Seq(Block) /\ k \in 1 .. Len(s) /\ Tiles(s) /\ s[k] = st /\ Len(s) \in Nat \ {0}
  BY <1>1, OrderType
<1>3. /\ st \in Block /\ ~ st.alloc /\ st.size \in Nat /\ st.addr \in Nat
      /\ st = [addr |-> st.addr, size |-> st.size, act |-> st.act, alloc |-> st.alloc]
  BY <1>1, OrderType, BlockParts DEF Frees
<1>4. st.act = 0 /\ st.alloc = FALSE
  <2>1. Holds(st)
    BY <1>2 DEF Tiles
  <2> QED
    BY <2>1, <1>3 DEF Holds, Block
<1>5. e = [addr |-> st.addr, size |-> size, act |-> size, alloc |-> TRUE]
  BY <1>1, <1>3
<1>6. e.addr = st.addr /\ e.size = size /\ e.act = size /\ e.alloc = TRUE
  BY <1>5
<1>7. g = [addr |-> st.addr + Header + size, size |-> st.size - (size + Header),
           act |-> 0, alloc |-> FALSE]
  <2>1. g = [st EXCEPT !.addr = @ + Header + size, !.size = @ - (size + Header)]
    BY <1>1
  <2> QED
    BY <2>1, <1>3, <1>4
<1>8. /\ g.addr = st.addr + Header + size /\ g.size = st.size - (size + Header)
      /\ g.act = 0 /\ g.alloc = FALSE
  <2>1. PICK p, q : p = st.addr + Header + size /\ q = st.size - (size + Header)
    OBVIOUS
  <2>2. PICK h : h = [addr |-> p, size |-> q, act |-> 0, alloc |-> FALSE]
    OBVIOUS
  <2>3. h.addr = p /\ h.size = q /\ h.act = 0 /\ h.alloc = FALSE
    BY <2>2
  <2>4. h = g
    BY <2>1, <2>2, <1>7
  <2> QED
    BY <2>1, <2>3, <2>4
<1>9. st.size - (size + Header) \in Nat /\ Header \in Nat \ {0}
  <2>1. split_threshold \in Nat
    BY Parameters, ShmemAssumption DEF ShInv
  <2>2. ~ (st.size - size < Header + split_threshold)
    BY <1>1
  <2>3. PICK x, h, y : x = st.size /\ h = Header /\ y = split_threshold
    OBVIOUS
  <2>4. x \in Nat /\ h \in Nat \ {0} /\ y \in Nat /\ size \in Nat
    BY <2>1, <2>3, <1>3, Parameters
  <2>5. ~ (x - size < h + y)
    BY <2>2, <2>3
  <2>6. x - (size + h) \in Nat
    BY <2>4, <2>5
  <2> QED
    BY <2>3, <2>4, <2>6
<1>10. e \in Block /\ g \in Block
  <2>1. e \in Block
    BY <1>3, <1>5 DEF Block
  <2>2. st.addr + Header + size \in Nat
    BY <1>3, <1>9
  <2>3. g \in Block
    <3>1. PICK p, q : p = st.addr + Header + size /\ q = st.size - (size + Header)
      OBVIOUS
    <3>2. PICK h : h = [addr |-> p, size |-> q, act |-> 0, alloc |-> FALSE]
      OBVIOUS
    <3>3. p \in Nat /\ q \in Nat
      BY <3>1, <2>2, <1>9
    <3>4. h \in Block
      BY <3>2, <3>3 DEF Block
    <3>5. h = g
      BY <3>1, <3>2, <1>7
    <3> QED
      BY <3>4, <3>5
  <2> QED
    BY <2>1, <2>3
<1>11. Holds(e) /\ Holds(g) /\ g.addr = End(e) /\ End(g) = End(st)
  <2>1. Holds(e)
    BY <1>6 DEF Holds
  <2>2. Holds(g)
    BY <1>8 DEF Holds
  <2>3. g.addr = End(e)
    BY <1>6, <1>8 DEF End
  <2>4. End(g) = End(st)
    BY <1>3, <1>8, <1>9 DEF End
  <2> QED
    BY <2>1, <2>2, <2>3, <2>4
<1>12. PICK t : t = InsertAt([s EXCEPT ![k] = e], k + 1, g)
  OBVIOUS
<1>13. order' = t
  <2>1. [order EXCEPT ![k].alloc = TRUE, ![k].act = size, ![k].size = size] = [s EXCEPT ![k] = e]
    BY <1>1, <1>2
  <2> QED
    BY <2>1, <1>12
<1>14. Splice(s, t, k - 1, <<e, g>>, k + 1)
  BY <1>2, <1>10, <1>12, InsertIsSplice
<1>15. PICK a, b, mid : a = k - 1 /\ b = k + 1 /\ mid = <<e, g>>
  OBVIOUS
<1>16. Splice(s, t, a, mid, b)
  BY <1>14, <1>15
<1>17. /\ Len(mid) = 2 /\ mid[1] = e /\ mid[2] = g /\ ToSet(mid) = {e, g}
       /\ a + 1 = k /\ b - 1 = k /\ b = a + 2 /\ a \in Nat /\ b \in Nat
  <2>1. Len(mid) = 2 /\ mid[1] = e /\ mid[2] = g
    BY <1>15
  <2>2. ToSet(mid) = {e, g}
    BY <1>15 DEF ToSet
  <2>3. a + 1 = k /\ b - 1 = k /\ b = a + 2 /\ a \in Nat /\ b \in Nat
    BY <1>2, <1>15
  <2> QED
    BY <2>1, <2>2, <2>3
<1>18. Fills(s, a, mid, b)
  <2>1. b # Len(s) + 1 => s[b].alloc
    <3>1. SUFFICES ASSUME b # Len(s) + 1 PROVE s[b].alloc
      OBVIOUS
    <3>2. k \in 1 .. Len(s) - 1 /\ k + 1 = b
      BY <3>1, <1>2, <1>15
    <3>3. s[k].alloc \/ s[k + 1].alloc
      BY <3>2, <1>2 DEF Tiles
    <3> QED
      BY <3>2, <3>3, <1>2, <1>3
  <2>2. ASSUME NEW j \in 1 .. Len(mid) - 1
        PROVE  mid[j + 1].addr = End(mid[j]) /\ (mid[j].alloc \/ mid[j + 1].alloc)
    <3>1. j = 1 /\ j + 1 = 2
      BY <1>17
    <3>2. mid[j] = e /\ mid[j + 1] = g
      BY <3>1, <1>17
    <3> QED
      BY <3>2, <1>6, <1>11
  <2>3. ASSUME NEW j \in 1 .. Len(mid) PROVE Holds(mid[j])
    <3>1. j = 1 \/ j = 2
      BY <1>17
    <3> QED
      BY <3>1, <1>11, <1>17
  <2> QED
    BY <2>1, <2>2, <2>3, <1>2, <1>6, <1>11, <1>17 DEF Fills
<1>19. PICK L : L = InsertFree(RemoveFree(lists, order[k]).lists, g)
  OBVIOUS
<1>20. InStep(L, Frees(t))
  <2>1. PICK M, F : M = RemoveFree(lists, order[k]).lists /\ F = Frees(s) \ {st}
    OBVIOUS
  <2>2. InStep(M, F)
    BY <2>1, <1>1, RemovedFrom
  <2>3. F \in SUBSET Block
    BY <2>1, <1>2, FreesDistinct
  <2>4. ASSUME NEW d \in F, d.addr = g.addr PROVE FALSE
    <3>1. PICK j \in 1 .. Len(s) : d = s[j]
      BY <2>1, <1>2 DEF Frees, ToSet
    <3>2. j # k
      BY <3>1, <2>1, <1>2
    <3>3. d \in Block /\ d.addr \in Nat /\ d.addr + d.size + 1 <= End(d) /\ d.size \in Nat
          /\ End(d) \in Nat
      BY <2>3, BlockParts
    <3>4. g.size \in Nat /\ g.addr \in Nat
      BY <1>10, BlockParts
    <3>5. CASE j < k
      <4>1. End(s[j]) <= s[k].addr
        BY <3>5, <1>2, TilesIncrease
      <4>2. PICK p, q, z, y : p = d.addr /\ q = End(d) /\ z = st.addr /\ y = d.size
        OBVIOUS
      <4>3. q <= z
        BY <4>1, <4>2, <3>1, <1>2
      <4>4. p + y + 1 <= q /\ p \in Nat /\ q \in Nat /\ z \in Nat /\ y \in Nat
        BY <4>2, <3>3, <1>3
      <4>5. PICK h : h = Header
        OBVIOUS
      <4>6. p = z + h + size /\ h \in Nat /\ size \in Nat
        BY <4>2, <4>5, <2>4, <1>8, <1>9
      <4> QED
        BY <4>3, <4>4, <4>6, NotInside
    <3>6. CASE k < j
      <4>1. End(s[k]) <= s[j].addr
        BY <3>6, <1>2, TilesIncrease
      <4>2. End(g) <= d.addr
        BY <4>1, <3>1, <1>2, <1>11
      <4>3. g.addr + g.size + 1 <= End(g) /\ End(g) \in Nat
        BY <1>10, BlockParts
      <4> QED
        BY <4>2, <4>3, <3>3, <3>4, <2>4
    <3> QED
      BY <3>2, <3>5, <3>6, <1>2
  <2>5. InStep(InsertFree(M, g), F \cup {g})
    BY <2>2, <2>3, <2>4, <1>10, InsertFreeIs
  <2>6. Frees(t) = (Frees(s) \ {s[j] : j \in a + 1 .. b - 1}) \cup Frees(mid)
    BY <1>2, <1>16, SpliceFrees
  <2>7. Frees(mid) = {g}
    BY <1>6, <1>8, <1>17 DEF Frees
  <2>8. {s[j] : j \in a + 1 .. b - 1} = {st}
    BY <1>2, <1>17
  <2>9. F \cup {g} = Frees(t)
    BY <2>1, <2>6, <2>7, <2>8
  <2> QED
    BY <2>1, <2>5, <2>9, <1>19
<1>21. /\ UsedW[st] = 0 /\ UsedW[e] = size /\ UsedW[g] = 0
       /\ AskedW[st] = 0 /\ AskedW[e] = size /\ AskedW[g] = 0
  BY <1>3, <1>6, <1>8, <1>10, WeightTypes DEF Used, Asked
<1>22. Takes(UsedW, s, a, b, 0) /\ Takes(AskedW, s, a, b, 0)
  BY <1>2, <1>17, <1>21 DEF Takes
<1>23. Brings(UsedW, mid, size) /\ Brings(AskedW, mid, size)
  <2>1. size = size + 0
    OBVIOUS
  <2> QED
    BY <2>1, <1>17, <1>21 DEF Brings
<1>24. used_size' = used_size - 0 + size /\ reqs_size' = reqs_size - 0 + size
  BY SumTypes
<1>25. st_count' = Len(t)
  <2>1. Len(t) = a + Len(mid) + (Len(s) + 1 - b)
    BY <1>16 DEF Splice
  <2>2. st_count = Len(s)
    BY <1>1 DEF ShInv
  <2>3. (k - 1) + 2 + (Len(s) + 1 - (k + 1)) = Len(s) + 1
    BY <1>2
  <2>4. Len(t) = (k - 1) + 2 + (Len(s) + 1 - (k + 1))
    BY <2>1, <1>15, <1>17
  <2> QED
    BY <2>2, <2>3, <2>4
<1>26. /\ Splice(order, t, a, mid, b) /\ Fills(order, a, mid, b) /\ Len(mid) \in 1 .. 2
       /\ Takes(UsedW, order, a, b, 0) /\ Brings(UsedW, mid, size)
       /\ Takes(AskedW, order, a, b, 0) /\ Brings(AskedW, mid, size)
       /\ size \in Int /\ 0 \in Int
  BY <1>1, <1>16, <1>17, <1>18, <1>22, <1>23
<1>27. lists' = L
  BY <1>19
<1>28. ShInv'
  BY <1>13, <1>20, <1>24, <1>25, <1>26, <1>27, Rebooked
<1>29. Given(t) = Given(s) \cup {e}
  <2>1. Given(t) = (Given(s) \ {s[j] : j \in a + 1 .. b - 1}) \cup Given(mid)
    BY <1>2, <1>16, SpliceGiven
  <2>2. Given(mid) = {e}
    BY <1>6, <1>8, <1>17 DEF Given
  <2>3. {s[j] : j \in a + 1 .. b - 1} = {st}
    BY <1>2, <1>17
  <2>4. st \notin Given(s)
    BY <1>3 DEF Given
  <2> QED
    BY <2>1, <2>2, <2>3, <2>4
<1> QED
  <2>1. size <= e.act
    BY <1>6
  <2>2. e.alloc /\ Given(order') = Given(order) \cup {e}
    BY <1>1, <1>6, <1>13, <1>29
  <2> QED
    BY <2>1, <2>2, <1>10, <1>28 DEF Gives

LEMMA TakeKeeps ==
  ASSUME ShInv, NEW size \in Nat \ {0}, AllocTake(size)
  PROVE  ShInv' /\ Gives(size)
<1>1. ~ Refused(size)
  BY DEF AllocTake
<1>2. PICK k \in 1 .. Len(order) : /\ IndexOf(FirstFit(size)) = k
                                   /\ order[k] \in Frees(order) /\ size <= order[k].size
  BY <1>1, Found
<1>3. RemoveFree(lists, order[k]).ok
  BY <1>2, RemovedFrom
<1>4. CASE order[k].size - size < Header + split_threshold
  <2>1. /\ order' = [order EXCEPT ![k].alloc = TRUE, ![k].act = size]
        /\ lists' = RemoveFree(lists, order[k]).lists
        /\ used_size' = used_size + order[k].size /\ reqs_size' = reqs_size + size
        /\ st_count' = st_count /\ err' = "none" /\ UNCHANGED settings
    BY <1>2, <1>3, <1>4 DEF AllocTake
  <2> QED
    BY <2>1, <1>2, TakeWhole
<1>5. CASE ~ (order[k].size - size < Header + split_threshold)
  <2>1. PICK g : g = [order[k] EXCEPT !.addr = @ + Header + size, !.size = @ - (size + Header)]
    OBVIOUS
  <2>2. /\ order' = InsertAt([order EXCEPT ![k].alloc = TRUE, ![k].act = size, ![k].size = size],
                             k + 1, g)
        /\ lists' = InsertFree(RemoveFree(lists, order[k]).lists, g)
        /\ used_size' = used_size + size /\ reqs_size' = reqs_size + size
        /\ st_count' = st_count + 1 /\ err' = "none" /\ UNCHANGED settings
    BY <1>2, <1>3, <1>5, <2>1 DEF AllocTake
  <2> QED
    BY <2>1, <2>2, <1>2, <1>5, TakeSplit
<1> QED
  BY <1>4, <1>5

-----------------------------------------------------------------------------
(* The largest block *)

(* fast_shmem_get_max_st finds a free block no smaller than any other. *)
LEMMA MaxStIs ==
  ASSUME ShInv, lists.available # <<>>
  PROVE  \E k \in 1 .. Len(order) :
           /\ order[k] \in Frees(order) /\ MaxSt = order[k].addr
           /\ IndexOf(MaxSt) = k /\ BlockAt(MaxSt) = order[k]
           /\ \A b \in Frees(order) : b.size <= order[k].size
<1>1. PICK s, i : s = lists.available /\ i = s[Len(s)]
  OBVIOUS
<1>2. s \in Seq(Classes) /\ Len(s) \in Nat \ {0} /\ s # <<>> /\ Len(s) \in 1 .. Len(s)
  <2>1. s \in Seq(Classes)
    BY <1>1 DEF ShInv, InStep, Lists
  <2> QED
    BY <2>1, <1>1
<1>3. i \in Classes /\ i \in Nat
  BY <1>1, <1>2, FreeLenType DEF Classes
<1>4. PICK L : L = lists.free[i]
  OBVIOUS
<1>5. L \in Seq(Nat) /\ Len(L) \in Nat \ {0}
  <2>1. L \in Seq(Nat)
    BY <1>3, <1>4 DEF ShInv, InStep, Lists
  <2>2. L # <<>>
    BY <1>1, <1>2, <1>4 DEF ShInv, InStep, Available
  <2> QED
    BY <2>1, <2>2
<1>6. ToSet(L) = {L[j] : j \in 1 .. Len(L)}
  BY <1>5 DEF ToSet
<1>7. ASSUME NEW j \in 1 .. Len(L)
      PROVE  \E k \in 1 .. Len(order) :
               /\ order[k] \in Frees(order) /\ ClassOf(order[k]) = i
               /\ order[k].addr = L[j] /\ BlockAt(L[j]) = order[k] /\ IndexOf(L[j]) = k
  <2>1. L[j] \in ToSet(lists.free[i])
    BY <1>4, <1>6
  <2>2. PICK a : a = L[j]
    OBVIOUS
  <2> QED
    BY <2>1, <2>2, <1>3, OnList
<1>8. PICK z : z = [j \in 1 .. Len(L) |-> BlockAt(L[j]).size]
  OBVIOUS
<1>9. ASSUME NEW j \in 1 .. Len(L)
      PROVE  z[j] = BlockAt(L[j]).size /\ z[j] \in Nat /\ z[j] <= Arena
  <2>1. PICK k \in 1 .. Len(order) : BlockAt(L[j]) = order[k]
    BY <1>7
  <2>2. PICK b, o : b = order[k] /\ o = order
    OBVIOUS
  <2>3. End(b) <= Arena
    <3>1. Tiles(o) /\ k \in 1 .. Len(o) /\ o[k] = b
      BY <2>2, OrderType
    <3> QED
      BY <3>1, TilesInside
  <2>4. b \in Block
    BY <2>2, OrderType
  <2>5. b.size \in Nat /\ b.addr \in Nat /\ End(b) \in Nat /\ b.addr + b.size + 1 <= End(b)
    BY <2>4, BlockParts
  <2>6. z[j] = b.size
    BY <2>1, <2>2, <1>8
  <2>7. b.size <= Arena
    BY <2>3, <2>5, Parameters
  <2> QED
    BY <2>5, <2>6, <2>7, <1>8
<1>10. PICK m \in 1 .. Len(L) : \A j \in 1 .. Len(L) : z[j] <= z[m]
  <2>1. PICK R : R = {Arena - z[j] : j \in 1 .. Len(L)}
    OBVIOUS
  <2>2. R \in SUBSET Nat
    <3>1. ASSUME NEW j \in 1 .. Len(L) PROVE Arena - z[j] \in Nat
      BY <1>9, Parameters
    <3> QED
      BY <2>1, <3>1
  <2>3. R # {}
    <3>1. 1 \in 1 .. Len(L)
      BY <1>5
    <3> QED
      BY <2>1, <3>1
  <2>4. PICK r \in R : \A q \in R : r <= q
    BY <2>2, <2>3, LeastOf
  <2>5. PICK m \in 1 .. Len(L) : r = Arena - z[m]
    BY <2>1
  <2>6. ASSUME NEW j \in 1 .. Len(L) PROVE z[j] <= z[m]
    <3>1. Arena - z[m] <= Arena - z[j]
      BY <2>1, <2>4, <2>5
    <3> QED
      BY <3>1, <1>9, Parameters
  <2> QED
    BY <2>6
<1>11. PICK D : D = {j \in 1 .. Len(L) : z[j] = z[m]}
  OBVIOUS
<1>12. PICK f \in D : \A j \in D : f <= j
  <2>1. D \in SUBSET Nat /\ D # {}
    BY <1>11
  <2> QED
    BY <2>1, LeastOf
<1>13. f \in 1 .. Len(L) /\ z[f] = z[m]
  BY <1>11, <1>12
<1>14. ASSUME NEW j \in 1 .. f - 1 PROVE z[j] < z[f]
  <2>1. j \in 1 .. Len(L) /\ ~ (f <= j)
    BY <1>13
  <2>2. z[j] # z[m]
    BY <2>1, <1>11, <1>12
  <2>3. z[j] <= z[m] /\ z[j] \in Nat /\ z[m] \in Nat
    BY <2>1, <1>9, <1>10
  <2> QED
    BY <2>2, <2>3, <1>13
<1>15. MaxSt = L[CHOOSE j \in DOMAIN L :
                   /\ \A q \in DOMAIN L : BlockAt(L[q]).size <= BlockAt(L[j]).size
                   /\ \A q \in 1 .. j - 1 : BlockAt(L[q]).size < BlockAt(L[j]).size]
  <2>1. Last(lists.available) = i
    BY <1>1 DEF Last
  <2> QED
    BY <2>1, <1>4 DEF MaxSt
<1>16. DOMAIN L = 1 .. Len(L)
  BY <1>5
<1>17. \E j \in DOMAIN L : /\ \A q \in DOMAIN L : BlockAt(L[q]).size <= BlockAt(L[j]).size
                           /\ \A q \in 1 .. j - 1 : BlockAt(L[q]).size < BlockAt(L[j]).size
  <2>1. ASSUME NEW q \in 1 .. Len(L) PROVE BlockAt(L[q]).size <= BlockAt(L[f]).size
    BY <1>9, <1>10, <1>13
  <2>2. ASSUME NEW q \in 1 .. f - 1 PROVE BlockAt(L[q]).size < BlockAt(L[f]).size
    <3>1. q \in 1 .. Len(L)
      BY <1>13
    <3> QED
      BY <3>1, <1>9, <1>13, <1>14
  <2> QED
    BY <2>1, <2>2, <1>13, <1>16
<1>18. PICK j \in 1 .. Len(L) : /\ MaxSt = L[j]
                                /\ \A q \in 1 .. Len(L) : BlockAt(L[q]).size <= BlockAt(L[j]).size
  BY <1>15, <1>16, <1>17
<1>19. PICK k \in 1 .. Len(order) :
         /\ order[k] \in Frees(order) /\ ClassOf(order[k]) = i
         /\ order[k].addr = L[j] /\ BlockAt(L[j]) = order[k] /\ IndexOf(L[j]) = k
  BY <1>7
<1>20. ASSUME NEW b \in Frees(order) PROVE b.size <= order[k].size
  <2>1. /\ b \in Block /\ ClassOf(b) \in Classes /\ ClassOf(b) <= i
        /\ b.addr \in ToSet(lists.free[ClassOf(b)]) /\ BlockAt(b.addr) = b
    BY <1>1, HasList
  <2>2. PICK c : c = order[k]
    OBVIOUS
  <2>3. c \in Block /\ c.size \in Nat /\ b.size \in Nat
    BY <2>1, <2>2, OrderType, BlockParts
  <2>4. CASE ClassOf(b) = i
    <3>1. PICK q \in 1 .. Len(L) : b.addr = L[q]
      BY <2>1, <2>4, <1>4, <1>6
    <3> QED
      BY <3>1, <2>1, <1>18, <1>19
  <2>5. CASE ClassOf(b) # i
    <3>1. ClassOf(b) < i /\ ClassOf(c) = i /\ ClassOf(b) \in Nat
      BY <2>1, <2>2, <2>5, <1>3, <1>19, FreeLenType DEF Classes
    <3>2. ClassOf(b) < free_len - 1
      BY <3>1, <1>3, FreeLenType DEF Classes
    <3>3. InsertIndex(b.size) = ClassOf(b)
      BY <3>2, <2>1, ClassOfType
    <3>4. ClassOf(c) <= InsertIndex(c.size)
      BY <2>3, ClassOfType
    <3>5. InsertIndex(b.size) \in Nat /\ InsertIndex(c.size) \in Nat
      BY <2>3, InsertIndexType
    <3>6. ~ (InsertIndex(c.size) <= InsertIndex(b.size))
      BY <3>1, <3>3, <3>4, <3>5, <1>3
    <3>7. ~ (c.size <= b.size)
      <4>1. PICK p, q : p = c.size /\ q = b.size
        OBVIOUS
      <4>2. p \in Nat /\ q \in Nat /\ ~ (InsertIndex(p) <= InsertIndex(q))
        BY <4>1, <2>3, <3>6
      <4>3. ~ (p <= q)
        BY <4>2, InsertIndexMonotone
      <4> QED
        BY <4>1, <4>3
    <3> QED
      BY <3>7, <2>2, <2>3
  <2> QED
    BY <2>4, <2>5
<1> QED
  BY <1>18, <1>19, <1>20

LEMMA SplitKeeps ==
  ASSUME ShInv, NEW size \in Nat \ {0}, SplitAlloc(size)
  PROVE  ShInv' /\ (Gives(size) \/ order' = order)
<1>1. ASSUME AllocError("max_exhausted") PROVE ShInv' /\ order' = order
  <2>1. NoListDamage' /\ split_threshold' \in Thresholds \cup {min_size}
    BY <1>1 DEF AllocError, NoListDamage, ShInv, settings
  <2> QED
    BY <2>1, <1>1, ReportKeeps DEF AllocError, stats, settings
<1>2. CASE lists.max_available_index = free_len \/ lists.available = <<>>
  BY <1>1, <1>2 DEF SplitAlloc
<1>3. CASE ~ (lists.max_available_index = free_len \/ lists.available = <<>>)
  <2>1. PICK k \in 1 .. Len(order) : order[k] \in Frees(order) /\ IndexOf(MaxSt) = k
    BY <1>3, MaxStIs
  <2>2. RemoveFree(lists, order[k]).ok
    BY <2>1, RemovedFrom
  <2>3. CASE order[k].size < size
    <3>1. AllocError("no_fixed_req_minsize")
      BY <1>3, <2>1, <2>3 DEF SplitAlloc
    <3>2. NoListDamage' /\ split_threshold' \in Thresholds \cup {min_size}
      BY <3>1 DEF AllocError, NoListDamage, ShInv, settings
    <3> QED
      BY <3>1, <3>2, ReportKeeps DEF AllocError, stats, settings
  <2>4. CASE ~ (order[k].size < size)
    <3>1. PICK z : z = order[k].size
      OBVIOUS
    <3>2. z \in Nat
      BY <3>1, OrderType, BlockParts
    <3>3. z \in Nat \ {0} /\ z <= order[k].size
      BY <3>1, <3>2, <2>4
    <3>4. /\ order' = [order EXCEPT ![k].alloc = TRUE, ![k].act = z]
          /\ lists' = RemoveFree(lists, order[k]).lists
          /\ used_size' = used_size + order[k].size /\ reqs_size' = reqs_size + z
          /\ st_count' = st_count /\ err' = "none" /\ UNCHANGED settings
      BY <1>3, <2>1, <2>2, <2>4, <3>1 DEF SplitAlloc
    <3>5. ShInv' /\ Gives(z)
      BY <3>3, <3>4, <2>1, TakeWhole
    <3>6. Gives(z) => Gives(size)
      <4>1. size <= z
        BY <3>1, <3>2, <2>4
      <4>2. ASSUME NEW e \in Block, z <= e.act PROVE size <= e.act
        <5>1. e.act \in Nat
          BY BlockParts
        <5> QED
          BY <5>1, <4>1, <4>2, <3>2
      <4> QED
        BY <4>2 DEF Gives
    <3> QED
      BY <3>5, <3>6
  <2> QED
    BY <2>3, <2>4
<1> QED
  BY <1>2, <1>3

-----------------------------------------------------------------------------
(* Freeing a block: the neighbours merged, the lists they leave, and the   *)
(* block that takes the place of all of them.                              *)
NextFree(k) == k < Len(order) /\ ~ order[k + 1].alloc
PrevFree(k) == k > 1 /\ ~ order[k - 1].alloc

NextOff(k) == IF NextFree(k) THEN RemoveFree(lists, order[k + 1])
              ELSE [ok |-> TRUE, lists |-> lists]
PrevOff(k) == IF PrevFree(k) THEN RemoveFree(NextOff(k).lists, order[k - 1]) ELSE NextOff(k)

WithNext(k) == [order[k] EXCEPT !.alloc = FALSE, !.act = 0,
                  !.size = IF NextFree(k) THEN @ + order[k + 1].size + Header ELSE @]
Freed(k) == IF PrevFree(k) THEN [order[k - 1] EXCEPT !.size = @ + WithNext(k).size + Header]
            ELSE WithNext(k)

Before(k) == IF PrevFree(k) THEN k - 2 ELSE k - 1
After(k)  == IF NextFree(k) THEN k + 2 ELSE k + 1

(* The blocks a free merges. *)
LEMMA MergedAre ==
  ASSUME ShInv, NEW k \in 1 .. Len(order)
  PROVE  {order[j] : j \in Before(k) + 1 .. After(k) - 1} =
           (IF NextFree(k) THEN {order[k + 1]} ELSE {})
             \cup (IF PrevFree(k) THEN {order[k - 1]} ELSE {}) \cup {order[k]}
<1>1. PICK s, lo, hi : s = order /\ lo = Before(k) + 1 /\ hi = After(k) - 1
  OBVIOUS
<1>2. k \in Nat
  BY OrderType
<1>3. lo = (IF PrevFree(k) THEN k - 1 ELSE k) /\ hi = (IF NextFree(k) THEN k + 1 ELSE k)
  BY <1>1, <1>2 DEF Before, After
<1>4. CASE PrevFree(k) /\ NextFree(k)
  <2>1. lo .. hi = {k - 1, k, k + 1}
    BY <1>2, <1>3, <1>4
  <2> QED
    BY <2>1, <1>1, <1>4
<1>5. CASE PrevFree(k) /\ ~ NextFree(k)
  <2>1. lo .. hi = {k - 1, k}
    BY <1>2, <1>3, <1>5
  <2> QED
    BY <2>1, <1>1, <1>5
<1>6. CASE ~ PrevFree(k) /\ NextFree(k)
  <2>1. lo .. hi = {k, k + 1}
    BY <1>2, <1>3, <1>6
  <2> QED
    BY <2>1, <1>1, <1>6
<1>7. CASE ~ PrevFree(k) /\ ~ NextFree(k)
  <2>1. lo .. hi = {k}
    BY <1>2, <1>3, <1>7
  <2> QED
    BY <2>1, <1>1, <1>7
<1> QED
  BY <1>4, <1>5, <1>6, <1>7

LEMMA FreeOffLists ==
  ASSUME ShInv, NEW k \in 1 .. Len(order), order[k].alloc
  PROVE  /\ NextOff(k).ok /\ PrevOff(k).ok
         /\ InStep(PrevOff(k).lists,
                   Frees(order) \ {order[j] : j \in Before(k) + 1 .. After(k) - 1})
<1>1. PICK s, F, L : s = order /\ F = Frees(order) /\ L = lists
  OBVIOUS
<1>2. /\ Tiles(s) /\ s \in Seq(Block) /\ Len(s) \in Nat \ {0} /\ k \in 1 .. Len(s) /\ s[k].alloc
      /\ F \in SUBSET Block /\ Distinct(F) /\ InStep(L, F)
      /\ F = {b \in {s[j] : j \in 1 .. Len(s)} : ~ b.alloc}
  BY <1>1, OrderType DEF ShInv, Frees
<1>3. PICK N : N = IF NextFree(k) THEN {s[k + 1]} ELSE {}
  OBVIOUS
<1>4. PICK P : P = IF PrevFree(k) THEN {s[k - 1]} ELSE {}
  OBVIOUS
<1>5. NextFree(k) => k + 1 \in 1 .. Len(s) /\ s[k + 1] \in F
  <2> SUFFICES ASSUME NextFree(k) PROVE k + 1 \in 1 .. Len(s) /\ s[k + 1] \in F
    OBVIOUS
  <2>1. k + 1 \in 1 .. Len(s) /\ ~ s[k + 1].alloc
    BY <1>1, <1>2 DEF NextFree
  <2> QED
    BY <2>1, <1>2
<1>6. PrevFree(k) => k - 1 \in 1 .. Len(s) /\ s[k - 1] \in F
  <2> SUFFICES ASSUME PrevFree(k) PROVE k - 1 \in 1 .. Len(s) /\ s[k - 1] \in F
    OBVIOUS
  <2>1. k - 1 \in 1 .. Len(s) /\ ~ s[k - 1].alloc
    BY <1>1, <1>2 DEF PrevFree
  <2> QED
    BY <2>1, <1>2
<1>7. PICK M : M = NextOff(k)
  OBVIOUS
<1>8. M.ok /\ InStep(M.lists, F \ N)
  <2>1. CASE NextFree(k)
    <3>1. PICK b : b = s[k + 1]
      OBVIOUS
    <3>2. M = RemoveFree(L, b) /\ b \in F /\ N = {b}
      BY <2>1, <3>1, <1>1, <1>3, <1>5, <1>7 DEF NextOff
    <3>3. RemoveFree(L, b).ok /\ InStep(RemoveFree(L, b).lists, F \ {b})
      BY <3>2, <1>2, RemoveFreeIs
    <3> QED
      BY <3>2, <3>3
  <2>2. CASE ~ NextFree(k)
    <3>1. M = [ok |-> TRUE, lists |-> L] /\ N = {}
      BY <2>2, <1>1, <1>3, <1>7 DEF NextOff
    <3>2. M.ok /\ M.lists = L /\ F \ N = F
      BY <3>1
    <3> QED
      BY <3>2, <1>2
  <2> QED
    BY <2>1, <2>2
<1>9. PICK Q : Q = PrevOff(k)
  OBVIOUS
<1>10. Q.ok /\ InStep(Q.lists, (F \ N) \ P)
  <2>1. CASE PrevFree(k)
    <3>1. PICK b, K, G : b = s[k - 1] /\ K = M.lists /\ G = F \ N
      OBVIOUS
    <3>2. Q = RemoveFree(K, b) /\ P = {b}
      BY <2>1, <3>1, <1>1, <1>4, <1>7, <1>9 DEF PrevOff
    <3>3. b \notin N
      <4>1. CASE NextFree(k)
        <5>1. s[k + 1].addr # s[k - 1].addr
          <6>1. k + 1 \in 1 .. Len(s) /\ k - 1 \in 1 .. Len(s) /\ k + 1 # k - 1
            BY <2>1, <4>1, <1>5, <1>6, <1>2
          <6> QED
            BY <6>1, <1>2, TilesDistinct
        <5> QED
          BY <5>1, <4>1, <3>1, <1>3
      <4>2. CASE ~ NextFree(k)
        BY <4>2, <1>3
      <4> QED
        BY <4>1, <4>2
    <3>4. b \in G /\ G \in SUBSET Block /\ Distinct(G) /\ InStep(K, G)
      BY <2>1, <3>1, <3>3, <1>2, <1>6, <1>8 DEF Distinct
    <3>5. RemoveFree(K, b).ok /\ InStep(RemoveFree(K, b).lists, G \ {b})
      BY <3>4, RemoveFreeIs
    <3> QED
      BY <3>1, <3>2, <3>5
  <2>2. CASE ~ PrevFree(k)
    <3>1. Q = M /\ P = {}
      BY <2>2, <1>4, <1>7, <1>9 DEF PrevOff
    <3> QED
      BY <3>1, <1>8
  <2> QED
    BY <2>1, <2>2
<1>11. (F \ N) \ P = F \ {s[j] : j \in Before(k) + 1 .. After(k) - 1}
  <2>1. s[k] \notin F
    BY <1>2
  <2>2. {s[j] : j \in Before(k) + 1 .. After(k) - 1} = N \cup P \cup {s[k]}
    BY <1>1, <1>3, <1>4, MergedAre
  <2> QED
    BY <2>1, <2>2
<1>12. InStep(Q.lists, F \ {s[j] : j \in Before(k) + 1 .. After(k) - 1})
  BY <1>10, <1>11
<1> QED
  BY <1>1, <1>7, <1>8, <1>9, <1>10, <1>12

LEMMA FreedIs ==
  ASSUME ShInv, NEW k \in 1 .. Len(order), order[k].alloc
  PROVE  /\ Before(k) \in 0 .. Len(order) /\ After(k) \in Before(k) + 2 .. Len(order) + 1
         /\ Before(k) \in Nat /\ After(k) \in Nat
         /\ Freed(k) \in Block /\ Freed(k).alloc = FALSE /\ Freed(k).act = 0
         /\ Freed(k).addr = order[Before(k) + 1].addr
         /\ End(Freed(k)) = End(order[After(k) - 1])
<1>1. PICK s, st, w : s = order /\ st = order[k] /\ w = WithNext(k)
  OBVIOUS
<1>2. /\ Tiles(s) /\ s \in Seq(Block) /\ Len(s) \in Nat \ {0} /\ k \in 1 .. Len(s) /\ st = s[k]
      /\ \A j \in 1 .. Len(s) : s[j] \in Block
  BY <1>1, OrderType
<1>3. /\ st \in Block /\ st.size \in Nat /\ st.addr \in Nat
      /\ st = [addr |-> st.addr, size |-> st.size, act |-> st.act, alloc |-> st.alloc]
  BY <1>2, BlockParts
<1>4. Header \in Nat \ {0}
  BY Parameters
<1>5. \A j \in 1 .. Len(s) - 1 : s[j + 1].addr = s[j].addr + Header + s[j].size
  BY <1>2 DEF Tiles, End
<1>6. /\ w.addr = st.addr /\ w.act = 0 /\ w.alloc = FALSE /\ w \in Block /\ w.size \in Nat
      /\ End(w) = End(s[After(k) - 1])
      /\ After(k) \in k + 1 .. Len(s) + 1
  <2>1. CASE NextFree(k)
    <3>1. PICK n : n = s[k + 1]
      OBVIOUS
    <3>2. k \in 1 .. Len(s) - 1 /\ k + 1 \in 1 .. Len(s) /\ After(k) = k + 2 /\ (k + 2) - 1 = k + 1
      BY <2>1, <1>1, <1>2 DEF NextFree, After
    <3>3. n \in Block /\ n.size \in Nat /\ n.addr \in Nat
      BY <3>1, <3>2, <1>2, BlockParts
    <3>4. n.addr = st.addr + Header + st.size
      BY <3>1, <3>2, <1>2, <1>5
    <3>5. w = [st EXCEPT !.alloc = FALSE, !.act = 0, !.size = @ + n.size + Header]
      BY <2>1, <3>1, <1>1 DEF WithNext
    <3>6. PICK z : z = st.size + n.size + Header
      OBVIOUS
    <3>7. w = [addr |-> st.addr, size |-> z, act |-> 0, alloc |-> FALSE]
      BY <3>5, <3>6, <1>3
    <3>8. z \in Nat
      <4>1. st.size \in Nat /\ n.size \in Nat /\ Header \in Nat
        BY <3>3, <1>3, <1>4
      <4> QED
        BY <4>1, <3>6
    <3>9. w \in Block /\ w.addr = st.addr /\ w.size = z /\ w.act = 0 /\ w.alloc = FALSE
      BY <3>7, <3>8, <1>3 DEF Block
    <3>10. End(w) = End(n)
      <4>1. PICK x, y, v, u, h : /\ x = st.addr /\ y = st.size /\ v = n.addr /\ u = n.size
                                 /\ h = Header
        OBVIOUS
      <4>2. x \in Nat /\ y \in Nat /\ u \in Nat /\ h \in Nat
        BY <4>1, <3>3, <1>3, <1>4
      <4>3. End(w) = x + h + (y + u + h) /\ End(n) = v + h + u /\ v = x + h + y
        BY <4>1, <3>4, <3>6, <3>9 DEF End
      <4>4. x + h + (y + u + h) = (x + h + y) + h + u
        BY <4>2
      <4> QED
        BY <4>3, <4>4
    <3>11. After(k) \in k + 1 .. Len(s) + 1
      BY <3>2, <1>2
    <3> QED
      BY <3>1, <3>2, <3>8, <3>9, <3>10, <3>11
  <2>2. CASE ~ NextFree(k)
    <3>1. After(k) = k + 1 /\ (k + 1) - 1 = k /\ After(k) \in k + 1 .. Len(s) + 1
      BY <2>2, <1>2 DEF After
    <3>2. w = [st EXCEPT !.alloc = FALSE, !.act = 0, !.size = @]
      BY <2>2, <1>1 DEF WithNext
    <3>3. w = [addr |-> st.addr, size |-> st.size, act |-> 0, alloc |-> FALSE]
      BY <3>2, <1>3
    <3>4. w \in Block /\ w.addr = st.addr /\ w.size = st.size /\ w.act = 0 /\ w.alloc = FALSE
      BY <3>3, <1>3 DEF Block
    <3>5. End(w) = End(st)
      BY <3>4 DEF End
    <3> QED
      BY <3>1, <3>4, <3>5, <1>2, <1>3
  <2> QED
    BY <2>1, <2>2
<1>7. CASE PrevFree(k)
  <2>1. PICK p, f : p = s[k - 1] /\ f = Freed(k)
    OBVIOUS
  <2>2. /\ k - 1 \in 1 .. Len(s) - 1 /\ k - 1 \in 1 .. Len(s) /\ (k - 1) + 1 = k
        /\ Before(k) = k - 2 /\ (k - 2) + 1 = k - 1
    BY <1>7, <1>1, <1>2 DEF PrevFree, Before
  <2>3. /\ p \in Block /\ p.size \in Nat /\ p.addr \in Nat /\ ~ p.alloc
        /\ p = [addr |-> p.addr, size |-> p.size, act |-> p.act, alloc |-> p.alloc]
    BY <2>1, <2>2, <1>1, <1>2, <1>7, BlockParts DEF PrevFree
  <2>4. p.act = 0 /\ p.alloc = FALSE
    <3>1. Holds(p)
      BY <2>1, <2>2, <1>2 DEF Tiles
    <3> QED
      BY <3>1, <2>3 DEF Holds, Block
  <2>5. st.addr = p.addr + Header + p.size
    BY <2>1, <2>2, <1>2, <1>5
  <2>6. PICK z : z = p.size + w.size + Header
    OBVIOUS
  <2>7. f = [p EXCEPT !.size = @ + w.size + Header]
    BY <2>1, <1>1, <1>7 DEF Freed
  <2>8. f = [addr |-> p.addr, size |-> z, act |-> 0, alloc |-> FALSE]
    BY <2>3, <2>4, <2>6, <2>7
  <2>9. z \in Nat
    <3>1. p.size \in Nat /\ w.size \in Nat /\ Header \in Nat
      BY <2>3, <1>4, <1>6
    <3> QED
      BY <3>1, <2>6
  <2>10. f \in Block /\ f.addr = p.addr /\ f.size = z /\ f.act = 0 /\ f.alloc = FALSE
    BY <2>3, <2>8, <2>9 DEF Block
  <2>11. End(f) = End(w)
    <3>1. PICK pa, pz, sz, wz, h : pa = p.addr /\ pz = p.size /\ sz = st.addr /\ wz = w.size /\ h = Header
      OBVIOUS
    <3>2. pa \in Nat /\ pz \in Nat /\ sz \in Nat /\ wz \in Nat /\ h \in Nat
      BY <3>1, <2>3, <1>3, <1>4, <1>6
    <3>3. End(f) = pa + h + z
      BY <3>1, <2>10 DEF End
    <3>4. End(w) = sz + h + wz
      BY <3>1, <1>6 DEF End
    <3>5. sz = pa + h + pz /\ z = pz + wz + h
      BY <3>1, <2>5, <2>6
    <3>6. pa + h + (pz + wz + h) = (pa + h + pz) + h + wz
      BY <3>2
    <3> QED
      BY <3>3, <3>4, <3>5, <3>6
  <2>12. Before(k) \in 0 .. Len(s) /\ After(k) \in Before(k) + 2 .. Len(s) + 1
         /\ Before(k) \in Nat /\ After(k) \in Nat
    <3>1. PICK a, b, n : a = Before(k) /\ b = After(k) /\ n = Len(s)
      OBVIOUS
    <3>2. n \in Nat /\ k \in 1 .. n /\ k - 1 \in 1 .. n /\ a = k - 2 /\ b \in k + 1 .. n + 1
      BY <3>1, <2>2, <1>2, <1>6
    <3>3. a \in 0 .. n /\ b \in a + 2 .. n + 1 /\ a \in Nat /\ b \in Nat
      BY <3>2
    <3> QED
      BY <3>1, <3>3
  <2>13. Freed(k) \in Block /\ Freed(k).alloc = FALSE /\ Freed(k).act = 0
    BY <2>1, <2>10
  <2>14. Before(k) + 1 = k - 1 /\ s[Before(k) + 1] = p
    BY <2>1, <2>2
  <2>15. Freed(k).addr = order[Before(k) + 1].addr
    BY <2>1, <2>10, <2>14, <1>1
  <2>16. End(Freed(k)) = End(order[After(k) - 1])
    BY <2>1, <2>11, <1>1, <1>6
  <2> QED
    BY <2>12, <2>13, <2>15, <2>16, <1>1
<1>8. CASE ~ PrevFree(k)
  <2>1. Before(k) = k - 1 /\ (k - 1) + 1 = k /\ Freed(k) = w
    BY <1>8, <1>1, <1>2 DEF Before, Freed
  <2>2. Before(k) \in 0 .. Len(s) /\ After(k) \in Before(k) + 2 .. Len(s) + 1
        /\ Before(k) \in Nat /\ After(k) \in Nat
    BY <2>1, <1>2, <1>6
  <2> QED
    BY <2>1, <2>2, <1>1, <1>6
<1> QED
  BY <1>7, <1>8

(* fast_shmem_free, when no list is damaged. *)
LEMMA FreeIs ==
  ASSUME ShInv, NEW k \in 1 .. Len(order), Free(k)
  PROVE  /\ order[k].alloc
         /\ order' = SubSeq(order, 1, Before(k)) \o <<Freed(k)>> \o SubSeq(order, After(k), Len(order))
         /\ lists' = InsertFree(PrevOff(k).lists, Freed(k))
         /\ used_size' = used_size - order[k].size /\ reqs_size' = reqs_size - order[k].act
         /\ st_count' = st_count - (IF NextFree(k) THEN 1 ELSE 0) - (IF PrevFree(k) THEN 1 ELSE 0)
         /\ err' = "none" /\ UNCHANGED settings
<1>1. order[k].alloc
  BY DEF Free
<1>2. NextOff(k).ok /\ PrevOff(k).ok
  BY <1>1, FreeOffLists
<1>3. /\ NextFree(k) <=> (k < Len(order) /\ ~ order[k + 1].alloc)
      /\ PrevFree(k) <=> (k > 1 /\ ~ order[k - 1].alloc)
  BY DEF NextFree, PrevFree
<1> USE DEF NextOff, PrevOff, WithNext, Freed, Before, After
<1>4. /\ used_size' = used_size - order[k].size /\ reqs_size' = reqs_size - order[k].act
      /\ UNCHANGED settings
  BY DEF Free
<1>5. CASE NextFree(k) /\ PrevFree(k)
  BY <1>1, <1>2, <1>3, <1>4, <1>5 DEF Free
<1>6. CASE NextFree(k) /\ ~ PrevFree(k)
  BY <1>1, <1>2, <1>3, <1>4, <1>6 DEF Free
<1>7. CASE ~ NextFree(k) /\ PrevFree(k)
  BY <1>1, <1>2, <1>3, <1>4, <1>7 DEF Free
<1>8. CASE ~ NextFree(k) /\ ~ PrevFree(k)
  BY <1>1, <1>2, <1>3, <1>4, <1>8 DEF Free
<1> QED
  BY <1>5, <1>6, <1>7, <1>8

(* The blocks beside those a free merges are allocated. *)
LEMMA FreeBeside ==
  ASSUME ShInv, NEW k \in 1 .. Len(order), order[k].alloc
  PROVE  /\ Before(k) # 0 => order[Before(k)].alloc
         /\ After(k) # Len(order) + 1 => order[After(k)].alloc
<1>1. PICK s, n : s = order /\ n = Len(order)
  OBVIOUS
<1>2. /\ n \in Nat \ {0} /\ k \in 1 .. n
      /\ \A j \in 1 .. n - 1 : s[j].alloc \/ s[j + 1].alloc
  BY <1>1, OrderType DEF Tiles
<1>3. ASSUME Before(k) # 0 PROVE s[Before(k)].alloc
  <2>1. CASE PrevFree(k)
    <3>1. Before(k) = k - 2 /\ k > 1 /\ ~ s[k - 1].alloc
      BY <2>1, <1>1 DEF Before, PrevFree
    <3>2. k - 2 \in 1 .. n - 1 /\ (k - 2) + 1 = k - 1
      BY <3>1, <1>2, <1>3
    <3> QED
      BY <3>1, <3>2, <1>2
  <2>2. CASE ~ PrevFree(k)
    <3>1. Before(k) = k - 1 /\ (k <= 1 \/ s[k - 1].alloc)
      BY <2>2, <1>1, <1>2 DEF Before, PrevFree
    <3>2. ~ (k <= 1)
      BY <3>1, <1>2, <1>3
    <3> QED
      BY <3>1, <3>2
  <2> QED
    BY <2>1, <2>2
<1>4. ASSUME After(k) # n + 1 PROVE s[After(k)].alloc
  <2>1. CASE NextFree(k)
    <3>1. After(k) = k + 2 /\ k < n /\ ~ s[k + 1].alloc
      BY <2>1, <1>1 DEF After, NextFree
    <3>2. k + 1 \in 1 .. n - 1 /\ (k + 1) + 1 = k + 2
      BY <3>1, <1>2, <1>4
    <3> QED
      BY <3>1, <3>2, <1>2
  <2>2. CASE ~ NextFree(k)
    <3>1. After(k) = k + 1 /\ (k >= n \/ s[k + 1].alloc)
      BY <2>2, <1>1, <1>2 DEF After, NextFree
    <3>2. ~ (k >= n)
      BY <3>1, <1>2, <1>4
    <3> QED
      BY <3>1, <3>2
  <2> QED
    BY <2>1, <2>2
<1> QED
  BY <1>1, <1>3, <1>4

(* Of the blocks a free merges, only the one it frees weighs anything. *)
LEMMA FreeTakes ==
  ASSUME ShInv, NEW k \in 1 .. Len(order), order[k].alloc,
         NEW w \in [Block -> Nat], \A b \in Block : ~ b.alloc => w[b] = 0
  PROVE  Takes(w, order, Before(k), After(k), w[order[k]])
<1>1. PICK s, n, z, a, b : /\ s = order /\ n = Len(order) /\ z = w[order[k]]
                           /\ a = Before(k) /\ b = After(k)
  OBVIOUS
<1>2. /\ n \in Nat \ {0} /\ k \in 1 .. n /\ \A j \in 1 .. n : s[j] \in Block
      /\ z \in Nat /\ w[s[k]] = z
  <2>1. n \in Nat \ {0} /\ k \in 1 .. n /\ \A j \in 1 .. n : s[j] \in Block
    BY <1>1, OrderType
  <2> QED
    BY <2>1, <1>1
<1>3. NextFree(k) => k + 1 \in 1 .. n /\ w[s[k + 1]] = 0
  BY <1>1, <1>2 DEF NextFree
<1>4. PrevFree(k) => k - 1 \in 1 .. n /\ w[s[k - 1]] = 0
  BY <1>1, <1>2 DEF PrevFree
<1>5. a = (IF PrevFree(k) THEN k - 2 ELSE k - 1) /\ b = (IF NextFree(k) THEN k + 2 ELSE k + 1)
  BY <1>1 DEF Before, After
<1>6. CASE PrevFree(k) /\ NextFree(k)
  <2>1. b = a + 4 /\ a + 1 = k - 1 /\ a + 2 = k /\ a + 3 = k + 1
    BY <1>2, <1>5, <1>6
  <2>2. z = w[s[a + 1]] + w[s[a + 2]] + w[s[a + 3]]
    BY <2>1, <1>2, <1>3, <1>4, <1>6
  <2> QED
    BY <2>1, <2>2, <1>1 DEF Takes
<1>7. CASE PrevFree(k) /\ ~ NextFree(k)
  <2>1. b = a + 3 /\ a + 1 = k - 1 /\ a + 2 = k
    BY <1>2, <1>5, <1>7
  <2>2. z = w[s[a + 1]] + w[s[a + 2]]
    BY <2>1, <1>2, <1>4, <1>7
  <2> QED
    BY <2>1, <2>2, <1>1 DEF Takes
<1>8. CASE ~ PrevFree(k) /\ NextFree(k)
  <2>1. b = a + 3 /\ a + 1 = k /\ a + 2 = k + 1
    BY <1>2, <1>5, <1>8
  <2>2. z = w[s[a + 1]] + w[s[a + 2]]
    BY <2>1, <1>2, <1>3, <1>8
  <2> QED
    BY <2>1, <2>2, <1>1 DEF Takes
<1>9. CASE ~ PrevFree(k) /\ ~ NextFree(k)
  <2>1. b = a + 2 /\ a + 1 = k
    BY <1>2, <1>5, <1>9
  <2>2. z = w[s[a + 1]]
    BY <2>1, <1>2
  <2> QED
    BY <2>1, <2>2, <1>1 DEF Takes
<1> QED
  BY <1>6, <1>7, <1>8, <1>9

LEMMA FreeKeeps ==
  ASSUME ShInv, NEW k \in 1 .. Len(order), Free(k)
  PROVE  ShInv' /\ order[k].alloc /\ Given(order') = Given(order) \ {order[k]}
<1>1. PICK s, f, a, b, mid, t :
        /\ s = order /\ f = Freed(k) /\ a = Before(k) /\ b = After(k) /\ mid = <<f>>
        /\ t = SubSeq(s, 1, a) \o mid \o SubSeq(s, b, Len(s))
  OBVIOUS
<1>2. /\ order[k].alloc /\ order' = t
      /\ lists' = InsertFree(PrevOff(k).lists, f)
      /\ used_size' = used_size - order[k].size /\ reqs_size' = reqs_size - order[k].act
      /\ st_count' = st_count - (IF NextFree(k) THEN 1 ELSE 0) - (IF PrevFree(k) THEN 1 ELSE 0)
      /\ err' = "none" /\ UNCHANGED settings
  BY <1>1, FreeIs
<1>3. /\ a \in 0 .. Len(s) /\ b \in a + 2 .. Len(s) + 1 /\ a \in Nat /\ b \in Nat
      /\ f \in Block /\ f.alloc = FALSE /\ f.act = 0
      /\ f.addr = s[a + 1].addr /\ End(f) = End(s[b - 1])
  BY <1>1, <1>2, FreedIs
<1>4. Tiles(s) /\ s \in Seq(Block) /\ Len(s) \in Nat \ {0} /\ \A j \in 1 .. Len(s) : s[j] \in Block
  BY <1>1, OrderType
<1>5. mid \in Seq(Block) /\ Len(mid) = 1 /\ mid[1] = f /\ ToSet(mid) = {f} /\ mid # <<>>
  <2>1. mid \in Seq(Block) /\ Len(mid) = 1 /\ mid[1] = f /\ ToSet(mid) = {f}
    BY <1>1, <1>3, OneBlock
  <2> QED
    BY <2>1
<1>6. Splice(s, t, a, mid, b)
  BY <1>1, <1>3, <1>4, <1>5, ConcatIsSplice
<1>7. Fills(s, a, mid, b)
  <2>1. Holds(f)
    BY <1>3 DEF Holds
  <2>2. (a # 0 => s[a].alloc) /\ (b # Len(s) + 1 => s[b].alloc)
    BY <1>1, <1>2, FreeBeside
  <2>3. mid[1].addr = s[a + 1].addr /\ End(mid[Len(mid)]) = End(s[b - 1])
    BY <1>3, <1>5
  <2>4. /\ \A j \in 1 .. Len(mid) - 1 : mid[j + 1].addr = End(mid[j])
        /\ \A j \in 1 .. Len(mid) - 1 : mid[j].alloc \/ mid[j + 1].alloc
    BY <1>5
  <2>5. \A j \in 1 .. Len(mid) : Holds(mid[j])
    BY <2>1, <1>5
  <2> QED
    BY <2>2, <2>3, <2>4, <2>5 DEF Fills
<1>8. PICK L : L = InsertFree(PrevOff(k).lists, f)
  OBVIOUS
<1>9. InStep(L, Frees(t))
  <2>1. PICK K, G : K = PrevOff(k).lists /\ G = Frees(s) \ {s[j] : j \in a + 1 .. b - 1}
    OBVIOUS
  <2>2. InStep(K, G)
    BY <2>1, <1>1, <1>2, FreeOffLists
  <2>3. Frees(s) \in SUBSET Block /\ Frees(s) \in SUBSET {s[j] : j \in 1 .. Len(s)}
    BY <1>1, OrderType DEF Frees
  <2>4. ASSUME NEW d \in G PROVE d.addr # f.addr
    <3>1. PICK j \in 1 .. Len(s) : d = s[j]
      BY <2>1, <2>3
    <3>2. j # a + 1
      <4>1. a + 1 \in a + 1 .. b - 1
        BY <1>3
      <4> QED
        BY <4>1, <3>1, <2>1
    <3>3. a + 1 \in 1 .. Len(s)
      BY <1>3, <1>4
    <3>4. s[j].addr # s[a + 1].addr
      BY <3>2, <3>3, <1>4, TilesDistinct
    <3> QED
      BY <3>1, <3>4, <1>3
  <2>5. G \in SUBSET Block
    BY <2>1, <2>3
  <2>6. InStep(InsertFree(K, f), G \cup {f})
    BY <2>2, <2>4, <2>5, <1>3, InsertFreeIs
  <2>7. Frees(t) = G \cup Frees(mid)
    BY <2>1, <1>4, <1>6, SpliceFrees
  <2>8. Frees(mid) = {f}
    BY <1>3, <1>5 DEF Frees
  <2> QED
    BY <2>1, <2>6, <2>7, <2>8, <1>8
<1>10. PICK st : st = order[k]
  OBVIOUS
<1>11. st \in Block /\ st.size \in Nat /\ st.act \in Nat /\ st.alloc
  BY <1>2, <1>10, OrderType, BlockParts
<1>12. UsedW[st] = st.size /\ AskedW[st] = st.act /\ UsedW[f] = 0 /\ AskedW[f] = 0
  BY <1>3, <1>11, WeightTypes DEF Used, Asked
<1>13. Takes(UsedW, order, a, b, st.size)
  <2>1. PICK w : w = UsedW
    OBVIOUS
  <2>2. w \in [Block -> Nat] /\ \A c \in Block : ~ c.alloc => w[c] = 0
    BY <2>1, WeightTypes DEF Used
  <2>3. Takes(w, order, Before(k), After(k), w[order[k]])
    BY <2>2, <1>2, FreeTakes
  <2> QED
    BY <2>1, <2>3, <1>1, <1>10, <1>12
<1>14. Takes(AskedW, order, a, b, st.act)
  <2>1. PICK w : w = AskedW
    OBVIOUS
  <2>2. w \in [Block -> Nat] /\ \A c \in Block : ~ c.alloc => w[c] = 0
    BY <2>1, WeightTypes DEF Asked
  <2>3. Takes(w, order, Before(k), After(k), w[order[k]])
    BY <2>2, <1>2, FreeTakes
  <2> QED
    BY <2>1, <2>3, <1>1, <1>10, <1>12
<1>15. Brings(UsedW, mid, 0) /\ Brings(AskedW, mid, 0)
  BY <1>5, <1>12 DEF Brings
<1>16. PICK u, x : u = st.size /\ x = st.act
  OBVIOUS
<1>17. u \in Int /\ x \in Int /\ used_size' = used_size - u + 0 /\ reqs_size' = reqs_size - x + 0
  BY <1>2, <1>10, <1>11, <1>16, SumTypes
<1>18. st_count' = Len(t)
  <2>1. Len(t) = a + 1 + (Len(s) + 1 - b)
    BY <1>5, <1>6 DEF Splice
  <2>2. a = (IF PrevFree(k) THEN k - 2 ELSE k - 1) /\ b = (IF NextFree(k) THEN k + 2 ELSE k + 1)
    BY <1>1 DEF Before, After
  <2>3. st_count' = Len(s) - (IF NextFree(k) THEN 1 ELSE 0) - (IF PrevFree(k) THEN 1 ELSE 0)
    BY <1>1, <1>2 DEF ShInv
  <2>4. PICK n, m : n = Len(s) /\ m = Len(t)
    OBVIOUS
  <2>5. /\ n \in Nat /\ k \in Nat /\ m = a + 1 + (n + 1 - b)
        /\ st_count' = n - (IF NextFree(k) THEN 1 ELSE 0) - (IF PrevFree(k) THEN 1 ELSE 0)
    BY <2>1, <2>3, <2>4, <1>4
  <2>6. CASE PrevFree(k) /\ NextFree(k)
    BY <2>2, <2>4, <2>5, <2>6
  <2>7. CASE PrevFree(k) /\ ~ NextFree(k)
    BY <2>2, <2>4, <2>5, <2>7
  <2>8. CASE ~ PrevFree(k) /\ NextFree(k)
    BY <2>2, <2>4, <2>5, <2>8
  <2>9. CASE ~ PrevFree(k) /\ ~ NextFree(k)
    BY <2>2, <2>4, <2>5, <2>9
  <2> QED
    BY <2>6, <2>7, <2>8, <2>9
<1>19. /\ Splice(order, t, a, mid, b) /\ Fills(order, a, mid, b) /\ Len(mid) \in 1 .. 2
       /\ Takes(UsedW, order, a, b, u) /\ Brings(UsedW, mid, 0)
       /\ Takes(AskedW, order, a, b, x) /\ Brings(AskedW, mid, 0) /\ 0 \in Int
       /\ lists' = L
  BY <1>1, <1>2, <1>5, <1>6, <1>7, <1>8, <1>13, <1>14, <1>15, <1>16
<1>20. ShInv'
  BY <1>2, <1>9, <1>17, <1>18, <1>19, Rebooked
<1>21. Given(t) = Given(s) \ {st}
  <2>1. Given(t) = (Given(s) \ {s[j] : j \in a + 1 .. b - 1}) \cup Given(mid)
    BY <1>4, <1>6, SpliceGiven
  <2>2. Given(mid) = {}
    BY <1>3, <1>5 DEF Given
  <2>3. {s[j] : j \in a + 1 .. b - 1} =
          (IF NextFree(k) THEN {s[k + 1]} ELSE {})
            \cup (IF PrevFree(k) THEN {s[k - 1]} ELSE {}) \cup {st}
    BY <1>1, <1>10, MergedAre
  <2>4. (NextFree(k) => s[k + 1] \notin Given(s)) /\ (PrevFree(k) => s[k - 1] \notin Given(s))
    BY <1>1 DEF NextFree, PrevFree, Given
  <2> QED
    BY <2>1, <2>2, <2>3, <2>4
<1> QED
  BY <1>1, <1>2, <1>10, <1>20, <1>21

-----------------------------------------------------------------------------
(* The invariant. *)
LEMMA ShInvNext == ShInv /\ [Next]_vars => ShInv'
<1> SUFFICES ASSUME ShInv, [Next]_vars PROVE ShInv'
  OBVIOUS
<1>1. Requests \subseteq Nat \ {0} /\ Thresholds \subseteq Nat
  BY ShmemAssumption
<1>2. ASSUME NEW e, e \notin {"remove_failed", "remove_next_failed", "remove_prev_failed"},
             AllocError(e)
      PROVE  ShInv'
  <2>1. NoListDamage' /\ split_threshold' \in Thresholds \cup {min_size}
    BY <1>2 DEF AllocError, NoListDamage, ShInv, settings
  <2> QED
    BY <2>1, <1>2, ReportKeeps DEF AllocError, stats, settings
<1>3. ASSUME NEW size \in Requests, Alloc(size) PROVE ShInv'
  <2>1. CASE AllocExhausted(size)
    BY <2>1, <1>2 DEF AllocExhausted
  <2>2. CASE AllocNoFixed(size)
    BY <2>2, <1>2 DEF AllocNoFixed
  <2>3. CASE AllocTake(size)
    BY <2>3, <1>1, TakeKeeps
  <2> QED
    BY <2>1, <2>2, <2>3, <1>3 DEF Alloc
<1>4. ASSUME NEW size \in Requests, SplitAlloc(size) PROVE ShInv'
  BY <1>1, <1>4, SplitKeeps
<1>5. ASSUME NEW k \in DOMAIN order, Free(k) PROVE ShInv'
  <2>1. k \in 1 .. Len(order)
    BY OrderType
  <2> QED
    BY <2>1, <1>5, FreeKeeps
<1>6. ASSUME NEW size \in Thresholds, SetSplitThreshold(size) PROVE ShInv'
  <2>1. NoListDamage' /\ split_threshold' \in Thresholds \cup {min_size}
    BY <1>6 DEF SetSplitThreshold, NoListDamage, ShInv
  <2> QED
    BY <2>1, <1>6, ReportKeeps DEF SetSplitThreshold, stats
<1>7. CASE UNCHANGED vars
  <2>1. NoListDamage' /\ split_threshold' \in Thresholds \cup {min_size}
    BY <1>7 DEF vars, NoListDamage, ShInv
  <2> QED
    BY <2>1, <1>7, ReportKeeps DEF vars
<1> QED
  BY <1>3, <1>4, <1>5, <1>6, <1>7 DEF Next

THEOREM ShInvariance == Spec => []ShInv
<1>1. Init => ShInv
  BY ShInvInit
<1>2. ShInv /\ [Next]_vars => ShInv'
  BY ShInvNext
<1> QED
  BY <1>1, <1>2, PTL DEF Spec

-----------------------------------------------------------------------------
(* The books. *)

LEMMA SumsToProperty ==
  ASSUME ShInv, NEW w \in [Block -> Nat], NEW total, Sums(Weights(order, w), Len(order), total)
  PROVE  total = SumOf([k \in 1 .. Len(order) |-> w[order[k]]])
<1>1. PICK n, x : n = Len(order) /\ x = Weights(order, w)
  OBVIOUS
<1>2. n \in Nat /\ \A k \in 1 .. n : order[k] \in Block
  BY <1>1, OrderType
<1>3. x = [k \in 1 .. n |-> w[order[k]]]
  BY <1>1 DEF Weights
<1>4. x \in [1 .. n -> Int]
  BY <1>2, <1>3
<1>5. Sums(x, n, total)
  BY <1>1
<1>6. SumOf(x) = total
  BY <1>2, <1>4, <1>5, SumOfIs
<1> QED
  BY <1>1, <1>3, <1>6

LEMMA InvBlocks == ShInv => BlocksExact
<1> SUFFICES ASSUME ShInv PROVE BlocksExact
  OBVIOUS
<1>1. TypeOK
  <2>1. lists \in Lists
    BY DEF ShInv, InStep
  <2>2. st_count \in Nat
    BY OrderType DEF ShInv
  <2> QED
    BY <2>1, <2>2, OrderType, SumTypes DEF TypeOK, Lists, Block, ShInv
<1>2. PICK s : s = order
  OBVIOUS
<1>3. Tiles(s) /\ s \in Seq(Block) /\ Len(s) \in Nat \ {0} /\ \A k \in 1 .. Len(s) : s[k] \in Block
  BY <1>2, OrderType
<1>4. Tiling
  <2>1. s[1].addr = 0 /\ \A k \in 1 .. Len(s) - 1 : s[k + 1].addr = s[k].addr + Header + s[k].size
    BY <1>3 DEF Tiles, End
  <2>2. Last(s) = s[Len(s)]
    BY DEF Last
  <2>3. s[Len(s)].addr + Header + s[Len(s)].size = Arena
    BY <1>3 DEF Tiles, End
  <2>4. st_count = Len(s)
    BY <1>2 DEF ShInv
  <2> QED
    BY <2>1, <2>2, <2>3, <2>4, <1>2 DEF Tiling
<1>5. Coalesced
  BY <1>2, <1>3 DEF Tiles, Coalesced
<1>6. UsageExact
  <2>1. PICK u, v : u = UsedW /\ v = AskedW
    OBVIOUS
  <2>2. /\ u \in [Block -> Nat] /\ \A b \in Block : u[b] = Used(b)
        /\ v \in [Block -> Nat] /\ \A b \in Block : v[b] = Asked(b)
    BY <2>1, WeightTypes
  <2>3. Sums(Weights(order, u), Len(order), used_size) /\ Sums(Weights(order, v), Len(order), reqs_size)
    BY <2>1 DEF ShInv
  <2>4. used_size = SumOf([k \in 1 .. Len(order) |-> u[order[k]]])
    BY <2>2, <2>3, SumsToProperty
  <2>5. reqs_size = SumOf([k \in 1 .. Len(order) |-> v[order[k]]])
    BY <2>2, <2>3, SumsToProperty
  <2>6. /\ [k \in 1 .. Len(order) |-> u[order[k]]] = [k \in 1 .. Len(order) |-> Used(order[k])]
        /\ [k \in 1 .. Len(order) |-> v[order[k]]] = [k \in 1 .. Len(order) |-> Asked(order[k])]
    BY <2>2, <1>2, <1>3
  <2> QED
    BY <2>4, <2>5, <2>6 DEF UsageExact
<1> QED
  BY <1>1, <1>4, <1>5, <1>6 DEF BlocksExact

(* The books of fast_shmem.c are exact for every area, header, size class  *)
(* and split threshold: whatever is allocated, split and freed, the blocks *)
(* tile the area, no two neighbours are free, and the statistics are the   *)
(* sums over the blocks.                                                   *)
THEOREM BlocksAreExact == Spec => []BlocksExact
<1>1. ShInv => BlocksExact
  BY InvBlocks
<1> QED
  BY <1>1, ShInvariance, PTL

(* The class a block is inserted in, as the smaller of two numbers. *)
LEMMA ClassIsMin ==
  ASSUME NEW b \in Block
  PROVE  Min({InsertIndex(b.size), free_len - 1}) = ClassOf(b)
<1>1. PICK x, y : x = InsertIndex(b.size) /\ y = free_len - 1
  OBVIOUS
<1>2. x \in Nat /\ y \in Nat
  BY <1>1, BlockParts, InsertIndexType, FreeLenType
<1>3. PICK I : I = {x, y}
  OBVIOUS
<1>4. I \in SUBSET Nat /\ I # {}
  BY <1>2, <1>3
<1>5. Min(I) \in I /\ \A k \in I : Min(I) <= k
  BY <1>4, MinIs
<1>6. Min(I) = IF x > y THEN y ELSE x
  BY <1>2, <1>3, <1>5
<1> QED
  BY <1>1, <1>3, <1>6 DEF ClassOf

LEMMA InvLists == ShInv => ListsExact
<1> SUFFICES ASSUME ShInv PROVE ListsExact
  OBVIOUS
<1>1. FreeBlocks = Frees(order)
  BY DEF FreeBlocks, Blocks, Frees
<1>2. lists \in Lists /\ Listed(lists, Frees(order)) /\ Available(lists)
  BY DEF ShInv, InStep
<1>3. ASSUME NEW i \in Classes
      PROVE  /\ ToSet(lists.free[i]) =
                  {b.addr : b \in {f \in FreeBlocks : i = Min({InsertIndex(f.size), free_len - 1})}}
             /\ IsInjective(lists.free[i])
  <2>1. PICK q : q = lists.free[i]
    OBVIOUS
  <2>2. q \in Seq(Nat) /\ DOMAIN q = 1 .. Len(q) /\ ToSet(q) = {q[k] : k \in 1 .. Len(q)}
    <3>1. q \in Seq(Nat)
      BY <1>2, <2>1 DEF Lists
    <3> QED
      BY <3>1 DEF ToSet
  <2>3. {f \in FreeBlocks : i = Min({InsertIndex(f.size), free_len - 1})}
          = {f \in Frees(order) : ClassOf(f) = i}
    BY <1>1, OrderType, ClassIsMin
  <2>4. ASSUME NEW a \in ToSet(q) PROVE \E b \in Frees(order) : ClassOf(b) = i /\ b.addr = a
    <3>1. PICK k \in 1 .. Len(q) : a = q[k]
      BY <2>2
    <3>2. \E b \in Frees(order) : ClassOf(b) = i /\ b.addr = lists.free[i][k]
      BY <1>2, <2>1 DEF Listed
    <3> QED
      BY <3>1, <3>2, <2>1
  <2>5. ASSUME NEW b \in Frees(order), ClassOf(b) = i PROVE b.addr \in ToSet(q)
    BY <2>1, <2>5, HasList
  <2>6. IsInjective(q)
    <3>1. Injective(q)
      BY <1>2, <2>1 DEF Listed
    <3> QED
      BY <3>1, <2>2 DEF Injective, IsInjective
  <2> QED
    BY <2>1, <2>3, <2>4, <2>5, <2>6
<1>4. FreeListsExact
  BY <1>3 DEF FreeListsExact
<1>5. AvailableExact
  <2>1. PICK s : s = lists.available
    OBVIOUS
  <2>2. s \in Seq(Classes) /\ ToSet(s) = {s[k] : k \in 1 .. Len(s)} /\ Len(s) \in Nat
    <3>1. s \in Seq(Classes)
      BY <1>2, <2>1 DEF Lists
    <3> QED
      BY <3>1 DEF ToSet
  <2>3. /\ \A j \in 1 .. Len(s) : s[j] \in Classes /\ lists.free[s[j]] # <<>>
        /\ \A i \in Classes : lists.free[i] # <<>> => \E j \in 1 .. Len(s) : s[j] = i
        /\ \A j, k \in 1 .. Len(s) : j < k => s[j] < s[k]
        /\ lists.max_available_index = IF s = <<>> THEN free_len ELSE s[Len(s)]
    BY <1>2, <2>1, <2>2 DEF Available
  <2>4. ToSet(s) = {i \in Classes : lists.free[i] # <<>>}
    BY <2>2, <2>3
  <2>5. ASSUME NEW j \in 1 .. Len(s) - 1 PROVE s[j] < s[j + 1]
    <3>1. j \in 1 .. Len(s) /\ j + 1 \in 1 .. Len(s) /\ j < j + 1
      BY <2>2
    <3> QED
      BY <3>1, <2>3
  <2> QED
    BY <2>1, <2>3, <2>4, <2>5 DEF AvailableExact, Last
<1>6. NoListDamage
  BY DEF ShInv
<1> QED
  BY <1>4, <1>5, <1>6 DEF ListsExact

(* The free lists are exact for every area and kind of size class: each    *)
(* holds just the free blocks of its class, once, "available" is the       *)
(* increasing sequence of the lists that are not empty,                    *)
(* max_available_index its last, and no call ever finds them damaged.      *)
THEOREM ListsAreExact == Spec => []ListsExact
<1>1. ShInv => ListsExact
  BY InvLists
<1> QED
  BY <1>1, ShInvariance, PTL

-----------------------------------------------------------------------------
(* What is free can be had. *)

LEMMA InvServed == ShInv => FreeIsServed
<1> SUFFICES ASSUME ShInv PROVE FreeIsServed
  OBVIOUS
<1>1. FreeBlocks = Frees(order)
  BY DEF FreeBlocks, Blocks, Frees
<1>2. ASSUME NEW size \in Requests, size > min_size, Refused(size),
             NEW b \in Frees(order), ~ (b.size < size)
      PROVE  FALSE
  <2>1. size \in Nat
    BY ShmemAssumption
  <2>2. /\ b \in Block /\ ClassOf(b) \in Classes /\ b.addr \in ToSet(lists.free[ClassOf(b)])
        /\ BlockAt(b.addr) = b /\ lists.max_available_index \in Classes
        /\ lists.free[lists.max_available_index] # <<>>
        /\ ClassOf(b) <= lists.max_available_index
    BY HasList
  <2>3. PICK c, z, n, i : /\ c = ClassOf(b) /\ z = b.size /\ n = lists.max_available_index
                          /\ i = AllocIndex(size)
    OBVIOUS
  <2>4. z \in Nat /\ size <= z /\ c \in Nat /\ n \in Nat /\ i \in Nat /\ c <= n /\ n < free_len
    <3>1. z \in Nat
      BY <2>2, <2>3, BlockParts
    <3>2. i \in Nat
      BY <2>1, <2>3, AllocIndexType
    <3> QED
      BY <3>1, <3>2, <1>2, <2>1, <2>2, <2>3, FreeLenType DEF Classes
  <2>5. PICK l : l = SearchList(size)
    OBVIOUS
  <2>6. /\ l \in Classes /\ l # free_len /\ lists.free[l] # <<>>
        /\ i >= n => l = n
        /\ i < n => i <= l
    <3>1. lists.max_available_index # free_len
      BY <2>3, <2>4, FreeLenType
    <3>2. /\ AllocIndex(size) >= lists.max_available_index =>
               SearchList(size) = lists.max_available_index
          /\ AllocIndex(size) < lists.max_available_index =>
               /\ SearchList(size) \in Classes
               /\ lists.free[SearchList(size)] # <<>>
               /\ AllocIndex(size) <= SearchList(size)
      BY <3>1, <2>1, SearchListIs
    <3>3. /\ i >= n => l = n
          /\ i < n => l \in Classes /\ lists.free[l] # <<>> /\ i <= l
      BY <3>2, <2>3, <2>5
    <3>4. n \in Classes /\ lists.free[n] # <<>>
      BY <2>2, <2>3
    <3>5. l \in Classes /\ lists.free[l] # <<>>
      <4>1. CASE i >= n
        BY <4>1, <3>3, <3>4
      <4>2. CASE i < n
        BY <4>2, <3>3
      <4> QED
        BY <4>1, <4>2, <2>4
    <3>6. l # free_len
      BY <3>5, FreeLenType DEF Classes
    <3> QED
      BY <3>3, <3>5, <3>6
  <2>7. ASSUME NEW a \in ToSet(lists.free[l]) PROVE ~ Fits(a, size)
    <3>1. lists.max_available_index # free_len
      BY <2>3, <2>4, FreeLenType
    <3> QED
      BY <3>1, <2>5, <2>6, <1>2 DEF Refused
  (* A block of the request's class, or of a larger one, would have fitted. *)
  <2>8. ASSUME i <= l PROVE FALSE
    <3>1. lists.free[l] \in Seq(Nat)
      BY <2>6 DEF ShInv, InStep, Lists
    <3>2. lists.free[l][1] \in ToSet(lists.free[l])
      <4>1. 1 \in DOMAIN lists.free[l]
        BY <3>1, <2>6
      <4> QED
        BY <4>1 DEF ToSet
    <3>3. PICK a : a = lists.free[l][1]
      OBVIOUS
    <3>4. PICK k \in 1 .. Len(order) : ClassOf(order[k]) = l /\ BlockAt(a) = order[k]
      BY <3>2, <3>3, <2>6, OnList
    <3>5. PICK d, y : d = order[k] /\ y = d.size
      OBVIOUS
    <3>6. d \in Block /\ y \in Nat /\ ClassOf(d) = l /\ BlockAt(a) = d
      BY <3>4, <3>5, OrderType, BlockParts
    <3>7. ClassOf(d) <= InsertIndex(y) /\ InsertIndex(y) \in Nat /\ l \in Nat
      BY <3>5, <3>6, <2>6, ClassOfType, InsertIndexType, FreeLenType DEF Classes
    <3>8. AllocIndex(size) <= InsertIndex(y)
      BY <3>6, <3>7, <2>3, <2>4, <2>8
    <3>9. size <= y
      BY <3>6, <3>8, <2>1, <1>2, ClassServes
    <3>10. y >= size
      BY <3>9, <3>6, <2>1
    <3>11. Fits(a, size)
      BY <3>5, <3>6, <3>10 DEF Fits
    <3> QED
      BY <3>2, <3>3, <3>11, <2>7
  (* Else the largest class is searched, and the block is in it. *)
  <2>9. l = n /\ n < i
    BY <2>4, <2>6, <2>8
  <2>10. c = n
    <3>1. AllocIndex(size) - 1 <= InsertIndex(z)
      BY <2>1, <2>4, <1>2, ClassNear
    <3>2. InsertIndex(z) \in Nat /\ n <= InsertIndex(z)
      BY <3>1, <2>3, <2>4, <2>9, InsertIndexType
    <3>3. c < free_len - 1 => c = InsertIndex(z)
      BY <2>2, <2>3, ClassOfType
    <3> QED
      BY <3>2, <3>3, <2>4, FreeLenType
  <2>11. b.addr \in ToSet(lists.free[l])
    BY <2>2, <2>3, <2>9, <2>10
  <2>12. z >= size
    BY <2>1, <2>4
  <2>13. Fits(b.addr, size)
    BY <2>2, <2>3, <2>12 DEF Fits
  <2> QED
    BY <2>7, <2>11, <2>13
<1>3. LargeRequestServed
  BY <1>1, <1>2 DEF LargeRequestServed
<1>4. LargestGiven
  BY <1>1, MaxStIs DEF LargestGiven
<1> QED
  BY <1>3, <1>4 DEF FreeIsServed

(* A request above min_size fails only when no free block is large enough, *)
(* and a split allocation is given the largest block, for every area and   *)
(* kind of size class: rounding the class of a request up and that of a    *)
(* block down never passes by a block that fits.                           *)
THEOREM FreeIsAlwaysServed == Spec => []FreeIsServed
<1>1. ShInv => FreeIsServed
  BY InvServed
<1> QED
  BY <1>1, ShInvariance, PTL

-----------------------------------------------------------------------------
(* The refinement. *)

(* The memory of a block, as Heap's live set has it. *)
Mem(b)  == [at |-> b.addr + Header, len |-> b.size, asked |-> b.act]
Live(s) == {Mem(b) : b \in Given(s)}

LEMMA MemIs ==
  ASSUME NEW b \in Block
  PROVE  /\ Mem(b).at = b.addr + Header /\ Mem(b).len = b.size /\ Mem(b).asked = b.act
         /\ b.addr + Header \in Nat
<1>1. PICK x, y, z : x = b.addr + Header /\ y = b.size /\ z = b.act
  OBVIOUS
<1>2. Mem(b) = [at |-> x, len |-> y, asked |-> z]
  BY <1>1 DEF Mem
<1>3. b.addr + Header \in Nat
  BY BlockParts, Parameters
<1> QED
  BY <1>1, <1>2, <1>3

(* The blocks in use lie in the area and are as long as asked for. *)
LEMMA GivenInside ==
  ASSUME NEW s, Tiles(s), NEW b \in Given(s)
  PROVE  Mem(b) \in Memory!Intervals
<1>1. PICK i \in 1 .. Len(s) : b = s[i]
  BY DEF Given, ToSet, Tiles
<1>2. b \in Block /\ b.alloc /\ Holds(b) /\ End(b) <= Arena
  <2>1. End(s[i]) <= Arena
    BY TilesInside
  <2>2. s[i] \in Block
    BY DEF Tiles
  <2> QED
    BY <1>1, <2>1, <2>2 DEF Tiles, Given
<1>3. PICK x, y, z : x = b.addr + Header /\ y = b.size /\ z = b.act
  OBVIOUS
<1>4. x \in Nat /\ y \in Nat /\ z \in Nat /\ 1 <= z /\ z <= y /\ x + y <= Arena /\ Arena \in Nat
  <2>1. b.addr \in Nat /\ y \in Nat /\ z \in Nat
    BY <1>2, <1>3, BlockParts
  <2>2. 1 <= z /\ z <= y
    BY <1>2, <1>3 DEF Holds
  <2>3. x + y = End(b)
    BY <1>3 DEF End
  <2> QED
    BY <2>1, <2>2, <2>3, <1>2, <1>3, Parameters
<1>5. PICK m : m = [at |-> x, len |-> y, asked |-> z]
  OBVIOUS
<1>6. m.at = x /\ m.len = y /\ m.asked = z
  BY <1>5
<1>7. x \in 0 .. Arena /\ y \in 1 .. Arena - 0 /\ z \in 1 .. Arena - 0
  BY <1>4
<1>8. m \in [at : 0 .. Arena, len : 1 .. Arena - 0, asked : 1 .. Arena - 0]
  BY <1>5, <1>7
<1>9. Mem(b) = m
  BY <1>3, <1>5 DEF Mem
<1> QED
  BY <1>4, <1>6, <1>8, <1>9 DEF Memory!Intervals

(* The memory of two blocks in use is disjoint. *)
LEMMA GivenApart ==
  ASSUME NEW s, Tiles(s), NEW b \in Given(s), NEW c \in Given(s), b # c
  PROVE  Memory!Disjoint(Mem(b), Mem(c)) /\ Mem(b) # Mem(c)
<1>1. PICK i \in 1 .. Len(s) : b = s[i]
  BY DEF Given, ToSet, Tiles
<1>2. PICK j \in 1 .. Len(s) : c = s[j]
  BY DEF Given, ToSet, Tiles
<1>3. b \in Block /\ c \in Block
  BY <1>1, <1>2 DEF Tiles
<1>4. i # j
  BY <1>1, <1>2
<1>5. /\ b.addr \in Nat /\ b.size \in Nat /\ c.addr \in Nat /\ c.size \in Nat /\ Header \in Nat
  BY <1>3, BlockParts, Parameters
<1>6. End(b) <= c.addr \/ End(c) <= b.addr
  <2>1. CASE i < j
    <3>1. End(s[i]) <= s[j].addr
      BY <2>1, TilesIncrease
    <3> QED
      BY <3>1, <1>1, <1>2
  <2>2. CASE j < i
    <3>1. End(s[j]) <= s[i].addr
      BY <2>2, TilesIncrease
    <3> QED
      BY <3>1, <1>1, <1>2
  <2> QED
    BY <2>1, <2>2, <1>4
<1>7. b.addr # c.addr
  <2>1. s[i].addr # s[j].addr
    BY <1>4, TilesDistinct
  <2> QED
    BY <2>1, <1>1, <1>2
<1>8. PICK m, n : m = Mem(b) /\ n = Mem(c)
  OBVIOUS
<1>9. m.at = b.addr + Header /\ m.len = b.size /\ n.at = c.addr + Header /\ n.len = c.size
  BY <1>3, <1>8, MemIs
<1>10. m # n
  BY <1>5, <1>7, <1>9
<1>11. m.at + m.len <= n.at \/ n.at + n.len <= m.at
  <2>1. PICK h, x, y, z, v : /\ h = Header /\ x = b.addr /\ y = b.size
                             /\ z = c.addr /\ v = c.size
    OBVIOUS
  <2>2. h \in Nat /\ x \in Nat /\ y \in Nat /\ z \in Nat /\ v \in Nat
    BY <2>1, <1>5
  <2>3. m.at = x + h /\ m.len = y /\ n.at = z + h /\ n.len = v
    BY <2>1, <1>9
  <2>4. End(b) = x + h + y /\ End(c) = z + h + v
    BY <2>1 DEF End
  <2>5. x + h + y <= z \/ z + h + v <= x
    BY <2>1, <2>4, <1>6
  <2>6. (x + h) + y <= z + h \/ (z + h) + v <= x + h
    BY <2>2, <2>5
  <2> QED
    BY <2>3, <2>6
<1> QED
  BY <1>8, <1>10, <1>11 DEF Memory!Disjoint

(* A block that is given is an allocation of Heap, or none is made. *)
LEMMA GivesLive ==
  ASSUME NEW s, NEW t, Tiles(t), NEW e \in Block, e.alloc,
         Given(t) = Given(s) \cup {e}, NEW size \in Requests, size <= e.act,
         Live(t) # Live(s)
  PROVE  \E new \in Live(t) \ Live(s) :
           /\ new \in Memory!Intervals
           /\ Live(t) = Live(s) \cup {new}
           /\ \A old \in Live(s) : Memory!Disjoint(new, old)
           /\ \E z \in Requests : z <= new.asked
<1>1. Live(t) = Live(s) \cup {Mem(e)}
  BY DEF Live
<1>2. Mem(e) \notin Live(s)
  BY <1>1
<1>3. e \in Given(t)
  OBVIOUS
<1>4. Mem(e) \in Memory!Intervals
  BY <1>3, GivenInside
<1>5. ASSUME NEW old \in Live(s) PROVE Memory!Disjoint(Mem(e), old)
  <2>1. PICK c \in Given(s) : old = Mem(c)
    BY DEF Live
  <2>2. c \in Given(t) /\ c # e
    BY <2>1, <1>2
  <2>3. Memory!Disjoint(Mem(e), Mem(c))
    BY <2>2, <1>3, GivenApart
  <2> QED
    BY <2>1, <2>3
<1>6. Mem(e).asked = e.act
  BY MemIs
<1>7. \E z \in Requests : z <= Mem(e).asked
  BY <1>6
<1> QED
  BY <1>1, <1>2, <1>4, <1>5, <1>7

LEMMA FreesLive ==
  ASSUME NEW s, Tiles(s), NEW t, NEW e \in Given(s), Given(t) = Given(s) \ {e}
  PROVE  \E old \in Live(s) : Live(t) = Live(s) \ {old}
<1>1. Mem(e) \in Live(s)
  BY DEF Live
<1>2. \A c \in Given(s) : c # e => Mem(c) # Mem(e)
  BY GivenApart
<1>3. Live(t) = Live(s) \ {Mem(e)}
  BY <1>2 DEF Live
<1> QED
  BY <1>1, <1>3

(* fast_shmem.c implements an allocator, for every area, kind of size      *)
(* class and split threshold: an allocation adds memory of the area, as    *)
(* long as asked for and disjoint from all that is in use; a free takes    *)
(* away just what is freed; no other call touches what is in use.          *)
THEOREM AllocatorImplementsHeap == Spec => ImplementsHeap
<1> DEFINE live == {[at |-> b.addr + Header, len |-> b.size, asked |-> b.act]
                      : b \in {c \in Blocks : c.alloc}}
<1>1. live = Live(order)
  BY DEF Live, Mem, Given, Blocks
<1>2. live' = Live(order')
  BY DEF Live, Mem, Given, Blocks
<1>3. Init => Memory!Init
  <2> SUFFICES ASSUME Init PROVE live = {}
    BY DEF Memory!Init
  <2>1. ToSet(order) = {FirstBlock}
    BY FirstIsBlock, OneBlock DEF Init
  <2>2. Given(order) = {}
    BY <2>1, FirstIsBlock DEF Given
  <2> QED
    BY <2>2, <1>1 DEF Live
<1>4. ShInv /\ [Next]_vars => [Memory!Next]_live
  <2> SUFFICES ASSUME ShInv, [Next]_vars PROVE Memory!Next \/ live' = live
    OBVIOUS
  <2>1. PICK s, t : s = order /\ t = order'
    OBVIOUS
  <2>2. Tiles(s)
    BY <2>1, OrderType
  <2>3. Tiles(t)
    <3>1. ShInv'
      BY ShInvNext
    <3> QED
      BY <3>1, <2>1 DEF ShInv
  <2>4. live = Live(s) /\ live' = Live(t)
    BY <1>1, <1>2, <2>1
  <2> HIDE DEF live
  <2>5. ASSUME NEW size \in Requests, Gives(size) PROVE Memory!Next \/ live' = live
    <3>1. PICK e \in Block : e.alloc /\ size <= e.act /\ Given(t) = Given(s) \cup {e}
      BY <2>1, <2>5 DEF Gives
    <3>2. CASE Live(t) = Live(s)
      BY <3>2, <2>4
    <3>3. CASE Live(t) # Live(s)
      <4>1. \E new \in Live(t) \ Live(s) :
              /\ new \in Memory!Intervals
              /\ Live(t) = Live(s) \cup {new}
              /\ \A old \in Live(s) : Memory!Disjoint(new, old)
              /\ \E z \in Requests : z <= new.asked
        BY <3>1, <3>3, <2>3, GivesLive
      <4>2. Memory!Alloc
        BY <4>1, <2>4 DEF Memory!Alloc, live
      <4> QED
        BY <4>2 DEF Memory!Next
    <3> QED
      BY <3>2, <3>3
  <2>6. ASSUME order' = order PROVE live' = live
    BY <2>1, <2>4, <2>6
  <2>7. ASSUME NEW size \in Requests, Alloc(size) PROVE Memory!Next \/ live' = live
    <3>1. CASE AllocExhausted(size)
      BY <3>1, <2>6 DEF AllocExhausted, AllocError
    <3>2. CASE AllocNoFixed(size)
      BY <3>2, <2>6 DEF AllocNoFixed, AllocError
    <3>3. CASE AllocTake(size)
      <4>1. size \in Nat \ {0}
        BY ShmemAssumption
      <4> QED
        BY <4>1, <3>3, <2>5, TakeKeeps
    <3> QED
      BY <3>1, <3>2, <3>3, <2>7 DEF Alloc
  <2>8. ASSUME NEW size \in Requests, SplitAlloc(size) PROVE Memory!Next \/ live' = live
    <3>1. size \in Nat \ {0}
      BY ShmemAssumption
    <3>2. Gives(size) \/ order' = order
      BY <3>1, <2>8, SplitKeeps
    <3> QED
      BY <3>2, <2>5, <2>6
  <2>9. ASSUME NEW k \in DOMAIN order, Free(k) PROVE Memory!Next \/ live' = live
    <3>1. k \in 1 .. Len(order)
      BY OrderType
    <3>2. order[k].alloc /\ Given(order') = Given(order) \ {order[k]}
      BY <3>1, <2>9, FreeKeeps
    <3>3. PICK e : e = order[k]
      OBVIOUS
    <3>4. e \in Given(s) /\ Given(t) = Given(s) \ {e}
      BY <3>1, <3>2, <3>3, <2>1, OrderType DEF Given
    <3>5. \E old \in Live(s) : Live(t) = Live(s) \ {old}
      BY <3>4, <2>2, FreesLive
    <3>6. Memory!Free
      BY <3>5, <2>4 DEF Memory!Free, live
    <3> QED
      BY <3>6 DEF Memory!Next
  <2>10. ASSUME NEW size \in Thresholds, SetSplitThreshold(size) PROVE live' = live
    BY <2>10, <2>6 DEF SetSplitThreshold
  <2>11. CASE UNCHANGED vars
    BY <2>11, <2>6 DEF vars
  <2> QED
    BY <2>7, <2>8, <2>9, <2>10, <2>11 DEF Next
<1> QED
  BY <1>3, <1>4, ShInvariance, PTL DEF Spec, ImplementsHeap, Memory!Spec
=============================================================================
