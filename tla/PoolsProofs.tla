----------------------------- MODULE PoolsProofs -----------------------------
(***************************************************************************)
(* The half-life pool, the memory pool, the hash table, the queue and the  *)
(* calendar are right for any sizes, requests, chunks, keys, links and     *)
(* days, as the module that checks them instantiates them (MCPools).       *)
(***************************************************************************)
EXTENDS MCPools, SequencesExt, NumberLemmas, FunctionTheorems, SequenceTheorems

-----------------------------------------------------------------------------
(* Sequences without repetitions *)

Line(s, S) == s \in Seq(S) /\ IsInjective(s)

LEMMA LineParts ==
  ASSUME NEW S, NEW s, Line(s, S)
  PROVE  /\ Len(s) \in Nat /\ DOMAIN s = 1 .. Len(s) /\ s \in [1 .. Len(s) -> S]
         /\ \A i, j \in 1 .. Len(s) : s[i] = s[j] => i = j
         /\ ToSet(s) = {s[i] : i \in 1 .. Len(s)} /\ ToSet(s) \subseteq S
<1>1. s \in Seq(S)
  BY DEF Line
<1>2. Len(s) \in Nat /\ DOMAIN s = 1 .. Len(s) /\ s \in [1 .. Len(s) -> S]
  BY <1>1, LenProperties
<1>3. \A i, j \in 1 .. Len(s) : s[i] = s[j] => i = j
  BY <1>2 DEF Line, IsInjective
<1>4. ToSet(s) = {s[i] : i \in 1 .. Len(s)}
  BY <1>2 DEF ToSet
<1>5. ToSet(s) \subseteq S
  BY <1>2, <1>4
<1> QED
  BY <1>2, <1>3, <1>4, <1>5

(* It is enough that a function of places repeats nothing. *)
LEMMA LineIs ==
  ASSUME NEW S, NEW n \in Nat, NEW s \in [1 .. n -> S],
         \A i, j \in 1 .. n : s[i] = s[j] => i = j
  PROVE  Line(s, S) /\ Len(s) = n /\ ToSet(s) = {s[i] : i \in 1 .. n}
<1>1. s \in Seq(S) /\ DOMAIN s = 1 .. n
  BY SeqDef
<1>2. Len(s) = n
  BY <1>1, LenProperties
<1>3. IsInjective(s)
  BY <1>1 DEF IsInjective
<1> QED
  BY <1>1, <1>2, <1>3 DEF Line, ToSet

LEMMA EmptyLine ==
  ASSUME NEW S
  PROVE  Line(<<>>, S) /\ Len(<<>>) = 0 /\ ToSet(<<>>) = {}
<1>1. <<>> \in Seq(S) /\ Len(<<>>) = 0 /\ DOMAIN <<>> = {}
  OBVIOUS
<1> QED
  BY <1>1 DEF Line, IsInjective, ToSet

(* A sequence as long as its set is large. *)
LEMMA LineSize ==
  ASSUME NEW S, NEW s, Line(s, S)
  PROVE  IsFiniteSet(ToSet(s)) /\ Cardinality(ToSet(s)) = Len(s)
<1>1. PICK n : n = Len(s)
  BY Zenon
<1>2. /\ n \in Nat /\ s \in [1 .. n -> S]
      /\ \A i, j \in 1 .. n : s[i] = s[j] => i = j
      /\ ToSet(s) = {s[i] : i \in 1 .. n}
  BY <1>1, LineParts
<1>3. s \in Bijection(1 .. n, ToSet(s))
  <2>1. s \in [1 .. n -> ToSet(s)] /\ \A t \in ToSet(s) : \E i \in 1 .. n : s[i] = t
    BY <1>2
  <2>2. s \in Surjection(1 .. n, ToSet(s))
    BY <2>1, Fun_IsSurj, Zenon
  <2>3. s \in Injection(1 .. n, ToSet(s))
    BY <1>2, <2>1, Fun_IsInj
  <2> QED
    BY <2>2, <2>3 DEF Bijection
<1>5. IsFiniteSet(1 .. n) /\ Cardinality(1 .. n) = n
  BY <1>2, FS_Interval
<1> QED
  BY <1>1, <1>3, <1>5, FS_Bijection, Fun_ExistsBij

(* One behind the other. *)
LEMMA JoinLines ==
  ASSUME NEW S, NEW s, Line(s, S), NEW t, Line(t, S), ToSet(s) \cap ToSet(t) = {}
  PROVE  /\ Line(s \o t, S) /\ Len(s \o t) = Len(s) + Len(t)
         /\ ToSet(s \o t) = ToSet(s) \cup ToSet(t)
<1>1. PICK m, n, r : m = Len(s) /\ n = Len(t) /\ r = s \o t
  BY Zenon
<1>2. /\ m \in Nat /\ s \in [1 .. m -> S] /\ ToSet(s) = {s[i] : i \in 1 .. m}
      /\ \A i, j \in 1 .. m : s[i] = s[j] => i = j
  BY <1>1, LineParts, Zenon
<1>3. /\ n \in Nat /\ t \in [1 .. n -> S] /\ ToSet(t) = {t[i] : i \in 1 .. n}
      /\ \A i, j \in 1 .. n : t[i] = t[j] => i = j
  BY <1>1, LineParts, Zenon
<1>4. r \in Seq(S) /\ Len(r) = m + n /\ \A i \in 1 .. m + n : r[i] = IF i <= m THEN s[i] ELSE t[i - m]
  <2>1. s \in Seq(S) /\ t \in Seq(S)
    BY DEF Line
  <2>2. s \o t \in Seq(S) /\ Len(s \o t) = Len(s) + Len(t)
        /\ \A i \in 1 .. Len(s) + Len(t) :
             (s \o t)[i] = IF i <= Len(s) THEN s[i] ELSE t[i - Len(s)]
    BY <2>1, ConcatProperties
  <2> QED
    BY <2>2, <1>1
<1>5. r \in [1 .. m + n -> S]
  BY <1>4, LenProperties
<1>6. ASSUME NEW i \in 1 .. m + n
      PROVE  \/ i \in 1 .. m /\ r[i] = s[i] /\ r[i] \in ToSet(s)
             \/ ~ (i <= m) /\ i - m \in 1 .. n /\ r[i] = t[i - m] /\ r[i] \in ToSet(t)
  <2>1. CASE i <= m
    BY <2>1, <1>2, <1>4
  <2>2. CASE ~ (i <= m)
    <3>1. i - m \in 1 .. n
      BY <2>2, <1>2, <1>3
    <3> QED
      BY <3>1, <2>2, <1>3, <1>4
  <2> QED
    BY <2>1, <2>2
<1>7. ASSUME NEW i \in 1 .. m + n, NEW j \in 1 .. m + n, r[i] = r[j] PROVE i = j
  <2>1. CASE r[i] \in ToSet(s)
    <3>1. r[i] \notin ToSet(t)
      BY <2>1
    <3>2. i \in 1 .. m /\ j \in 1 .. m /\ s[i] = s[j]
      BY <3>1, <1>6, <1>7
    <3> QED
      BY <3>2, <1>2
  <2>2. CASE r[i] \notin ToSet(s)
    <3>1. i - m \in 1 .. n /\ j - m \in 1 .. n /\ t[i - m] = t[j - m]
      BY <2>2, <1>6, <1>7
    <3>2. i - m = j - m
      BY <3>1, <1>3
    <3> QED
      BY <3>2, <1>2
  <2> QED
    BY <2>1, <2>2
<1>8. PICK l : l = m + n
  OBVIOUS
<1>9. Line(r, S) /\ ToSet(r) = {r[i] : i \in 1 .. m + n}
  <2>1. l \in Nat /\ r \in [1 .. l -> S] /\ \A i, j \in 1 .. l : r[i] = r[j] => i = j
    BY <1>2, <1>3, <1>5, <1>7, <1>8
  <2>2. Line(r, S) /\ ToSet(r) = {r[i] : i \in 1 .. l}
    BY <2>1, LineIs
  <2> QED
    BY <2>2, <1>8
<1>10. ToSet(r) = ToSet(s) \cup ToSet(t)
  <2>1. ToSet(r) \subseteq ToSet(s) \cup ToSet(t)
    BY <1>6, <1>9
  <2>2. ASSUME NEW i \in 1 .. m PROVE s[i] \in ToSet(r)
    <3>1. i \in 1 .. m + n /\ r[i] = s[i]
      BY <1>2, <1>3, <1>4
    <3> QED
      BY <3>1, <1>9
  <2>3. ASSUME NEW i \in 1 .. n PROVE t[i] \in ToSet(r)
    <3>1. i + m \in 1 .. m + n /\ ~ (i + m <= m) /\ (i + m) - m = i
      BY <1>2, <1>3
    <3>2. r[i + m] = t[i]
      BY <3>1, <1>4
    <3> QED
      BY <3>1, <3>2, <1>9
  <2> QED
    BY <2>1, <2>2, <2>3, <1>2, <1>3
<1> QED
  BY <1>1, <1>4, <1>9, <1>10

(* A part of one. *)
LEMMA PartOfLine ==
  ASSUME NEW S, NEW s, Line(s, S), NEW m \in Nat, NEW n \in Nat, m <= n, n <= Len(s)
  PROVE  /\ Line(SubSeq(s, m + 1, n), S) /\ Len(SubSeq(s, m + 1, n)) = n - m
         /\ ToSet(SubSeq(s, m + 1, n)) = {s[i] : i \in m + 1 .. n}
<1>1. PICK k, r : k = Len(s) /\ r = SubSeq(s, m + 1, n)
  BY Zenon
<1>2. k \in Nat /\ s \in [1 .. k -> S] /\ \A i, j \in 1 .. k : s[i] = s[j] => i = j
  BY <1>1, LineParts, Zenon
<1>3. r \in Seq(S) /\ Len(r) = n - m /\ \A i \in 1 .. n - m : r[i] = s[m + i]
  <2>1. s \in Seq(S) /\ m + 1 \in Nat \ {0} /\ m + 1 \in 1 .. Len(s) + 1 /\ n \in (m + 1) - 1 .. Len(s)
    BY <1>1, <1>2 DEF Line
  <2>2. /\ SubSeq(s, m + 1, n) \in Seq(S)
        /\ Len(SubSeq(s, m + 1, n)) = IF m + 1 <= n THEN n - (m + 1) + 1 ELSE 0
        /\ \A i \in 1 .. n - (m + 1) + 1 : SubSeq(s, m + 1, n)[i] = s[(m + 1) + i - 1]
    BY <2>1, SubSeqProperties
  <2>3. (IF m + 1 <= n THEN n - (m + 1) + 1 ELSE 0) = n - m /\ n - (m + 1) + 1 = n - m
    OBVIOUS
  <2>4. \A i \in 1 .. n - m : (m + 1) + i - 1 = m + i
    OBVIOUS
  <2> QED
    BY <2>2, <2>3, <2>4, <1>1
<1>4. \A i \in 1 .. n - m : m + i \in 1 .. k
  BY <1>1, <1>2
<1>5. r \in [1 .. n - m -> S]
  BY <1>3, LenProperties
<1>6. \A i, j \in 1 .. n - m : r[i] = r[j] => i = j
  <2> SUFFICES ASSUME NEW i \in 1 .. n - m, NEW j \in 1 .. n - m, r[i] = r[j] PROVE i = j
    OBVIOUS
  <2>1. m + i = m + j
    BY <1>2, <1>3, <1>4
  <2> QED
    BY <2>1
<1>7. n - m \in Nat
  OBVIOUS
<1>8. Line(r, S) /\ ToSet(r) = {r[i] : i \in 1 .. n - m}
  BY <1>5, <1>6, <1>7, LineIs, SMTT(30)
<1>9. ToSet(r) = {s[i] : i \in m + 1 .. n}
  <2>1. ASSUME NEW i \in 1 .. n - m PROVE r[i] \in {s[j] : j \in m + 1 .. n}
    <3>1. m + i \in m + 1 .. n /\ r[i] = s[m + i]
      BY <1>3
    <3> QED
      BY <3>1
  <2>2. ASSUME NEW i \in m + 1 .. n PROVE s[i] \in ToSet(r)
    <3>1. i - m \in 1 .. n - m /\ m + (i - m) = i
      OBVIOUS
    <3>2. r[i - m] = s[i]
      BY <3>1, <1>3
    <3> QED
      BY <3>1, <3>2, <1>8
  <2> QED
    BY <2>1, <2>2, <1>8, Zenon
<1> QED
  BY <1>1, <1>3, <1>8, <1>9

(* Turned round. *)
LEMMA TurnedLine ==
  ASSUME NEW S, NEW s, Line(s, S)
  PROVE  Line(Reverse(s), S) /\ Len(Reverse(s)) = Len(s) /\ ToSet(Reverse(s)) = ToSet(s)
<1>1. PICK n, r : n = Len(s) /\ r = Reverse(s)
  BY Zenon
<1>2. n \in Nat /\ s \in [1 .. n -> S] /\ (\A i, j \in 1 .. n : s[i] = s[j] => i = j)
      /\ ToSet(s) = {s[i] : i \in 1 .. n}
  BY <1>1, LineParts
<1>3. \A i \in 1 .. n : (n - i) + 1 \in 1 .. n /\ (n - ((n - i) + 1)) + 1 = i
  BY <1>2
<1>4. r \in [1 .. n -> S] /\ \A i \in 1 .. n : r[i] = s[(n - i) + 1]
  BY <1>1, <1>2, <1>3 DEF Reverse
<1>5. ASSUME NEW i \in 1 .. n, NEW j \in 1 .. n, r[i] = r[j] PROVE i = j
  <2>1. (n - i) + 1 = (n - j) + 1
    BY <1>2, <1>3, <1>4, <1>5
  <2> QED
    BY <2>1, <1>2
<1>6. Line(r, S) /\ Len(r) = n /\ ToSet(r) = {r[i] : i \in 1 .. n}
  <2>1. n \in Nat /\ r \in [1 .. n -> S] /\ \A i, j \in 1 .. n : r[i] = r[j] => i = j
    BY <1>2, <1>4, <1>5
  <2> QED
    BY <2>1, LineIs
<1>7. ToSet(r) = ToSet(s)
  BY <1>2, <1>3, <1>4, <1>6
<1> QED
  BY <1>1, <1>6, <1>7

(* A finite set has a sequence. *)
LEMMA LineOfSet ==
  ASSUME NEW S, IsFiniteSet(S)
  PROVE  Line(SetToSeq(S), S) /\ Len(SetToSeq(S)) = Cardinality(S)
<1>1. PICK n : n = Cardinality(S)
  OBVIOUS
<1>2. n \in Nat /\ ExistsBijection(1 .. n, S)
  BY <1>1, FS_CardinalityType
<1>3. PICK f \in Bijection(1 .. n, S) : TRUE
  BY <1>2, Fun_ExistsBij
<1>4. f \in [1 .. n -> S] /\ IsInjective(f)
  BY <1>3 DEF Bijection, Injection, IsInjective
<1>5. PICK g : g = SetToSeq(S)
  OBVIOUS
<1>6. g \in [1 .. n -> S] /\ IsInjective(g)
  BY <1>1, <1>4, <1>5 DEF SetToSeq
<1>7. Line(g, S) /\ Len(g) = n
  <2>1. \A i, j \in 1 .. n : g[i] = g[j] => i = j
    BY <1>6 DEF IsInjective
  <2> QED
    BY <2>1, <1>2, <1>6, LineIs, Zenon
<1> QED
  BY <1>1, <1>5, <1>7

-----------------------------------------------------------------------------
(* The half-life pool *)

(* SequencesExt as HalfLifePool sees it. *)
LEMMA SameSequences ==
  /\ \A s : HL!ToSet(s) = ToSet(s)
  /\ \A s : HL!Reverse(s) = Reverse(s)
  /\ \A S : HL!SetToSeq(S) = SetToSeq(S)
  /\ \A S : HL!Cardinality(S) = Cardinality(S) /\ HL!IsFiniteSet(S) = IsFiniteSet(S)
<1>1. \A s : HL!ToSet(s) = ToSet(s)
  BY DEF HL!ToSet, ToSet
<1>2. \A s : HL!Reverse(s) = Reverse(s)
  BY DEF HL!Reverse, Reverse
<1>3. \A S : HL!Cardinality(S) = Cardinality(S) /\ HL!IsFiniteSet(S) = IsFiniteSet(S)
  BY DEF HL!Cardinality, Cardinality, HL!IsFiniteSet, IsFiniteSet
<1>4. \A s : HL!IsInjective(s) = IsInjective(s)
  BY DEF HL!IsInjective, IsInjective
<1>5. \A S : HL!SetToSeq(S) = SetToSeq(S)
  BY <1>3, <1>4 DEF HL!SetToSeq, SetToSeq
<1> QED
  BY <1>1, <1>2, <1>3, <1>5

LEMMA HLParameters ==
  /\ IsFiniteSet(Chunks) /\ NULL \notin Chunks
  /\ PoolSizes \subseteq Int \X Nat /\ NULL \notin PoolSizes
BY PoolsAssumption, SameSequences DEF HL!HLAssumption

LentTo == {c \in Chunks : lent[c] > 0}

(* The queue holds its chunks once, as many as are counted; with those     *)
(* lent it is what malloc gave.                                            *)
Kept(q, n, le, hp) ==
  /\ Line(q, Chunks) /\ n = Len(q)
  /\ le \in [Chunks -> {0, 1}]
  /\ hp = ToSet(q) \cup {c \in Chunks : le[c] > 0}
  /\ \A c \in ToSet(q) : le[c] = 0

Created(s) == s \in PoolSizes /\ s[1] > 0 /\ s[1] >= s[2]

HLPoolInv ==
  /\ Kept(free_q, free_size, lent, heap)
  /\ sizes = NULL \/ Created(sizes)
  /\ sizes = NULL => free_q = << >> /\ got = HL!NothingGot
  /\ HL!ReserveKept

LEMMA SizesAre ==
  ASSUME NEW s, Created(s)
  PROVE  s[1] \in Nat \ {0} /\ s[2] \in Nat /\ s[2] <= s[1] /\ s # NULL
BY HLParameters DEF Created

LEMMA KeptParts ==
  ASSUME NEW q, NEW n, NEW le, NEW hp, Kept(q, n, le, hp)
  PROVE  /\ n \in Nat /\ ToSet(q) \subseteq hp /\ hp \subseteq Chunks
         /\ \A c \in Chunks : le[c] = 0 \/ le[c] = 1
         /\ \A c \in Chunks : c \notin hp => le[c] = 0
BY LineParts DEF Kept

(* What malloc gives is new. *)
LEMMA FreshAre ==
  ASSUME heap \subseteq Chunks, NEW n \in Nat, n <= HL!Spare
  PROVE  /\ Line(HL!Fresh(n), Chunks) /\ Len(HL!Fresh(n)) = n
         /\ ToSet(HL!Fresh(n)) \cap heap = {}
<1>1. PICK S, s : S = Chunks \ heap /\ s = SetToSeq(S)
  BY Zenon
<1>2. IsFiniteSet(S)
  BY <1>1, HLParameters, FS_Subset
<1>3. Line(s, S) /\ Len(s) = Cardinality(S) /\ Cardinality(S) \in Nat
  BY <1>1, <1>2, LineOfSet, FS_CardinalityType
<1>4. n <= Len(s)
  BY <1>1, <1>3, SameSequences DEF HL!Spare
<1>5. PICK r : r = SubSeq(s, 1, n)
  BY Zenon
<1>6. Line(r, S) /\ Len(r) = n
  <2>1. 0 \in Nat /\ 0 <= n /\ 0 + 1 = 1 /\ n - 0 = n
    OBVIOUS
  <2> QED
    BY <2>1, <1>3, <1>4, <1>5, PartOfLine
<1>7. HL!Fresh(n) = r
  BY <1>1, <1>5, SameSequences DEF HL!Fresh
<1>8. ToSet(r) \subseteq S
  BY <1>6, LineParts
<1>9. Line(r, Chunks)
  <2>1. /\ r \in [1 .. n -> S] /\ \A i, j \in 1 .. n : r[i] = r[j] => i = j
    BY <1>6, LineParts
  <2>2. r \in [1 .. n -> Chunks]
    BY <2>1, <1>1
  <2> QED
    BY <2>1, <2>2, LineIs
<1> QED
  BY <1>1, <1>6, <1>7, <1>8, <1>9

(* The first of a line. *)
LEMMA FirstOfLine ==
  ASSUME NEW S, NEW s, Line(s, S), s # << >>
  PROVE  /\ Head(s) \in ToSet(s) /\ Head(s) \in S
         /\ Line(Tail(s), S) /\ Len(Tail(s)) = Len(s) - 1 /\ Len(s) \in Nat \ {0}
         /\ ToSet(Tail(s)) = ToSet(s) \ {Head(s)}
<1>1. PICK n, r : n = Len(s) /\ r = Tail(s)
  BY Zenon
<1>2. n \in Nat /\ s \in [1 .. n -> S] /\ (\A i, j \in 1 .. n : s[i] = s[j] => i = j)
      /\ ToSet(s) = {s[i] : i \in 1 .. n}
  BY <1>1, LineParts
<1>3. n \in Nat \ {0} /\ s \in Seq(S)
  <2>1. s \in Seq(S)
    BY DEF Line
  <2>2. n # 0
    BY <2>1, <1>1, EmptySeq
  <2> QED
    BY <2>1, <2>2, <1>2
<1>4. Head(s) = s[1] /\ 1 \in 1 .. n
  BY <1>3
<1>5. r \in Seq(S) /\ Len(r) = n - 1 /\ \A i \in 1 .. n - 1 : r[i] = s[i + 1]
  <2>1. Tail(s) \in Seq(S) /\ Len(Tail(s)) = Len(s) - 1
        /\ \A k \in 1 .. Len(Tail(s)) : Tail(s)[k] = s[k + 1]
    BY <1>3, HeadTailProperties
  <2> QED
    BY <2>1, <1>1
<1>6. PICK m : m = n - 1
  OBVIOUS
<1>7. m \in Nat /\ n = m + 1 /\ \A i \in 1 .. m : i + 1 \in 1 .. n /\ i + 1 # 1
  BY <1>3, <1>6
<1>8. r \in [1 .. m -> S]
  BY <1>5, <1>6, LenProperties
<1>9. ASSUME NEW i \in 1 .. m, NEW j \in 1 .. m, r[i] = r[j] PROVE i = j
  <2>1. s[i + 1] = s[j + 1]
    BY <1>5, <1>6, <1>9
  <2>2. i + 1 = j + 1
    BY <2>1, <1>2, <1>7
  <2> QED
    BY <2>2
<1>10. Line(r, S) /\ ToSet(r) = {r[i] : i \in 1 .. m}
  <2>1. r \in Seq(S) /\ DOMAIN r = 1 .. m
    BY <1>5, <1>8
  <2>2. IsInjective(r)
    BY <2>1, <1>9 DEF IsInjective
  <2> QED
    BY <2>1, <2>2 DEF Line, ToSet
<1>11. ToSet(r) = ToSet(s) \ {s[1]}
  <2>1. ASSUME NEW i \in 1 .. m PROVE r[i] \in ToSet(s) \ {s[1]}
    <3>1. r[i] = s[i + 1] /\ i + 1 \in 1 .. n /\ i + 1 # 1
      BY <1>5, <1>6, <1>7
    <3> QED
      BY <3>1, <1>2, <1>4
  <2>2. ASSUME NEW i \in 1 .. n, s[i] # s[1] PROVE s[i] \in ToSet(r)
    <3>1. i # 1
      BY <2>2
    <3>2. i - 1 \in 1 .. m /\ (i - 1) + 1 = i
      BY <3>1, <1>7
    <3>3. r[i - 1] = s[i]
      BY <3>2, <1>5, <1>6
    <3> QED
      BY <3>2, <3>3, <1>10
  <2> QED
    BY <2>1, <2>2, <1>2, <1>10
<1> QED
  BY <1>1, <1>2, <1>3, <1>4, <1>5, <1>10, <1>11

(* Init and the steps of the pool. *)
LEMMA HLInvInit == HL!HLInit => HLPoolInv
<1> SUFFICES ASSUME HL!HLInit PROVE HLPoolInv
  OBVIOUS
<1>1. /\ sizes = NULL /\ free_q = << >> /\ free_size = 0 /\ heap = {}
      /\ lent = [c \in Chunks |-> 0] /\ got = HL!NothingGot
  BY DEF HL!HLInit
<1>2. Kept(free_q, free_size, lent, heap)
  <2>1. Line(free_q, Chunks) /\ Len(free_q) = 0 /\ ToSet(free_q) = {}
    BY <1>1, EmptyLine
  <2>2. lent \in [Chunks -> {0, 1}] /\ {c \in Chunks : lent[c] > 0} = {}
    BY <1>1
  <2> QED
    BY <1>1, <2>1, <2>2 DEF Kept
<1> QED
  BY <1>1, <1>2 DEF HLPoolInv, HL!ReserveKept

LEMMA CreateKeeps ==
  ASSUME HLPoolInv, HL!HLCreate
  PROVE  HLPoolInv'
<1>1. PICK p \in PoolSizes :
        /\ sizes = NULL /\ p[1] > 0 /\ p[1] >= p[2] /\ p[1] <= HL!Spare
        /\ sizes' = p /\ free_size' = p[1]
        /\ free_q' = Reverse(HL!Fresh(p[1])) /\ heap' = heap \cup ToSet(HL!Fresh(p[1]))
        /\ lent' = lent /\ got' = got
  BY SameSequences DEF HL!HLCreate
<1>2. PICK n, f : n = p[1] /\ f = HL!Fresh(p[1])
  OBVIOUS
<1>3. Created(p) /\ n \in Nat \ {0} /\ p # NULL
  BY <1>1, <1>2, SizesAre DEF Created
<1>4. Kept(free_q, free_size, lent, heap) /\ heap \subseteq Chunks
  BY KeptParts DEF HLPoolInv
<1>5. Line(f, Chunks) /\ Len(f) = n /\ ToSet(f) \cap heap = {}
  BY <1>1, <1>2, <1>3, <1>4, FreshAre
<1>6. Line(free_q', Chunks) /\ Len(free_q') = n /\ ToSet(free_q') = ToSet(f)
  BY <1>1, <1>2, <1>5, TurnedLine
<1>7. ToSet(free_q) = {}
  BY <1>1, EmptyLine DEF HLPoolInv
<1>8. Kept(free_q', free_size', lent', heap')
  <2>1. heap' = ToSet(free_q') \cup {c \in Chunks : lent'[c] > 0}
    BY <1>1, <1>2, <1>4, <1>6, <1>7 DEF Kept
  <2>2. \A c \in ToSet(free_q') : lent'[c] = 0
    <3>1. ToSet(f) \subseteq Chunks
      BY <1>5, LineParts
    <3> QED
      BY <3>1, <1>1, <1>4, <1>5, <1>6, KeptParts
  <2> QED
    BY <2>1, <2>2, <1>1, <1>2, <1>4, <1>6 DEF Kept
<1>9. (HL!ReserveKept)'
  <2>1. got = HL!NothingGot \/ got # HL!NothingGot
    OBVIOUS
  <2> QED
    BY <1>1, <1>2, <1>3 DEF HL!ReserveKept, HL!max_size, HL!min_size, HLPoolInv
<1> QED
  BY <1>1, <1>3, <1>8, <1>9 DEF HLPoolInv

(* A queue that gives one away, and one that takes one back. *)
LEMMA KeptLends ==
  ASSUME NEW q, NEW n, NEW le, NEW hp, Kept(q, n, le, hp), q # << >>
  PROVE  /\ Kept(Tail(q), n - 1, [le EXCEPT ![Head(q)] = @ + 1], hp)
         /\ Head(q) \in Chunks /\ le[Head(q)] = 0 /\ Len(q) \in Nat \ {0}
<1>1. PICK c, r, me : c = Head(q) /\ r = Tail(q) /\ me = [le EXCEPT ![c] = @ + 1]
  BY Zenon
<1>2. /\ c \in ToSet(q) /\ c \in Chunks /\ Line(r, Chunks) /\ Len(r) = n - 1 /\ Len(q) \in Nat \ {0}
      /\ ToSet(r) = ToSet(q) \ {c}
  BY <1>1, FirstOfLine DEF Kept
<1>3. le[c] = 0 /\ le \in [Chunks -> {0, 1}]
  BY <1>2 DEF Kept
<1>4. me \in [Chunks -> {0, 1}] /\ me[c] = 1 /\ \A d \in Chunks \ {c} : me[d] = le[d]
  BY <1>1, <1>2, <1>3
<1>5. hp = ToSet(r) \cup {d \in Chunks : me[d] > 0}
  <2>1. hp = ToSet(q) \cup {d \in Chunks : le[d] > 0}
    BY DEF Kept
  <2>2. ToSet(q) \subseteq Chunks
    BY LineParts DEF Kept
  <2>3. {d \in Chunks : me[d] > 0} = {d \in Chunks : le[d] > 0} \cup {c}
    BY <1>2, <1>3, <1>4
  <2> QED
    BY <2>1, <2>3, <1>2
<1>6. \A d \in ToSet(r) : me[d] = 0
  <2>1. ToSet(q) \subseteq Chunks
    BY LineParts DEF Kept
  <2> QED
    BY <2>1, <1>2, <1>4 DEF Kept
<1> QED
  BY <1>1, <1>2, <1>3, <1>4, <1>5, <1>6 DEF Kept

LEMMA KeptGrows ==
  ASSUME NEW q, NEW n, NEW le, NEW hp, Kept(q, n, le, hp),
         NEW f, Line(f, Chunks), ToSet(f) \cap hp = {}
  PROVE  Kept(q \o f, n + Len(f), le, hp \cup ToSet(f))
<1>1. Line(q, Chunks) /\ ToSet(q) \subseteq hp /\ n = Len(q) /\ ToSet(f) \subseteq Chunks
  BY KeptParts, LineParts DEF Kept
<1>2. /\ Line(q \o f, Chunks) /\ Len(q \o f) = n + Len(f)
      /\ ToSet(q \o f) = ToSet(q) \cup ToSet(f)
  BY <1>1, JoinLines
<1>3. \A c \in ToSet(f) : le[c] = 0
  BY <1>1, KeptParts
<1>4. hp \cup ToSet(f) = ToSet(q \o f) \cup {c \in Chunks : le[c] > 0}
  BY <1>2 DEF Kept
<1> QED
  BY <1>2, <1>3, <1>4 DEF Kept

LEMMA KeptTakes ==
  ASSUME NEW q, NEW n, NEW le, NEW hp, Kept(q, n, le, hp), NEW c \in Chunks, le[c] = 1
  PROVE  Kept(Append(q, c), n + 1, [le EXCEPT ![c] = @ - 1], hp)
<1>1. PICK r, me : r = Append(q, c) /\ me = [le EXCEPT ![c] = @ - 1]
  BY Zenon
<1>2. Line(q, Chunks) /\ q \in Seq(Chunks) /\ c \notin ToSet(q) /\ n = Len(q) /\ ToSet(q) \subseteq Chunks
  BY LineParts DEF Kept, Line
<1>3. PICK f : f = <<c>>
  BY Zenon
<1>4. f \in [1 .. 1 -> Chunks] /\ f \in Seq(Chunks) /\ \A i, j \in 1 .. 1 : f[i] = f[j] => i = j
  BY <1>3
<1>5. Line(f, Chunks) /\ Len(f) = 1 /\ ToSet(f) = {f[i] : i \in 1 .. 1}
  <2>1. 1 \in Nat
    OBVIOUS
  <2> QED
    BY <2>1, <1>4, LineIs
<1>6. ToSet(f) = {c}
  BY <1>3, <1>5
<1>7. /\ Line(q \o f, Chunks) /\ Len(q \o f) = n + 1 /\ ToSet(q \o f) = ToSet(q) \cup {c}
  <2>1. ToSet(q) \cap ToSet(f) = {}
    BY <1>2, <1>6
  <2>2. Line(q, Chunks) /\ Line(f, Chunks)
    BY <1>2, <1>5
  <2>3. Line(q \o f, Chunks) /\ Len(q \o f) = Len(q) + Len(f) /\ ToSet(q \o f) = ToSet(q) \cup ToSet(f)
    BY <2>1, <2>2, JoinLines
  <2> QED
    BY <2>3, <1>2, <1>5, <1>6, Zenon
<1>8. r = q \o f
  BY <1>1, <1>2, <1>3, AppendIsConcat
<1>9. /\ me \in [Chunks -> {0, 1}] /\ me[c] = 0 /\ \A d \in Chunks \ {c} : me[d] = le[d]
  BY <1>1 DEF Kept
<1>10. hp = ToSet(r) \cup {d \in Chunks : me[d] > 0}
  <2>1. hp = ToSet(q) \cup {d \in Chunks : le[d] > 0}
    BY DEF Kept
  <2>2. {d \in Chunks : me[d] > 0} = {d \in Chunks : le[d] > 0} \ {c}
    BY <1>9
  <2>3. c \in {d \in Chunks : le[d] > 0}
    OBVIOUS
  <2> QED
    BY <2>1, <2>2, <2>3, <1>7, <1>8
<1>11. \A d \in ToSet(r) : me[d] = 0
  BY <1>2, <1>7, <1>8, <1>9 DEF Kept
<1> QED
  BY <1>1, <1>7, <1>8, <1>9, <1>10, <1>11 DEF Kept

(* Giving the first of the free ones back to malloc. *)
LEMMA KeptShrinks ==
  ASSUME NEW q, NEW n, NEW le, NEW hp, Kept(q, n, le, hp), NEW over \in Nat, over <= n
  PROVE  /\ Kept(SubSeq(q, over + 1, Len(q)), n - over, le, hp \ ToSet(SubSeq(q, 1, over)))
         /\ Len(SubSeq(q, over + 1, Len(q))) = n - over
<1>1. PICK kept, gone : kept = SubSeq(q, over + 1, Len(q)) /\ gone = SubSeq(q, 1, over)
  BY Zenon
<1>2. /\ n = Len(q) /\ n \in Nat /\ Line(q, Chunks) /\ ToSet(q) = {q[i] : i \in 1 .. n}
      /\ \A i, j \in 1 .. n : q[i] = q[j] => i = j
  BY LineParts DEF Kept
<1>3. Line(kept, Chunks) /\ Len(kept) = n - over /\ ToSet(kept) = {q[i] : i \in over + 1 .. n}
  <2>1. n <= Len(q) /\ over <= n
    BY <1>2
  <2>2. /\ Line(SubSeq(q, over + 1, n), Chunks) /\ Len(SubSeq(q, over + 1, n)) = n - over
        /\ ToSet(SubSeq(q, over + 1, n)) = {q[i] : i \in over + 1 .. n}
    <3>1. Line(q, Chunks) /\ n \in Nat
      BY <1>2
    <3> QED
      BY <2>1, <3>1, PartOfLine
  <2> QED
    BY <2>2, <1>1, <1>2
<1>4. ToSet(gone) = {q[i] : i \in 1 .. over}
  <2>1. PICK z : z = 0
    OBVIOUS
  <2>2. Line(q, Chunks) /\ z \in Nat /\ z <= over /\ over <= Len(q)
    BY <2>1, <1>2
  <2>3. ToSet(SubSeq(q, z + 1, over)) = {q[i] : i \in z + 1 .. over}
    BY <2>2, PartOfLine
  <2>4. z + 1 = 1
    BY <2>1
  <2> QED
    BY <2>3, <2>4, <1>1
<1>5. ToSet(kept) = ToSet(q) \ ToSet(gone) /\ ToSet(gone) \subseteq ToSet(q)
  <2>1. ASSUME NEW i \in 1 .. n PROVE i \in 1 .. over \/ i \in over + 1 .. n
    BY <1>2
  <2>2. ASSUME NEW i \in 1 .. over PROVE i \in 1 .. n
    BY <1>2
  <2>3. ASSUME NEW i \in over + 1 .. n PROVE i \in 1 .. n /\ i \notin 1 .. over
    BY <1>2
  <2> QED
    BY <2>1, <2>2, <2>3, <1>2, <1>3, <1>4
<1>6. hp \ ToSet(gone) = ToSet(kept) \cup {c \in Chunks : le[c] > 0}
  <2>1. \A c \in ToSet(gone) : ~ (le[c] > 0)
    BY <1>5 DEF Kept
  <2> QED
    BY <2>1, <1>5 DEF Kept
<1> QED
  BY <1>1, <1>3, <1>5, <1>6 DEF Kept

(* What do_expand adds, of the n elements that malloc may give. *)
LEMMA ExpandIs ==
  ASSUME HLPoolInv, Created(sizes), NEW n \in 0 .. HL!max_size - free_size, n <= HL!Spare,
         NEW e, e = HL!Expand(n)
  PROVE  /\ Line(e.more, Chunks) /\ ToSet(e.more) \cap heap = {} /\ Len(e.more) \in Nat
         /\ e.ret \in {-1, 0} /\ free_size + Len(e.more) <= HL!max_size
         /\ e.ret = 0 => \/ free_size + Len(e.more) > HL!min_size
                         \/ free_size + Len(e.more) = HL!max_size
<1>1. PICK x, m, k : x = HL!max_size /\ m = HL!min_size /\ k = free_size
  OBVIOUS
<1>2. x \in Nat \ {0} /\ m \in Nat /\ m <= x
  BY <1>1, SizesAre DEF HL!max_size, HL!min_size
<1>3. k \in Nat /\ heap \subseteq Chunks /\ k <= x
  BY <1>1, KeptParts, SizesAre DEF HLPoolInv, HL!ReserveKept
<1>4. n \in Nat /\ n <= x - k
  BY <1>1, <1>2, <1>3
<1>5. CASE k > m
  <2>1. e.more = << >> /\ e.ret = 0
    BY <1>1, <1>5 DEF HL!Expand
  <2>2. Line(e.more, Chunks) /\ Len(e.more) = 0 /\ ToSet(e.more) = {}
    BY <2>1, EmptyLine
  <2> QED
    BY <2>1, <2>2, <1>1, <1>2, <1>3, <1>5
<1>6. CASE ~ (k > m)
  <2>1. e.more = HL!Fresh(n) /\ e.ret = IF k + n < x THEN -1 ELSE 0
    BY <1>1, <1>6 DEF HL!Expand
  <2>2. Line(e.more, Chunks) /\ Len(e.more) = n /\ ToSet(e.more) \cap heap = {}
    BY <2>1, <1>3, <1>4, FreshAre
  <2>3. k + n <= x /\ (~ (k + n < x) => k + n = x)
    BY <1>2, <1>3, <1>4
  <2> QED
    BY <2>1, <2>2, <2>3, <1>1, <1>4
<1> QED
  BY <1>5, <1>6

LEMMA GetKeeps ==
  ASSUME HLPoolInv, sizes # NULL, HL!HLGet
  PROVE  HLPoolInv'
<1>1. PICK n \in 0 .. HL!max_size - free_size :
        /\ n <= HL!Spare
        /\ LET e == HL!Expand(n)
               full == free_q \o e.more
           IN  /\ heap' = heap \cup ToSet(e.more)
               /\ IF HL!GetNothing(e)
                  THEN /\ free_q' = full /\ free_size' = free_size + Len(e.more)
                       /\ got' = [node |-> NULL, ret |-> e.ret, left |-> Len(full)]
                       /\ UNCHANGED lent
                  ELSE /\ free_q' = Tail(full) /\ free_size' = free_size + Len(e.more) - 1
                       /\ got' = [node |-> Head(full), ret |-> e.ret, left |-> Len(full) - 1]
                       /\ lent' = [lent EXCEPT ![Head(full)] = @ + 1]
        /\ UNCHANGED sizes
  BY SameSequences, Zenon DEF HL!HLGet
<1>2. PICK e, q, x, m : e = HL!Expand(n) /\ q = free_q \o e.more /\ x = HL!max_size /\ m = HL!min_size
  BY Zenon
<1>3. Created(sizes) /\ sizes' = sizes /\ x' = x /\ heap' = heap \cup ToSet(e.more)
  BY <1>1, <1>2 DEF HLPoolInv, HL!max_size
<1>4. x \in Nat \ {0} /\ m \in Nat /\ m <= x
  BY <1>2, <1>3, SizesAre DEF HL!max_size, HL!min_size
<1>5. PICK l : l = free_size + Len(e.more)
  OBVIOUS
<1>6. /\ Line(e.more, Chunks) /\ ToSet(e.more) \cap heap = {} /\ Len(e.more) \in Nat
      /\ e.ret \in {-1, 0} /\ l <= x /\ (e.ret = 0 => l > m \/ l = x)
  BY <1>1, <1>2, <1>3, <1>5, ExpandIs
<1>7. Kept(q, l, lent, heap') /\ free_size \in Nat
  BY <1>2, <1>3, <1>5, <1>6, KeptGrows, KeptParts, Zenon DEF HLPoolInv
<1>8. l = Len(q) /\ l \in Nat
  BY <1>5, <1>6, <1>7 DEF Kept
<1>9. CASE HL!GetNothing(e)
  <2>1. /\ free_q' = q /\ free_size' = l /\ lent' = lent
        /\ got' = [node |-> NULL, ret |-> e.ret, left |-> l]
    BY <1>1, <1>2, <1>5, <1>8, <1>9
  <2>2. e.ret = -1 /\ l = 0
    BY <1>5, <1>6, <1>8, <1>9 DEF HL!GetNothing
  <2>3. (HL!ReserveKept)'
    BY <2>1, <2>2, <1>2, <1>3, <1>4 DEF HL!ReserveKept, HL!max_size, HL!min_size
  <2> QED
    BY <2>1, <2>3, <1>3, <1>7, HLParameters DEF HLPoolInv
<1>10. CASE ~ HL!GetNothing(e)
  <2>1. /\ free_q' = Tail(q) /\ free_size' = l - 1 /\ lent' = [lent EXCEPT ![Head(q)] = @ + 1]
        /\ got' = [node |-> Head(q), ret |-> e.ret, left |-> l - 1]
    <3>1. /\ free_q' = Tail(q) /\ free_size' = free_size + Len(e.more) - 1
          /\ lent' = [lent EXCEPT ![Head(q)] = @ + 1]
          /\ got' = [node |-> Head(q), ret |-> e.ret, left |-> Len(q) - 1]
      BY <1>1, <1>2, <1>10, Zenon
    <3>2. free_size + Len(e.more) - 1 = l - 1
      BY <1>5, <1>6, <1>7
    <3> QED
      BY <3>1, <3>2, <1>8
  <2>2. l # 0
    <3>1. l <= 0 => l = 0 /\ e.ret = 0
      BY <1>5, <1>6, <1>8, <1>10 DEF HL!GetNothing
    <3>2. e.ret = 0 => l # 0
      BY <1>4, <1>6
    <3> QED
      BY <3>1, <3>2, <1>8
  <2>3. q # << >>
    BY <2>2, <1>8, EmptyLine
  <2>4. Kept(free_q', free_size', lent', heap') /\ Head(q) \in Chunks
    BY <2>1, <2>3, <1>7, KeptLends, Zenon
  <2>5. (HL!ReserveKept)'
    <3>1. got'.node # NULL /\ got'.ret = e.ret /\ got'.left = l - 1
      BY <2>1, <2>4, HLParameters
    <3>2. l - 1 <= x /\ (e.ret = 0 => l - 1 >= m \/ l - 1 = x - 1)
      BY <1>4, <1>6, <1>8
    <3> QED
      BY <3>1, <3>2, <2>1, <1>2, <1>3, Zenon DEF HL!ReserveKept, HL!max_size, HL!min_size
  <2> QED
    BY <2>4, <2>5, <1>3, HLParameters DEF HLPoolInv, Created
<1> QED
  BY <1>9, <1>10

LEMMA FreeKeeps ==
  ASSUME HLPoolInv, sizes # NULL, HL!HLFree
  PROVE  HLPoolInv'
<1>1. PICK c \in Chunks :
        LET s == HL!Shrink(Append(free_q, c))
        IN  /\ lent[c] = 1 /\ lent' = [lent EXCEPT ![c] = @ - 1]
            /\ free_q' = s.kept /\ free_size' = Len(s.kept)
            /\ heap' = heap \ s.gone /\ got' = HL!NothingGot /\ UNCHANGED sizes
  BY Zenon DEF HL!HLFree
<1>2. PICK q, l, me, x : /\ q = Append(free_q, c) /\ l = free_size + 1
                         /\ me = [lent EXCEPT ![c] = @ - 1] /\ x = HL!max_size
  BY Zenon
<1>3. Created(sizes) /\ x \in Nat \ {0}
  BY <1>2, SizesAre DEF HLPoolInv, HL!max_size
<1>4. Kept(q, l, me, heap) /\ free_size \in Nat /\ free_size <= x
  BY <1>1, <1>2, KeptTakes, KeptParts, Zenon DEF HLPoolInv, HL!ReserveKept
<1>5. l = Len(q) /\ l \in Nat
  BY <1>2, <1>4 DEF Kept
<1>6. PICK over : over = IF l > x THEN l - x ELSE 0
  OBVIOUS
<1>7. over \in Nat /\ over <= l /\ l - over <= x
  BY <1>3, <1>5, <1>6
<1>8. /\ free_q' = SubSeq(q, over + 1, Len(q)) /\ free_size' = Len(SubSeq(q, over + 1, Len(q)))
      /\ heap' = heap \ ToSet(SubSeq(q, 1, over))
  BY <1>1, <1>2, <1>5, <1>6, SameSequences, Zenon DEF HL!Shrink
<1>9. Kept(free_q', free_size', lent', heap') /\ free_size' <= x
  <2>1. lent' = me
    BY <1>1, <1>2
  <2>2. /\ Kept(SubSeq(q, over + 1, Len(q)), l - over, me, heap \ ToSet(SubSeq(q, 1, over)))
        /\ Len(SubSeq(q, over + 1, Len(q))) = l - over
    BY <1>4, <1>7, KeptShrinks
  <2> QED
    BY <2>1, <2>2, <1>7, <1>8
<1>10. sizes' = sizes /\ got' = HL!NothingGot
  BY <1>1
<1> QED
  BY <1>2, <1>3, <1>9, <1>10 DEF HLPoolInv, HL!ReserveKept, HL!max_size, HL!min_size, HL!NothingGot

LEMMA DestroyKeeps ==
  ASSUME HLPoolInv, HL!HLDestroy
  PROVE  HLPoolInv'
<1>1. /\ \A c \in Chunks : lent[c] = 0
      /\ sizes' = NULL /\ heap' = heap \ ToSet(free_q)
      /\ free_q' = << >> /\ free_size' = 0 /\ got' = HL!NothingGot /\ lent' = lent
  BY SameSequences DEF HL!HLDestroy
<1>2. Kept(free_q, free_size, lent, heap)
  BY DEF HLPoolInv
<1>3. Line(free_q', Chunks) /\ Len(free_q') = 0 /\ ToSet(free_q') = {}
  BY <1>1, EmptyLine
<1>4. {c \in Chunks : lent'[c] > 0} = {} /\ heap' = {}
  BY <1>1, <1>2 DEF Kept
<1>5. Kept(free_q', free_size', lent', heap')
  BY <1>1, <1>2, <1>3, <1>4 DEF Kept
<1> QED
  BY <1>1, <1>5 DEF HLPoolInv, HL!ReserveKept, HL!NothingGot

LEMMA HLInvNext == HLPoolInv /\ [HL!HLNext]_hl_vars => HLPoolInv'
<1> SUFFICES ASSUME HLPoolInv, [HL!HLNext]_hl_vars PROVE HLPoolInv'
  OBVIOUS
<1>1. CASE UNCHANGED hl_vars
  BY <1>1 DEF hl_vars, HLPoolInv, Kept, Line, Created, HL!ReserveKept, HL!max_size, HL!min_size,
              HL!NothingGot
<1> QED
  BY <1>1, CreateKeeps, GetKeeps, FreeKeeps, DestroyKeeps DEF HL!HLNext

(* Lending: only a get makes a caller of a chunk, of a free one, and only  *)
(* a free unmakes one.                                                     *)
LEMMA HLLends == HLPoolInv /\ [HL!HLNext]_hl_vars => [HL!HLLending!Next]_lent
<1> SUFFICES ASSUME HLPoolInv, [HL!HLNext]_hl_vars, lent' # lent PROVE HL!HLLending!Next
  OBVIOUS
<1>1. Kept(free_q, free_size, lent, heap) /\ lent \in [Chunks -> {0, 1}]
  BY DEF HLPoolInv, Kept
<1>2. CASE sizes # NULL /\ HL!HLGet
  <2>1. PICK n \in 0 .. HL!max_size - free_size :
          /\ n <= HL!Spare
          /\ LET e == HL!Expand(n)
                 full == free_q \o e.more
             IN  /\ heap' = heap \cup ToSet(e.more)
                 /\ IF HL!GetNothing(e)
                    THEN UNCHANGED lent
                    ELSE /\ free_q' = Tail(full)
                         /\ lent' = [lent EXCEPT ![Head(full)] = @ + 1]
    BY <1>2, SameSequences, Zenon DEF HL!HLGet
  <2>2. PICK e, q : e = HL!Expand(n) /\ q = free_q \o e.more
    BY Zenon
  <2>3. Created(sizes)
    BY <1>2 DEF HLPoolInv
  <2>4. /\ Line(e.more, Chunks) /\ ToSet(e.more) \cap heap = {} /\ Len(e.more) \in Nat
        /\ e.ret \in {-1, 0} /\ (e.ret = 0 => \/ free_size + Len(e.more) > HL!min_size
                                              \/ free_size + Len(e.more) = HL!max_size)
    BY <2>1, <2>2, <2>3, ExpandIs
  <2>5. ~ HL!GetNothing(e) /\ lent' = [lent EXCEPT ![Head(q)] = @ + 1]
    BY <2>1, <2>2, Zenon
  <2>6. Kept(q, free_size + Len(e.more), lent, heap \cup ToSet(e.more))
    BY <1>1, <2>2, <2>4, KeptGrows, Zenon
  <2>7. q # << >>
    <3>1. free_size + Len(e.more) = Len(q)
      BY <2>6 DEF Kept
    <3>2. HL!max_size \in Nat \ {0} /\ HL!min_size \in Nat
      BY <2>3, SizesAre DEF HL!max_size, HL!min_size
    <3>3. free_size \in Nat
      BY <1>1, KeptParts
    <3>4. free_size + Len(e.more) # 0
      BY <2>4, <2>5, <3>2, <3>3 DEF HL!GetNothing
    <3> QED
      BY <3>1, <3>4, EmptyLine
  <2>8. Head(q) \in Chunks /\ lent[Head(q)] = 0
    BY <2>6, <2>7, KeptLends, Zenon
  <2>9. lent' = [lent EXCEPT ![Head(q)] = 1]
    BY <2>5, <2>8
  <2> QED
    BY <2>8, <2>9, Zenon DEF HL!HLLending!Next, HL!HLLending!Lend
<1>3. CASE sizes # NULL /\ HL!HLFree
  <2>1. PICK c \in Chunks : lent[c] = 1 /\ lent' = [lent EXCEPT ![c] = @ - 1]
    BY <1>3, Zenon DEF HL!HLFree
  <2>2. lent' = [lent EXCEPT ![c] = 0]
    BY <2>1
  <2> QED
    BY <2>1, <2>2, Zenon DEF HL!HLLending!Next, HL!HLLending!Return
<1>4. CASE HL!HLCreate \/ HL!HLDestroy \/ UNCHANGED hl_vars
  BY <1>4 DEF HL!HLCreate, HL!HLDestroy, hl_vars
<1> QED
  BY <1>2, <1>3, <1>4 DEF HL!HLNext

(* What the pool promises, from its invariant. *)
LEMMA HLProves == HLPoolInv => HL!HeapExact /\ HL!ReserveKept
<1> SUFFICES ASSUME HLPoolInv PROVE HL!HeapExact
  BY DEF HLPoolInv
<1>1. Kept(free_q, free_size, lent, heap)
  BY DEF HLPoolInv
<1>2. Cardinality(ToSet(free_q)) = Len(free_q)
  BY <1>1, LineSize DEF Kept
<1> QED
  BY <1>1, <1>2, SameSequences DEF Kept, HL!HeapExact

LEMMA HLOnly == [PoolsNext]_pools_vars => [HL!HLNext]_hl_vars
BY DEF PoolsNext, HLPools, Pools, Queues, Hashes, Days, pools_vars, hl_vars

(* The half-life pool lends a chunk to one caller at a time; what it keeps *)
(* and what it lent are what malloc gave - no element is lost, or freed    *)
(* while it is lent - and it keeps its reserve (hl_mempool_get,            *)
(* hl_mempool_free, do_expand, do_shrink).                                 *)
THEOREM ChunksAreLent == PoolsSpec => ChunksLent
<1>1. PoolsInit => HLPoolInv
  BY HLInvInit DEF PoolsInit
<1>2. HLPoolInv /\ [PoolsNext]_pools_vars => HLPoolInv'
  BY HLInvNext, HLOnly
<1>3. PoolsInit => HL!HLLending!Init
  BY DEF PoolsInit, HL!HLInit, HL!HLLending!Init
<1>4. HLPoolInv /\ [PoolsNext]_pools_vars => [HL!HLLending!Next]_lent
  BY HLLends, HLOnly
<1> QED
  BY <1>1, <1>2, <1>3, <1>4, HLProves, PTL DEF PoolsSpec, ChunksLent, HL!HLLending!Spec

-----------------------------------------------------------------------------
(* The memory pool *)

Sizes == {ALIGNMENT, POOL_T, POOL_DATA_T, POOL_LARGE_T, ARRAY_T, ElementSize}

(* What FiniteSetsExt calls the least and the largest. *)
LEMMA LeastIs ==
  ASSUME NEW S \in SUBSET Nat, S # {}
  PROVE  MP!Min(S) \in S
<1>1. \E x \in S : \A y \in S : x <= y
  BY LeastOf
<1> QED
  BY <1>1, Zenon DEF MP!Min

LEMMA LargestIs ==
  ASSUME NEW n \in Nat, NEW S \in SUBSET (0 .. n), S # {}
  PROVE  MP!Max(S) \in S /\ \A y \in S : MP!Max(S) >= y
<1>1. PICK T : T = {n - x : x \in S}
  BY Zenon
<1>2. T \in SUBSET Nat /\ T # {}
  <2>1. \A x \in S : n - x \in Nat
    OBVIOUS
  <2>2. \A y \in T : y \in Nat
    BY <2>1, <1>1
  <2>3. T # {}
    BY <1>1, Zenon
  <2> QED
    BY <2>2, <2>3
<1>3. PICK x \in T : \A y \in T : x <= y
  BY <1>2, LeastOf
<1>4. PICK z \in S : x = n - z
  BY <1>1, <1>3
<1>5. \A y \in S : z >= y
  <2> SUFFICES ASSUME NEW y \in S PROVE z >= y
    OBVIOUS
  <2>1. n - z <= n - y
    BY <1>1, <1>3, <1>4
  <2>2. z \in 0 .. n /\ y \in 0 .. n
    OBVIOUS
  <2> QED
    BY <2>1, <2>2
<1> QED
  BY <1>5, Zenon DEF MP!Max

LEMMA MPParameters ==
  /\ Sizes \subseteq Nat \ {0} /\ Requests \subseteq Nat \ {0}
  /\ Larges \subseteq Nat \ {0} /\ NULL \notin Larges
  /\ MP!psize \in Nat /\ MP!max \in Nat /\ MP!max <= MP!psize - POOL_T
  /\ POOL_T <= MP!psize /\ POOL_LARGE_T <= MP!max /\ ARRAY_T <= MP!max
  /\ MP!AlignTo(POOL_DATA_T, ALIGNMENT) <= POOL_T
<1>1. /\ Sizes \subseteq Nat \ {0} /\ CreateSize \in Nat /\ MaxAlloc \in Nat
      /\ Requests \subseteq Nat \ {0} /\ Larges \subseteq Nat \ {0} /\ NULL \notin Larges
      /\ MP!AlignTo(POOL_DATA_T, ALIGNMENT) <= POOL_T
      /\ POOL_LARGE_T <= MP!max /\ ARRAY_T <= MP!max
  BY PoolsAssumption DEF MP!MPAssumption, Sizes
<1>2. POOL_T \in Nat \ {0}
  BY <1>1 DEF Sizes
<1>3. MP!psize \in Nat /\ POOL_T <= MP!psize
  BY <1>1, <1>2 DEF MP!psize
<1>4. PICK S, y : S = {MP!psize - POOL_T, MaxAlloc} /\ y = MP!psize - POOL_T
  BY Zenon
<1>5. S \in SUBSET Nat /\ S # {} /\ y \in S
  BY <1>1, <1>2, <1>3, <1>4
<1>6. \E x \in S : \A z \in S : x <= z
  BY <1>5, LeastOf
<1>7. MP!max \in S /\ MP!max <= y
  BY <1>4, <1>5, <1>6 DEF MP!max, MP!Min
<1> QED
  BY <1>1, <1>3, <1>4, <1>5, <1>7

LEMMA EachSize ==
  /\ ALIGNMENT \in Nat \ {0} /\ POOL_T \in Nat \ {0} /\ POOL_DATA_T \in Nat \ {0}
  /\ POOL_LARGE_T \in Nat \ {0} /\ ARRAY_T \in Nat \ {0} /\ ElementSize \in Nat \ {0}
BY MPParameters DEF Sizes

LEMMA Aligned ==
  ASSUME NEW x \in Nat
  PROVE  MP!AlignTo(x, ALIGNMENT) \in Nat /\ x <= MP!AlignTo(x, ALIGNMENT)
<1>1. AlignTo(x, ALIGNMENT) \in Nat /\ x <= AlignTo(x, ALIGNMENT)
  BY EachSize, AlignToIs
<1>2. MP!AlignTo(x, ALIGNMENT) = AlignTo(x, ALIGNMENT)
  BY DEF MP!AlignTo, AlignTo, MP!DivUp, DivUp
<1> QED
  BY <1>1, <1>2

(* Where the room of a block begins. *)
Top(i) == IF i = 1 THEN POOL_T ELSE POOL_DATA_T

Addresses == Nat \X Nat
Node  == [node : Addresses, alloc : Larges \cup {NULL}]
Area  == [at : Addresses, size : Nat \ {0}]
Array == [at : Addresses, elts : Addresses, nelts : Nat, nalloc : Nat \ {0}]

PoolOK(p) ==
  /\ p \in [last : Seq(Nat), current : Nat \ {0}, large : Seq(Node)]
  /\ Len(p.last) # 0
  /\ \A i \in 1 .. Len(p.last) : Top(i) <= p.last[i]

LEMMA PoolParts ==
  ASSUME NEW p, PoolOK(p)
  PROVE  /\ p.last \in Seq(Nat) /\ p.current \in Nat \ {0} /\ p.large \in Seq(Node)
         /\ Len(p.last) \in Nat \ {0} /\ DOMAIN p.last = 1 .. Len(p.last)
         /\ \A i \in 1 .. Len(p.last) : p.last[i] \in Nat /\ Top(i) <= p.last[i]
<1>1. p.last \in Seq(Nat) /\ p.current \in Nat \ {0} /\ p.large \in Seq(Node)
  BY DEF PoolOK
<1>2. /\ Len(p.last) \in Nat /\ DOMAIN p.last = 1 .. Len(p.last)
      /\ p.last \in [1 .. Len(p.last) -> Nat]
  BY <1>1, LenProperties
<1> QED
  BY <1>1, <1>2 DEF PoolOK

(* What an allocation in a block does: every block keeps what it had, and  *)
(* the new place is behind all of it.                                      *)
Gets(p, r, size) ==
  /\ PoolOK(r.pool) /\ r.pool.large = p.large
  /\ Len(p.last) <= Len(r.pool.last)
  /\ \A i \in 1 .. Len(p.last) : p.last[i] <= r.pool.last[i]
  /\ r.at \in Addresses /\ r.at[1] \in 1 .. Len(r.pool.last)
  /\ Top(r.at[1]) <= r.at[2]
  /\ r.at[2] + size <= MP!psize
  /\ r.at[2] + size <= r.pool.last[r.at[1]]
  /\ r.at[1] <= Len(p.last) => p.last[r.at[1]] <= r.at[2]

LEMMA InBlock ==
  ASSUME NEW p, PoolOK(p), NEW size \in Nat \ {0}, NEW i \in 1 .. Len(p.last), MP!FitsIn(p, i, size),
         NEW m, m = MP!AlignTo(p.last[i], ALIGNMENT),
         NEW r, r = [pool |-> [p EXCEPT !.last[i] = m + size], at |-> <<i, m>>]
  PROVE  Gets(p, r, size)
<1>1. PICK n, s, t : n = Len(p.last) /\ s = p.last /\ t = [s EXCEPT ![i] = m + size]
  BY Zenon
<1>2. /\ s \in Seq(Nat) /\ n \in Nat \ {0} /\ s \in [1 .. n -> Nat]
      /\ \A j \in 1 .. n : s[j] \in Nat /\ Top(j) <= s[j]
  BY <1>1, PoolParts, LenProperties, Zenon
<1>3. m \in Nat /\ s[i] <= m /\ m + size <= MP!psize /\ i \in Nat
  <2>1. s[i] \in Nat
    BY <1>1, <1>2
  <2>2. m \in Nat /\ s[i] <= m
    BY <2>1, <1>1, Aligned
  <2>3. m < MP!psize /\ MP!psize - m >= size
    BY DEF MP!FitsIn
  <2> QED
    BY <2>2, <2>3, <1>2, MPParameters
<1>4. t \in [1 .. n -> Nat] /\ t[i] = m + size /\ \A j \in 1 .. n : j # i => t[j] = s[j]
  BY <1>1, <1>2, <1>3, SMTT(30)
<1>5. t \in Seq(Nat) /\ Len(t) = n
  <2>1. t \in Seq(Nat) /\ DOMAIN t = 1 .. n
    BY <1>2, <1>4, SeqDef, Zenon
  <2> QED
    BY <2>1, <1>2, LenProperties
<1>6. \A j \in 1 .. n : s[j] <= t[j] /\ Top(j) <= t[j]
  <2> SUFFICES ASSUME NEW j \in 1 .. n PROVE s[j] <= t[j] /\ Top(j) <= t[j]
    OBVIOUS
  <2>1. s[j] \in Nat /\ Top(j) <= s[j] /\ Top(j) \in Nat
    BY <1>2, EachSize DEF Top
  <2>2. CASE j = i
    BY <2>1, <2>2, <1>3, <1>4
  <2>3. CASE j # i
    BY <2>1, <2>3, <1>4
  <2> QED
    BY <2>2, <2>3
<1>7. r.pool.last = t /\ r.pool.large = p.large /\ r.pool.current = p.current /\ r.at = <<i, m>>
      /\ r.pool \in [last : Seq(Nat), current : Nat \ {0}, large : Seq(Node)]
  BY <1>1, <1>5, Zenon DEF PoolOK
<1>8. PoolOK(r.pool)
  BY <1>2, <1>5, <1>6, <1>7, Zenon DEF PoolOK
<1>9. Top(i) <= m
  <2>1. Top(i) <= s[i] /\ Top(i) \in Nat /\ s[i] \in Nat
    BY <1>1, <1>2, EachSize DEF Top
  <2> QED
    BY <2>1, <1>3
<1>10. r.at \in Addresses /\ r.at[1] = i /\ r.at[2] = m
  BY <1>3, <1>7 DEF Addresses
<1>11. m + size <= t[i] /\ i \in 1 .. n /\ n <= n
  BY <1>1, <1>2, <1>3, <1>4
<1> QED
  BY <1>1, <1>3, <1>5, <1>6, <1>7, <1>8, <1>9, <1>10, <1>11, Zenon DEF Gets

LEMMA InNewBlock ==
  ASSUME NEW p, PoolOK(p), NEW size \in Nat \ {0}, size <= MP!max,
         NEW r, r = MP!NewBlock(p, size)
  PROVE  Gets(p, r, size)
<1>1. PICK n, s, m : n = Len(p.last) /\ s = p.last /\ m = MP!AlignTo(POOL_DATA_T, ALIGNMENT)
  BY Zenon
<1>2. /\ s \in Seq(Nat) /\ n \in Nat \ {0} /\ s \in [1 .. n -> Nat]
      /\ \A j \in 1 .. n : s[j] \in Nat /\ Top(j) <= s[j]
  BY <1>1, PoolParts, LenProperties
<1>3. m \in Nat /\ POOL_DATA_T <= m /\ m + size <= MP!psize
  <2>1. m \in Nat /\ POOL_DATA_T <= m
    BY <1>1, EachSize, Aligned
  <2>2. m <= POOL_T /\ POOL_T \in Nat /\ size <= MP!psize - POOL_T /\ MP!psize \in Nat
    BY <1>1, MPParameters, EachSize
  <2> QED
    BY <2>1, <2>2
<1>4. PICK x, t : x = m + size /\ t = Append(s, x)
  BY Zenon
<1>5. x \in Nat
  BY <1>3, <1>4
<1>6. t \in Seq(Nat) /\ Len(t) = n + 1 /\ t[n + 1] = x /\ \A j \in 1 .. n : t[j] = s[j]
  BY <1>1, <1>2, <1>4, <1>5, AppendProperties
<1>7. \A j \in 1 .. n + 1 : Top(j) <= t[j]
  <2> SUFFICES ASSUME NEW j \in 1 .. n + 1 PROVE Top(j) <= t[j]
    OBVIOUS
  <2>1. CASE j = n + 1
    <3>1. Top(j) = POOL_DATA_T
      BY <2>1, <1>2 DEF Top
    <3> QED
      BY <3>1, <2>1, <1>3, <1>4, <1>6, EachSize
  <2>2. CASE j # n + 1
    <3>1. j \in 1 .. n
      BY <2>2, <1>2
    <3> QED
      BY <3>1, <1>2, <1>6
  <2> QED
    BY <2>1, <2>2
<1>8. r.pool.last = t /\ r.pool.large = p.large /\ r.at = <<n + 1, m>>
      /\ r.pool \in [last : Seq(Nat), current : Nat \ {0}, large : Seq(Node)]
  <2>1. PICK full : full = {i \in p.current .. n - 1 : MP!psize - s[i] < ALIGNMENT}
    BY Zenon
  <2>2. PICK c : c = IF full = {} THEN n + 1 ELSE MP!Max(full) + 1
    OBVIOUS
  <2>3. c \in Nat \ {0}
    <3>1. full \in SUBSET (0 .. n)
      BY <2>1, <1>2, PoolParts
    <3>2. CASE full = {}
      BY <3>2, <2>2, <1>2
    <3>3. CASE full # {}
      <4>1. MP!Max(full) \in full
        BY <3>1, <3>3, <1>2, LargestIs, Zenon
      <4>2. PICK k : k = MP!Max(full)
        OBVIOUS
      <4>3. k \in 0 .. n /\ c = k + 1
        BY <4>1, <4>2, <3>1, <3>3, <2>2, Zenon
      <4> QED
        BY <4>3, <1>2
    <3> QED
      BY <3>2, <3>3
  <2>4. r = [pool |-> [p EXCEPT !.last = Append(@, m + size), !.current = c], at |-> <<n + 1, m>>]
    BY <2>1, <2>2, <1>1 DEF MP!NewBlock
  <2>5. PICK q : q = [p EXCEPT !.last = t, !.current = c]
    OBVIOUS
  <2>6. /\ q.last = t /\ q.large = p.large
        /\ q \in [last : Seq(Nat), current : Nat \ {0}, large : Seq(Node)]
    BY <2>3, <2>5, <1>6, Zenon DEF PoolOK
  <2>7. r = [pool |-> q, at |-> <<n + 1, m>>]
    BY <2>4, <2>5, <1>1, <1>4
  <2> QED
    BY <2>6, <2>7
<1>9. PoolOK(r.pool)
  BY <1>2, <1>6, <1>7, <1>8 DEF PoolOK
<1>10. r.at \in Addresses /\ r.at[1] = n + 1 /\ r.at[2] = m /\ Top(n + 1) <= m /\ m + size <= t[n + 1]
  <2>1. Top(n + 1) = POOL_DATA_T
    BY <1>2 DEF Top
  <2> QED
    BY <2>1, <1>2, <1>3, <1>4, <1>5, <1>6, <1>8, SMTT(30) DEF Addresses
<1>11. n <= n + 1 /\ n + 1 \in 1 .. n + 1 /\ ~ (n + 1 <= n) /\ \A j \in 1 .. n : s[j] <= t[j]
  BY <1>2, <1>6
<1> QED
  BY <1>1, <1>3, <1>6, <1>8, <1>9, <1>10, <1>11, Zenon DEF Gets

LEMMA SmallGets ==
  ASSUME NEW p, PoolOK(p), NEW size \in Nat \ {0}, size <= MP!max, NEW r \in MP!Small(p, size)
  PROVE  Gets(p, r, size)
<1>1. PICK fit, i, m : /\ fit = {k \in p.current .. Len(p.last) : MP!FitsIn(p, k, size)}
                       /\ i = MP!Min(fit) /\ m = MP!AlignTo(p.last[i], ALIGNMENT)
  BY Zenon
<1>2. CASE fit # {}
  <2>1. r = [pool |-> [p EXCEPT !.last[i] = m + size], at |-> <<i, m>>]
    BY <1>1, <1>2 DEF MP!Small
  <2>2. fit \in SUBSET Nat /\ i \in fit
    <3>1. fit \in SUBSET Nat
      BY <1>1, PoolParts
    <3> QED
      BY <3>1, <1>1, <1>2, LeastIs
  <2>3. MP!FitsIn(p, i, size) /\ i \in 1 .. Len(p.last)
    BY <2>2, <1>1, PoolParts
  <2> QED
    BY <2>1, <2>3, <1>1, InBlock, Zenon
<1>3. CASE fit = {}
  BY <1>1, <1>3, InNewBlock DEF MP!Small
<1> QED
  BY <1>2, <1>3

-----------------------------------------------------------------------------
(* Things laid into the blocks: inside their block and below its first     *)
(* free offset, none over another.                                         *)
Within(u, n) ==
  /\ u.at \in Addresses /\ u.size \in Nat \ {0} /\ u.at[1] \in 1 .. n
  /\ Top(u.at[1]) <= u.at[2] /\ u.at[2] + u.size <= MP!psize

Apart(U, n) ==
  /\ \A u \in U : Within(u, n)
  /\ \A u, v \in U : u = v \/ ~MP!Overlap(u, v)

Below(U, last) == \A u \in U : u.at[2] + u.size <= last[u.at[1]]

Laid(U, last) == Apart(U, Len(last)) /\ Below(U, last)

LEMMA LaidLess ==
  ASSUME NEW U, NEW V, V \subseteq U, NEW last, Laid(U, last)
  PROVE  Laid(V, last)
BY DEF Laid, Apart, Below

(* What is laid behind the free offset touches nothing. *)
LEMMA LaidGrows ==
  ASSUME NEW U, NEW s \in Seq(Nat), NEW t \in Seq(Nat), Laid(U, s), NEW w,
         Len(s) <= Len(t), \A i \in 1 .. Len(s) : s[i] <= t[i],
         Within(w, Len(t)), w.at[2] + w.size <= t[w.at[1]],
         w.at[1] <= Len(s) => s[w.at[1]] <= w.at[2]
  PROVE  Laid(U \cup {w}, t)
<1>1. PICK n, k : n = Len(s) /\ k = Len(t)
  BY Zenon
<1>2. /\ n \in Nat /\ k \in Nat /\ n <= k /\ s \in [1 .. n -> Nat] /\ t \in [1 .. k -> Nat]
      /\ \A i \in 1 .. n : s[i] <= t[i]
  BY <1>1, LenProperties, Zenon
<1>3. \A u \in U : Within(u, n) /\ u.at[2] + u.size <= s[u.at[1]]
  BY <1>1 DEF Laid, Apart, Below
<1>4. \A u \in U : Within(u, k) /\ u.at[2] + u.size <= t[u.at[1]]
  <2> SUFFICES ASSUME NEW u \in U PROVE Within(u, k) /\ u.at[2] + u.size <= t[u.at[1]]
    OBVIOUS
  <2>1. PICK b, x, y : b = u.at[1] /\ x = u.at[2] /\ y = u.size
    OBVIOUS
  <2>2. b \in 1 .. n /\ x \in Nat /\ y \in Nat \ {0} /\ x + y <= s[b] /\ Within(u, n)
    BY <2>1, <1>3 DEF Within, Addresses
  <2>3. s[b] \in Nat /\ t[b] \in Nat /\ s[b] <= t[b] /\ b \in 1 .. k
    BY <2>2, <1>2, SMTT(30)
  <2>4. x + y <= t[b]
    BY <2>2, <2>3
  <2> QED
    BY <2>1, <2>2, <2>3, <2>4 DEF Within
<1>5. \A u \in U : ~MP!Overlap(u, w) /\ ~MP!Overlap(w, u)
  <2> SUFFICES ASSUME NEW u \in U, u.at[1] = w.at[1] PROVE ~ (w.at[2] < u.at[2] + u.size)
    BY DEF MP!Overlap
  <2>1. PICK b, x, y, z : b = u.at[1] /\ x = u.at[2] /\ y = u.size /\ z = w.at[2]
    OBVIOUS
  <2>2. b \in 1 .. n /\ x \in Nat /\ y \in Nat \ {0} /\ x + y <= s[b] /\ z \in Nat
    BY <2>1, <1>3, Zenon DEF Within, Addresses
  <2>3. s[b] <= z /\ s[b] \in Nat
    BY <2>1, <2>2, <1>1, <1>2
  <2>4. PICK q : q = s[b]
    OBVIOUS
  <2>5. ~ (z < x + y)
    BY <2>2, <2>3, <2>4
  <2> QED
    BY <2>1, <2>5
<1>6. \A u, v \in U : u = v \/ ~MP!Overlap(u, v)
  BY DEF Laid, Apart
<1> QED
  BY <1>1, <1>4, <1>5, <1>6 DEF Laid, Apart, Below

(* What is last in the first block can be given back. *)
EndsFirst(e, s) == e.at[1] = 1 /\ e.at[2] + e.size = s[1]

FirstMoved(s, t, z) ==
  /\ s \in Seq(Nat) /\ t \in Seq(Nat) /\ Len(t) = Len(s) /\ t[1] = z
  /\ \A i \in 1 .. Len(s) : i # 1 => t[i] = s[i]

LEMMA LaidBack ==
  ASSUME NEW U, NEW s, NEW e, e \notin U, Laid(U \cup {e}, s), EndsFirst(e, s),
         NEW t, FirstMoved(s, t, e.at[2])
  PROVE  Laid(U, t) /\ Top(1) <= t[1]
<1>1. PICK n, z, c : n = Len(s) /\ z = e.at[2] /\ c = e.size
  BY Zenon
<1>2. n \in Nat /\ s \in [1 .. n -> Nat] /\ Len(t) = n
  BY <1>1, LenProperties DEF FirstMoved
<1>3. z \in Nat /\ c \in Nat \ {0} /\ z + c = s[1]
  BY <1>1 DEF Laid, Apart, Within, Addresses, EndsFirst
<1>4. t[1] = z /\ \A i \in 1 .. n : i # 1 => t[i] = s[i]
  BY <1>1, Zenon DEF FirstMoved
<1>6. \A u \in U : u.at[2] + u.size <= t[u.at[1]]
  <2> SUFFICES ASSUME NEW u \in U PROVE u.at[2] + u.size <= t[u.at[1]]
    OBVIOUS
  <2>1. PICK b, x, y : b = u.at[1] /\ x = u.at[2] /\ y = u.size
    OBVIOUS
  <2>2. b \in 1 .. n /\ x \in Nat /\ y \in Nat \ {0} /\ x + y <= s[b]
    BY <2>1, <1>1 DEF Laid, Apart, Within, Addresses, Below
  <2>3. CASE b # 1
    BY <2>1, <2>2, <2>3, <1>4
  <2>4. CASE b = 1
    <3>1. ~MP!Overlap(u, e)
      BY DEF Laid, Apart
    <3>2. ~ (x < z + c /\ z < x + y)
      BY <3>1, <2>1, <2>4, <1>1 DEF MP!Overlap, EndsFirst
    <3>3. x + y <= z
      BY <3>2, <2>2, <2>4, <1>3
    <3> QED
      BY <3>3, <2>1, <2>4, <1>4
  <2> QED
    BY <2>3, <2>4
<1>7. Apart(U, n)
  BY <1>1 DEF Laid, Apart
<1>8. Top(1) <= z
  BY <1>1 DEF Laid, Apart, Within, EndsFirst
<1> QED
  BY <1>1, <1>2, <1>4, <1>6, <1>7, <1>8 DEF Laid, Below

(* The first free offset, moved. *)
LEMMA Moved ==
  ASSUME NEW s \in Seq(Nat), Len(s) # 0, NEW z \in Nat, NEW t, t = [s EXCEPT ![1] = z]
  PROVE  FirstMoved(s, t, z)
<1>1. 1 \in 1 .. Len(s)
  BY LenProperties
<1> QED
  BY <1>1, ExceptSeq DEF FirstMoved

(* An allocation in a block is laid into it. *)
LEMMA GetsLays ==
  ASSUME NEW p, PoolOK(p), NEW size \in Nat \ {0}, NEW r, Gets(p, r, size),
         NEW U, Laid(U, p.last), NEW of
  PROVE  Laid(U \cup MP!Held(of, r.at, size), r.pool.last)
<1>1. PICK w, s, t : w = [of |-> of, at |-> r.at, size |-> size] /\ s = p.last /\ t = r.pool.last
  BY Zenon
<1>2. w.at = r.at /\ w.size = size
  BY <1>1
<1>3. /\ PoolOK(r.pool) /\ r.at \in Addresses /\ r.at[1] \in 1 .. Len(t)
      /\ Top(r.at[1]) <= r.at[2] /\ r.at[2] + size <= MP!psize /\ r.at[2] + size <= t[r.at[1]]
      /\ Len(s) <= Len(t) /\ \A i \in 1 .. Len(s) : s[i] <= t[i]
      /\ r.at[1] <= Len(s) => s[r.at[1]] <= r.at[2]
  BY <1>1 DEF Gets
<1>4. s \in Seq(Nat) /\ t \in Seq(Nat) /\ Laid(U, s)
  BY <1>1, <1>3, PoolParts
<1>5. Within(w, Len(t)) /\ w.at[2] + w.size <= t[w.at[1]] /\ (w.at[1] <= Len(s) => s[w.at[1]] <= w.at[2])
  BY <1>2, <1>3 DEF Within
<1>6. Laid(U \cup {w}, t)
  BY <1>3, <1>4, <1>5, LaidGrows, Zenon
<1>7. r.at[1] # 0
  BY <1>3
<1>8. MP!Held(of, r.at, size) = {w}
  BY <1>1, <1>7 DEF MP!Held
<1> QED
  BY <1>1, <1>6, <1>8

-----------------------------------------------------------------------------
(* What lies in the blocks, of the program, the list and the array.        *)
AreasIn(s) == UNION {MP!Held(<<"area", i>>, s[i].at, s[i].size) : i \in DOMAIN s}
NodesIn(l) == UNION {MP!Held(<<"node", Len(l) - i>>, l[i].node, POOL_LARGE_T) : i \in DOMAIN l}
HeadIn(a) == MP!Held(<<"array", 0>>, a.at, ARRAY_T)
EltsIn(a) == MP!Held(<<"elements", 0>>, a.elts, ElementSize * a.nalloc)
ArrayIn(a) == IF a = NULL THEN {} ELSE HeadIn(a) \cup EltsIn(a)

LEMMA InUseIs == MP!InUse = AreasIn(areas) \cup NodesIn(pool.large) \cup ArrayIn(array)
BY DEF MP!InUse, AreasIn, NodesIn, ArrayIn, HeadIn, EltsIn, MP!ElementBytes

LEMMA AreaAdded ==
  ASSUME NEW s \in Seq(Area), NEW a \in Area
  PROVE  AreasIn(Append(s, a)) = AreasIn(s) \cup MP!Held(<<"area", Len(s) + 1>>, a.at, a.size)
<1>1. PICK n, t : n = Len(s) /\ t = Append(s, a)
  BY Zenon
<1>2. n \in Nat /\ DOMAIN s = 1 .. n
  BY <1>1, LenProperties
<1>3. DOMAIN t = 1 .. n + 1 /\ t[n + 1] = a /\ \A i \in 1 .. n : t[i] = s[i]
  <2>1. t \in Seq(Area) /\ Len(t) = n + 1 /\ t[n + 1] = a /\ \A i \in 1 .. n : t[i] = s[i]
    BY <1>1, AppendProperties
  <2> QED
    BY <2>1, LenProperties
<1>4. PICK H : H = [i \in 1 .. n + 1 |-> MP!Held(<<"area", i>>, t[i].at, t[i].size)]
  BY Zenon
<1>5. /\ AreasIn(t) = UNION {H[i] : i \in 1 .. n + 1} /\ AreasIn(s) = UNION {H[i] : i \in 1 .. n}
      /\ H[n + 1] = MP!Held(<<"area", n + 1>>, a.at, a.size)
  <2>1. AreasIn(t) = UNION {H[i] : i \in 1 .. n + 1}
    BY <1>3, <1>4 DEF AreasIn
  <2>2. \A i \in 1 .. n : H[i] = MP!Held(<<"area", i>>, s[i].at, s[i].size)
    <3> SUFFICES ASSUME NEW i \in 1 .. n
                 PROVE  H[i] = MP!Held(<<"area", i>>, s[i].at, s[i].size)
      BY Zenon
    <3>1. i \in 1 .. n + 1 /\ t[i] = s[i]
      BY <1>2, <1>3
    <3> QED
      BY <3>1, <1>4
  <2>3. AreasIn(s) = UNION {H[i] : i \in 1 .. n}
    BY <2>2, <1>2, Zenon DEF AreasIn
  <2>4. n + 1 \in 1 .. n + 1
    BY <1>2
  <2> QED
    BY <2>1, <2>3, <2>4, <1>3, <1>4
<1>6. (1 .. n + 1) = (1 .. n) \cup {n + 1}
  BY <1>2
<1> QED
  BY <1>1, <1>5, <1>6

LEMMA NodeAdded ==
  ASSUME NEW l \in Seq(Node), NEW d \in Node
  PROVE  /\ NodesIn(<<d>> \o l) = NodesIn(l) \cup MP!Held(<<"node", Len(l)>>, d.node, POOL_LARGE_T)
         /\ <<d>> \o l \in Seq(Node) /\ DOMAIN (<<d>> \o l) = 1 .. Len(l) + 1
         /\ (<<d>> \o l)[1] = d /\ \A i \in 1 .. Len(l) : (<<d>> \o l)[i + 1] = l[i]
<1>1. PICK n, s, t : n = Len(l) /\ s = <<d>> /\ t = s \o l
  BY Zenon
<1>2. n \in Nat /\ DOMAIN l = 1 .. n
  BY <1>1, LenProperties
<1>3. s \in Seq(Node) /\ Len(s) = 1 /\ s[1] = d
  BY <1>1
<1>4. /\ t \in Seq(Node) /\ Len(t) = n + 1 /\ t[1] = d /\ \A i \in 1 .. n : t[i + 1] = l[i]
  <2>1. /\ t \in Seq(Node) /\ Len(t) = Len(s) + Len(l)
        /\ \A i \in 1 .. Len(s) + Len(l) : t[i] = IF i <= Len(s) THEN s[i] ELSE l[i - Len(s)]
    BY <1>1, <1>3, ConcatProperties
  <2>2. \A i \in 1 .. n : i + 1 \in 1 .. 1 + n /\ ~ (i + 1 <= 1) /\ (i + 1) - 1 = i
    BY <1>2
  <2>3. 1 \in 1 .. 1 + n /\ 1 <= 1
    BY <1>2
  <2> QED
    BY <2>1, <2>2, <2>3, <1>1, <1>2, <1>3
<1>5. DOMAIN t = 1 .. n + 1
  BY <1>4, LenProperties
<1>6. PICK H : H = [i \in 1 .. n |-> MP!Held(<<"node", n - i>>, l[i].node, POOL_LARGE_T)]
  BY Zenon
<1>7. PICK K : K = [i \in 1 .. n + 1 |-> MP!Held(<<"node", (n + 1) - i>>, t[i].node, POOL_LARGE_T)]
  BY Zenon
<1>8. NodesIn(l) = UNION {H[i] : i \in 1 .. n} /\ NodesIn(t) = UNION {K[i] : i \in 1 .. n + 1}
  <2>1. NodesIn(l) = UNION {H[i] : i \in 1 .. n}
    <3>1. \A i \in 1 .. n : H[i] = MP!Held(<<"node", n - i>>, l[i].node, POOL_LARGE_T)
      BY <1>6
    <3>2. NodesIn(l) = UNION {MP!Held(<<"node", n - i>>, l[i].node, POOL_LARGE_T) : i \in 1 .. n}
      BY <1>1, <1>2 DEF NodesIn
    <3> QED
      BY <3>1, <3>2, Zenon
  <2>2. NodesIn(t) = UNION {K[i] : i \in 1 .. n + 1}
    <3>1. \A i \in 1 .. n + 1 :
            K[i] = MP!Held(<<"node", (n + 1) - i>>, t[i].node, POOL_LARGE_T)
      BY <1>7
    <3>2. NodesIn(t) = UNION {MP!Held(<<"node", (n + 1) - i>>, t[i].node, POOL_LARGE_T) :
                                i \in 1 .. n + 1}
      BY <1>4, <1>5 DEF NodesIn
    <3> QED
      BY <3>1, <3>2, Zenon
  <2> QED
    BY <2>1, <2>2
<1>9. K[1] = MP!Held(<<"node", n>>, d.node, POOL_LARGE_T)
  <2>1. 1 \in 1 .. n + 1 /\ (n + 1) - 1 = n
    BY <1>2
  <2> QED
    BY <2>1, <1>4, <1>7
<1>10. \A i \in 1 .. n : i + 1 \in 1 .. n + 1 /\ K[i + 1] = H[i]
  <2> SUFFICES ASSUME NEW i \in 1 .. n PROVE i + 1 \in 1 .. n + 1 /\ K[i + 1] = H[i]
    OBVIOUS
  <2>1. i + 1 \in 1 .. n + 1 /\ (n + 1) - (i + 1) = n - i
    BY <1>2
  <2> QED
    BY <2>1, <1>4, <1>6, <1>7
<1>11. \A i \in 1 .. n + 1 : i = 1 \/ (i - 1 \in 1 .. n /\ (i - 1) + 1 = i)
  BY <1>2
<1>12. \A x : x \in UNION {K[i] : i \in 1 .. n + 1} <=> x \in K[1] \cup UNION {H[i] : i \in 1 .. n}
  <2>1. ASSUME NEW x, NEW i \in 1 .. n + 1, x \in K[i]
        PROVE  x \in K[1] \cup UNION {H[j] : j \in 1 .. n}
    <3>1. CASE i = 1
      BY <2>1, <3>1
    <3>2. CASE i # 1
      <4>1. PICK j : j = i - 1
        OBVIOUS
      <4>2. j \in 1 .. n /\ x \in H[j]
        BY <4>1, <3>2, <2>1, <1>10, <1>11
      <4> QED
        BY <4>2
    <3> QED
      BY <3>1, <3>2
  <2>2. 1 \in 1 .. n + 1
    BY <1>2
  <2> QED
    BY <2>1, <2>2, <1>10
<1>13. NodesIn(t) = NodesIn(l) \cup MP!Held(<<"node", n>>, d.node, POOL_LARGE_T)
  <2>1. NodesIn(t) = K[1] \cup NodesIn(l)
    BY <1>8, <1>12
  <2> QED
    BY <2>1, <1>9
<1> QED
  BY <1>1, <1>4, <1>5, <1>13, Zenon

(* A reset leaves the nodes where they are. *)
LEMMA NodesStay ==
  ASSUME NEW l \in Seq(Node), NEW k \in Seq(Node), DOMAIN k = DOMAIN l,
         \A i \in DOMAIN l : k[i].node = l[i].node
  PROVE  NodesIn(k) = NodesIn(l)
<1>1. Len(k) = Len(l)
  BY LenProperties
<1>2. \A i \in DOMAIN l : MP!Held(<<"node", Len(k) - i>>, k[i].node, POOL_LARGE_T)
                          = MP!Held(<<"node", Len(l) - i>>, l[i].node, POOL_LARGE_T)
  BY <1>1
<1> QED
  BY <1>2, Zenon DEF NodesIn

-----------------------------------------------------------------------------
(* The list is of what malloc has given out, and none of it twice. *)
GivenIn(l) == {l[i].alloc : i \in DOMAIN l} \ {NULL}

LargesOK(l, h) ==
  /\ h = GivenIn(l)
  /\ \A i, j \in DOMAIN l : l[i].alloc = l[j].alloc => i = j \/ l[i].alloc = NULL

StaleIn(l) == \E i \in DOMAIN l : l[i].alloc = NULL

LEMMA LargeAdded ==
  ASSUME NEW l \in Seq(Node), NEW h, LargesOK(l, h), ~StaleIn(l),
         NEW d \in Node, d.alloc \in Larges \ h
  PROVE  LargesOK(<<d>> \o l, h \cup {d.alloc}) /\ ~StaleIn(<<d>> \o l)
<1>1. PICK n, t : n = Len(l) /\ t = <<d>> \o l
  BY Zenon
<1>2. n \in Nat /\ DOMAIN l = 1 .. n
  BY <1>1, LenProperties
<1>3. DOMAIN t = 1 .. n + 1 /\ t[1] = d /\ \A i \in 1 .. n : t[i + 1] = l[i]
  BY <1>1, NodeAdded
<1>4. d.alloc # NULL /\ \A i \in 1 .. n : l[i].alloc # NULL /\ l[i].alloc # d.alloc
  <2>1. \A i \in 1 .. n : l[i].alloc # NULL
    BY <1>2 DEF StaleIn
  <2>2. \A i \in 1 .. n : l[i].alloc \in h
    BY <2>1, <1>2 DEF LargesOK, GivenIn
  <2> QED
    BY <2>1, <2>2, MPParameters
<1>5. \A i \in 1 .. n + 1 : i = 1 \/ (i - 1 \in 1 .. n /\ (i - 1) + 1 = i)
  BY <1>2
<1>6. \A i \in 1 .. n + 1 : i = 1 \/ (i - 1 \in 1 .. n /\ t[i] = l[i - 1])
  <2> SUFFICES ASSUME NEW i \in 1 .. n + 1, i # 1 PROVE i - 1 \in 1 .. n /\ t[i] = l[i - 1]
    OBVIOUS
  <2>1. PICK j : j = i - 1
    OBVIOUS
  <2>2. j \in 1 .. n /\ j + 1 = i
    BY <2>1, <1>5
  <2>3. t[j + 1] = l[j]
    BY <2>2, <1>3
  <2> QED
    BY <2>1, <2>2, <2>3
<1>7. \A i \in 1 .. n + 1 : t[i].alloc # NULL
  BY <1>3, <1>4, <1>6
<1>8. \A i, j \in 1 .. n + 1 : t[i].alloc = t[j].alloc => i = j
  <2> SUFFICES ASSUME NEW i \in 1 .. n + 1, NEW j \in 1 .. n + 1, t[i].alloc = t[j].alloc
               PROVE  i = j
    OBVIOUS
  <2>1. CASE i = 1 /\ j # 1
    BY <2>1, <1>3, <1>4, <1>6
  <2>2. CASE i # 1 /\ j = 1
    BY <2>2, <1>3, <1>4, <1>6
  <2>3. CASE i # 1 /\ j # 1
    <3>1. i - 1 \in 1 .. n /\ j - 1 \in 1 .. n /\ l[i - 1].alloc = l[j - 1].alloc
      BY <2>3, <1>6
    <3>2. i - 1 = j - 1
      BY <3>1, <1>2, <1>4 DEF LargesOK
    <3> QED
      BY <3>2
  <2> QED
    BY <2>1, <2>2, <2>3
<1>9. GivenIn(t) = h \cup {d.alloc}
  <2>1. \A x : x \in GivenIn(t) <=> \E i \in 1 .. n + 1 : x = t[i].alloc
    BY <1>3, <1>7 DEF GivenIn
  <2>2. \A x : x \in h <=> \E i \in 1 .. n : x = l[i].alloc
    BY <1>2, <1>4 DEF LargesOK, GivenIn
  <2>3. ASSUME NEW x \in h PROVE x \in GivenIn(t)
    <3>1. PICK i \in 1 .. n : x = l[i].alloc
      BY <2>2
    <3>2. i + 1 \in 1 .. n + 1
      BY <1>2
    <3> QED
      BY <3>1, <3>2, <1>3, <2>1
  <2>4. d.alloc \in GivenIn(t)
    <3>1. 1 \in 1 .. n + 1
      BY <1>2
    <3> QED
      BY <3>1, <1>3, <2>1
  <2>5. ASSUME NEW x \in GivenIn(t) PROVE x \in h \cup {d.alloc}
    <3>1. PICK i \in 1 .. n + 1 : x = t[i].alloc
      BY <2>1
    <3> QED
      BY <3>1, <1>3, <1>6, <2>2
  <2> QED
    BY <2>3, <2>4, <2>5
<1> QED
  BY <1>1, <1>3, <1>7, <1>8, <1>9, Zenon DEF LargesOK, StaleIn

(* What pool_alloc does to everything that lies in the blocks.             *)
Allocates(p, r, size, h, U, of) ==
  /\ PoolOK(r.pool) /\ r.at \in Addresses
  /\ Laid((U \cup NodesIn(r.pool.large)) \cup MP!Held(of, r.at, size), r.pool.last)
  /\ LargesOK(r.pool.large, h) /\ ~StaleIn(r.pool.large)

LEMMA LargeAllocates ==
  ASSUME NEW p, PoolOK(p), NEW size, LargesOK(p.large, larges), ~StaleIn(p.large),
         NEW U, Laid(U \cup NodesIn(p.large), p.last), NEW of, NEW r \in MP!Large(p)
  PROVE  Allocates(p, r, size, MP!NewLarge(r.at), U, of)
<1>1. PICK n \in MP!Small(p, POOL_LARGE_T), x \in Larges \ larges :
        r = [pool |-> [n.pool EXCEPT !.large = <<[node |-> n.at, alloc |-> x]>> \o @],
             at |-> <<0, x>>]
  BY DEF MP!Large
<1>2. Gets(p, n, POOL_LARGE_T)
  BY <1>1, EachSize, MPParameters, SmallGets
<1>3. PICK l, d, k : l = p.large /\ d = [node |-> n.at, alloc |-> x] /\ k = <<d>> \o l
  BY Zenon
<1>4. n.at \in Addresses /\ PoolOK(n.pool) /\ n.pool.large = l
  BY <1>2, <1>3 DEF Gets
<1>5. l \in Seq(Node) /\ d \in Node /\ d.node = n.at /\ d.alloc = x
  BY <1>1, <1>3, <1>4, PoolParts, Zenon DEF Node
<1>6. /\ k \in Seq(Node)
      /\ NodesIn(k) = NodesIn(l) \cup MP!Held(<<"node", Len(l)>>, n.at, POOL_LARGE_T)
  BY <1>3, <1>5, NodeAdded
<1>7. /\ r.pool.large = k /\ r.pool.last = n.pool.last /\ r.at = <<0, x>>
      /\ r.pool \in [last : Seq(Nat), current : Nat \ {0}, large : Seq(Node)]
  <2>1. r = [pool |-> [n.pool EXCEPT !.large = k], at |-> <<0, x>>]
    BY <1>1, <1>3, <1>4
  <2>2. n.pool \in [last : Seq(Nat), current : Nat \ {0}, large : Seq(Node)]
    BY <1>4 DEF PoolOK
  <2> QED
    BY <2>1, <2>2, <1>6, Zenon
<1>8. PoolOK(r.pool)
  BY <1>4, <1>7 DEF PoolOK
<1>9. r.at \in Addresses /\ r.at[1] = 0 /\ r.at[2] = x
  BY <1>1, <1>7, MPParameters DEF Addresses
<1>10. MP!Held(of, r.at, size) = {} /\ MP!NewLarge(r.at) = larges \cup {x}
  BY <1>9 DEF MP!Held, MP!NewLarge
<1>11. Laid((U \cup NodesIn(l)) \cup MP!Held(<<"node", Len(l)>>, n.at, POOL_LARGE_T), n.pool.last)
  <2>1. Laid(U \cup NodesIn(l), p.last) /\ POOL_LARGE_T \in Nat \ {0}
    BY <1>3, EachSize
  <2> QED
    BY <2>1, <1>2, GetsLays, Zenon
<1>12. (U \cup NodesIn(l)) \cup MP!Held(<<"node", Len(l)>>, n.at, POOL_LARGE_T) = (U \cup NodesIn(k)) \cup {}
  BY <1>6
<1>13. LargesOK(k, larges \cup {x}) /\ ~StaleIn(k)
  BY <1>1, <1>3, <1>5, LargeAdded, Zenon
<1> QED
  BY <1>7, <1>8, <1>9, <1>10, <1>11, <1>12, <1>13, Zenon DEF Allocates

LEMMA SmallAllocates ==
  ASSUME NEW p, PoolOK(p), NEW size \in Nat \ {0}, size <= MP!max,
         LargesOK(p.large, larges), ~StaleIn(p.large),
         NEW U, Laid(U \cup NodesIn(p.large), p.last), NEW of, NEW r \in MP!Small(p, size)
  PROVE  Allocates(p, r, size, MP!NewLarge(r.at), U, of) /\ MP!NewLarge(r.at) = larges
<1>1. Gets(p, r, size)
  BY SmallGets
<1>2. PoolOK(r.pool) /\ r.at \in Addresses /\ r.pool.large = p.large /\ r.at[1] # 0
  BY <1>1 DEF Gets
<1>3. Laid((U \cup NodesIn(p.large)) \cup MP!Held(of, r.at, size), r.pool.last)
  BY <1>1, GetsLays
<1>4. MP!NewLarge(r.at) = larges
  BY <1>2 DEF MP!NewLarge
<1> QED
  BY <1>2, <1>3, <1>4 DEF Allocates

LEMMA PoolAllocates ==
  ASSUME NEW p, PoolOK(p), NEW size \in Nat \ {0},
         LargesOK(p.large, larges), ~StaleIn(p.large),
         NEW U, Laid(U \cup NodesIn(p.large), p.last), NEW of, NEW r \in MP!PoolAlloc(p, size)
  PROVE  Allocates(p, r, size, MP!NewLarge(r.at), U, of)
BY SmallAllocates, LargeAllocates, Zenon DEF MP!PoolAlloc

-----------------------------------------------------------------------------
(* The inductive invariant.  After a reset that leaves nodes behind, the   *)
(* free offsets no longer protect them; until the pool is destroyed the    *)
(* program then has nothing in it and asks for nothing.                    *)
MPoolInv ==
  /\ PoolOK(pool)
  /\ areas \in Seq(Area)
  /\ array = NULL \/ array \in Array
  /\ Apart(MP!InUse, Len(pool.last))
  /\ MP!ListStale \/ Below(MP!InUse, pool.last)
  /\ MP!ListStale => areas = << >> /\ array = NULL
  /\ LargesOK(pool.large, larges)

LEMMA StaleIs == MP!ListStale <=> StaleIn(pool.large)
BY DEF MP!ListStale, StaleIn

(* While the list is not stale, everything is laid. *)
LEMMA FreshParts ==
  ASSUME MPoolInv, ~MP!ListStale
  PROVE  /\ Laid(AreasIn(areas) \cup NodesIn(pool.large) \cup ArrayIn(array), pool.last)
         /\ ~StaleIn(pool.large)
BY InUseIs, StaleIs DEF MPoolInv, Laid

LEMMA NotStale ==
  ASSUME MPoolInv, ~ReuseAfterLarge, MP!MayUse \/ array # NULL
  PROVE  ~MP!ListStale
BY DEF MPoolInv, MP!MayUse

LEMMA InUseNext ==
  MP!InUse' = AreasIn(areas') \cup NodesIn(pool.large') \cup ArrayIn(array')
BY DEF MP!InUse, AreasIn, NodesIn, ArrayIn, HeadIn, EltsIn, MP!ElementBytes

(* What a step must show. *)
LEMMA InvFrom ==
  ASSUME PoolOK(pool'), areas' \in Seq(Area), array' = NULL \/ array' \in Array,
         NEW U, Laid(U, pool.last'),
         AreasIn(areas') \cup NodesIn(pool.large') \cup ArrayIn(array') \subseteq U,
         LargesOK(pool.large', larges'), ~StaleIn(pool.large')
  PROVE  MPoolInv'
<1>1. PICK V, s : V = MP!InUse' /\ s = pool.last'
  OBVIOUS
<1>2. Laid(V, s)
  BY <1>1, InUseNext, LaidLess
<1>3. Apart(V, Len(s)) /\ Below(V, s)
  BY <1>2 DEF Laid
<1>4. ~MP!ListStale'
  BY DEF MP!ListStale, StaleIn
<1> QED
  BY <1>1, <1>3, <1>4 DEF MPoolInv, PoolOK, Apart, Below, Within, MP!Overlap, LargesOK, GivenIn,
     Top, MP!psize

LEMMA BytesAre ==
  ASSUME NEW k \in Nat \ {0}
  PROVE  /\ ElementSize * k \in Nat \ {0} /\ ElementSize * (k + 1) = ElementSize * k + ElementSize
         /\ ElementSize * (2 * k) = 2 * (ElementSize * k)
<1>1. ElementSize \in Nat \ {0}
  BY EachSize
<1> QED
  BY <1>1

LEMMA AreaKeeps ==
  ASSUME MPoolInv, ~ReuseAfterLarge, MP!Alloc \/ MP!Memalign
  PROVE  MPoolInv'
<1>1. PICK size, r :
        /\ size \in Requests
        /\ MP!MayUse /\ r \in MP!PoolAlloc(pool, size) \cup MP!Large(pool)
        /\ pool' = r.pool /\ areas' = Append(areas, [at |-> r.at, size |-> size])
        /\ larges' = MP!NewLarge(r.at) /\ array' = array
  BY Zenon DEF MP!Alloc, MP!Memalign
<1>2. PICK U, of, a : /\ U = AreasIn(areas) \cup ArrayIn(array) /\ of = <<"area", Len(areas) + 1>>
                      /\ a = [at |-> r.at, size |-> size]
  BY Zenon
<1>3. /\ PoolOK(pool) /\ areas \in Seq(Area) /\ (array = NULL \/ array \in Array)
      /\ LargesOK(pool.large, larges) /\ size \in Nat \ {0}
  BY <1>1, MPParameters DEF MPoolInv
<1>4. ~MP!ListStale
  BY <1>1, NotStale
<1>5. Laid(U \cup NodesIn(pool.large), pool.last) /\ ~StaleIn(pool.large)
  <2>1. U \cup NodesIn(pool.large) = AreasIn(areas) \cup NodesIn(pool.large) \cup ArrayIn(array)
    BY <1>2
  <2> QED
    BY <2>1, <1>4, FreshParts
<1>6. Allocates(pool, r, size, MP!NewLarge(r.at), U, of)
  BY <1>1, <1>3, <1>5, PoolAllocates, LargeAllocates, Zenon
<1>7. PICK V : V = (U \cup NodesIn(r.pool.large)) \cup MP!Held(of, r.at, size)
  BY Zenon
<1>8. /\ PoolOK(pool') /\ r.at \in Addresses /\ Laid(V, pool.last') /\ LargesOK(pool.large', larges')
      /\ ~StaleIn(pool.large')
  BY <1>1, <1>6, <1>7 DEF Allocates
<1>9. a \in Area /\ a.at = r.at /\ a.size = size /\ areas' = Append(areas, a)
  BY <1>1, <1>2, <1>3, <1>8 DEF Area
<1>10. areas' \in Seq(Area) /\ AreasIn(areas') = AreasIn(areas) \cup MP!Held(of, r.at, size)
  BY <1>2, <1>3, <1>9, AreaAdded, AppendProperties, Zenon
<1>11. AreasIn(areas') \cup NodesIn(pool.large') \cup ArrayIn(array') \subseteq V
  BY <1>1, <1>2, <1>7, <1>10, Zenon
<1>12. array' = NULL \/ array' \in Array
  BY <1>1, <1>3
<1> QED
  BY <1>8, <1>10, <1>11, <1>12, InvFrom

LEMMA ArrayCreateKeeps ==
  ASSUME MPoolInv, ~ReuseAfterLarge, MP!ArrayCreate
  PROVE  MPoolInv'
<1>1. PICK a, e :
        /\ a \in MP!Small(pool, ARRAY_T) /\ e \in MP!PoolAlloc(a.pool, ElementSize)
        /\ MP!MayUse /\ pool' = e.pool
        /\ array' = [at |-> a.at, elts |-> e.at, nelts |-> 0, nalloc |-> 1]
        /\ larges' = MP!NewLarge(e.at) /\ areas' = areas
  BY Zenon DEF MP!ArrayCreate
<1>2. /\ PoolOK(pool) /\ areas \in Seq(Area) /\ LargesOK(pool.large, larges)
      /\ ARRAY_T \in Nat \ {0} /\ ARRAY_T <= MP!max /\ ElementSize \in Nat \ {0}
  BY MPParameters, EachSize DEF MPoolInv
<1>3. ~MP!ListStale
  BY <1>1, NotStale
<1>4. PICK U, tag, next : U = AreasIn(areas) /\ tag = <<"array", 0>> /\ next = <<"elements", 0>>
  BY Zenon
<1>5. Laid(U \cup NodesIn(pool.large), pool.last) /\ ~StaleIn(pool.large)
  BY <1>3, <1>4, FreshParts, LaidLess
<1>6. /\ Allocates(pool, a, ARRAY_T, MP!NewLarge(a.at), U, tag)
      /\ MP!NewLarge(a.at) = larges
  BY <1>1, <1>2, <1>5, SmallAllocates, Zenon
<1>7. PICK q, W : q = a.pool /\ W = U \cup MP!Held(tag, a.at, ARRAY_T)
  BY Zenon
<1>8. PoolOK(q) /\ LargesOK(q.large, larges) /\ ~StaleIn(q.large) /\ a.at \in Addresses
  BY <1>6, <1>7 DEF Allocates
<1>9. Laid(W \cup NodesIn(q.large), q.last)
  <2>1. Laid((U \cup NodesIn(q.large)) \cup MP!Held(tag, a.at, ARRAY_T), q.last)
    BY <1>6, <1>7 DEF Allocates
  <2>2. (U \cup NodesIn(q.large)) \cup MP!Held(tag, a.at, ARRAY_T) = W \cup NodesIn(q.large)
    BY <1>7
  <2> QED
    BY <2>1, <2>2
<1>10. Allocates(q, e, ElementSize, MP!NewLarge(e.at), W, next)
  <2>1. e \in MP!PoolAlloc(q, ElementSize)
    BY <1>1, <1>7
  <2> QED
    BY <2>1, <1>2, <1>8, <1>9, PoolAllocates, Zenon
<1>11. PICK V : V = (W \cup NodesIn(e.pool.large)) \cup MP!Held(next, e.at, ElementSize)
  BY Zenon
<1>12. /\ PoolOK(pool') /\ e.at \in Addresses /\ Laid(V, pool.last')
       /\ LargesOK(pool.large', larges') /\ ~StaleIn(pool.large')
  BY <1>1, <1>10, <1>11 DEF Allocates
<1>13. array' \in Array
  BY <1>1, <1>8, <1>12 DEF Array
<1>14. HeadIn(array') = MP!Held(tag, a.at, ARRAY_T) /\ EltsIn(array') = MP!Held(next, e.at, ElementSize)
  <2>1. array'.at = a.at /\ array'.elts = e.at /\ ElementSize * array'.nalloc = ElementSize
    BY <1>1, <1>2
  <2> QED
    BY <2>1, <1>4 DEF HeadIn, EltsIn
<1>15. ArrayIn(array') \subseteq HeadIn(array') \cup EltsIn(array')
  BY DEF ArrayIn
<1>16. AreasIn(areas') \cup NodesIn(pool.large') \cup ArrayIn(array') \subseteq V
  BY <1>1, <1>4, <1>7, <1>11, <1>14, <1>15
<1>17. areas' \in Seq(Area)
  BY <1>1, <1>2
<1> QED
  BY <1>12, <1>13, <1>16, <1>17, InvFrom

LEMMA TagsDiffer ==
  ASSUME NEW s, NEW l, NEW a
  PROVE  /\ \A u \in AreasIn(s) \cup NodesIn(l) : u.of[1] = "area" \/ u.of[1] = "node"
         /\ \A u \in HeadIn(a) : u.of[1] = "array"
<1>1. ASSUME NEW tag, NEW k, NEW at, NEW size, NEW u \in MP!Held(<<tag, k>>, at, size)
      PROVE  u.of[1] = tag
  <2>1. u = [of |-> <<tag, k>>, at |-> at, size |-> size]
    BY <1>1 DEF MP!Held
  <2> QED
    BY <2>1
<1>2. ASSUME NEW u \in AreasIn(s) PROVE u.of[1] = "area"
  <2>1. PICK i \in DOMAIN s : u \in MP!Held(<<"area", i>>, s[i].at, s[i].size)
    BY <1>2, Zenon DEF AreasIn
  <2> QED
    BY <2>1, <1>1
<1>3. ASSUME NEW u \in NodesIn(l) PROVE u.of[1] = "node"
  <2>1. PICK i \in DOMAIN l : u \in MP!Held(<<"node", Len(l) - i>>, l[i].node, POOL_LARGE_T)
    BY <1>3 DEF NodesIn
  <2>2. PICK k : k = Len(l) - i
    OBVIOUS
  <2> QED
    BY <2>1, <2>2, <1>1
<1>4. \A u \in HeadIn(a) : u.of[1] = "array"
  BY <1>1 DEF HeadIn
<1> QED
  BY <1>2, <1>3, <1>4

(* The array's structures, when there is one. *)
LEMMA ArrayParts ==
  ASSUME MPoolInv, ~ReuseAfterLarge, array # NULL
  PROVE  /\ array \in Array /\ array.nalloc \in Nat \ {0} /\ array.elts \in Addresses
         /\ array.at \in Addresses /\ ~MP!ListStale
         /\ PoolOK(pool) /\ areas \in Seq(Area) /\ LargesOK(pool.large, larges)
         /\ ~StaleIn(pool.large)
         /\ Laid(((AreasIn(areas) \cup NodesIn(pool.large)) \cup HeadIn(array)) \cup EltsIn(array),
                 pool.last)
<1>1. ~MP!ListStale
  BY NotStale
<1>2. ArrayIn(array) = HeadIn(array) \cup EltsIn(array)
  BY DEF ArrayIn
<1>3. AreasIn(areas) \cup NodesIn(pool.large) \cup ArrayIn(array)
        = ((AreasIn(areas) \cup NodesIn(pool.large)) \cup HeadIn(array)) \cup EltsIn(array)
  BY <1>2
<1>4. Laid(((AreasIn(areas) \cup NodesIn(pool.large)) \cup HeadIn(array)) \cup EltsIn(array),
           pool.last)
  BY <1>1, <1>3, FreshParts
<1> QED
  BY <1>1, <1>4, FreshParts DEF MPoolInv, Array

(* The structures do not move when an element is taken or all are. *)
LEMMA ElementKeeps ==
  ASSUME MPoolInv, ~ReuseAfterLarge, array # NULL, MP!Push \/ MP!ArrayReset
  PROVE  MPoolInv'
<1>1. PICK k : /\ k \in Nat /\ array' = [array EXCEPT !.nelts = k]
               /\ pool' = pool /\ areas' = areas /\ larges' = larges
  BY ArrayParts DEF MP!Push, MP!ArrayReset, Array
<1>2. /\ array' \in Array /\ array'.at = array.at /\ array'.elts = array.elts
      /\ array'.nalloc = array.nalloc
  BY <1>1, ArrayParts, Zenon DEF Array
<1>3. HeadIn(array') = HeadIn(array) /\ EltsIn(array') = EltsIn(array)
  BY <1>2 DEF HeadIn, EltsIn
<1>4. ArrayIn(array') \subseteq HeadIn(array) \cup EltsIn(array)
  BY <1>3 DEF ArrayIn
<1>5. PICK V : V = ((AreasIn(areas) \cup NodesIn(pool.large)) \cup HeadIn(array)) \cup EltsIn(array)
  BY Zenon
<1>6. AreasIn(areas') \cup NodesIn(pool.large') \cup ArrayIn(array') \subseteq V
  BY <1>1, <1>4, <1>5
<1>7. Laid(V, pool.last')
  BY <1>1, <1>5, ArrayParts
<1> QED
  BY <1>1, <1>2, <1>6, <1>7, ArrayParts, InvFrom

LEMMA PushMoveKeeps ==
  ASSUME MPoolInv, ~ReuseAfterLarge, array # NULL, MP!PushMove
  PROVE  MPoolInv'
<1>1. PICK r \in MP!PoolAlloc(pool, 2 * MP!ElementBytes) :
        /\ pool' = r.pool /\ larges' = MP!NewLarge(r.at) /\ areas' = areas /\ array.nelts = array.nalloc
        /\ array' = [array EXCEPT !.nelts = @ + 1, !.nalloc = 2 * @, !.elts = r.at]
  BY Zenon DEF MP!PushMove
<1>2. PICK n, b : n = array.nalloc /\ b = ElementSize * n
  OBVIOUS
<1>3. n \in Nat \ {0} /\ b \in Nat \ {0} /\ ElementSize * (2 * n) = 2 * b /\ MP!ElementBytes = b
  BY <1>2, BytesAre, ArrayParts, Zenon DEF MP!ElementBytes
<1>4. PICK c : c = 2 * b
  OBVIOUS
<1>5. c \in Nat \ {0} /\ r \in MP!PoolAlloc(pool, c)
  BY <1>1, <1>3, <1>4
<1>6. PICK U, tag : /\ U = AreasIn(areas) \cup HeadIn(array) /\ tag = <<"elements", 0>>
  BY Zenon
<1>7. Laid(U \cup NodesIn(pool.large), pool.last)
  <2>1. U \cup NodesIn(pool.large)
          \subseteq ((AreasIn(areas) \cup NodesIn(pool.large)) \cup HeadIn(array)) \cup EltsIn(array)
    BY <1>6
  <2> QED
    BY <2>1, ArrayParts, LaidLess
<1>8. Allocates(pool, r, c, MP!NewLarge(r.at), U, tag)
  BY <1>5, <1>7, ArrayParts, PoolAllocates, Zenon
<1>9. PICK V : V = (U \cup NodesIn(r.pool.large)) \cup MP!Held(tag, r.at, c)
  BY Zenon
<1>10. /\ PoolOK(pool') /\ r.at \in Addresses /\ Laid(V, pool.last') /\ LargesOK(pool.large', larges')
       /\ ~StaleIn(pool.large')
  BY <1>1, <1>8, <1>9 DEF Allocates
<1>11. /\ array' \in Array /\ array'.at = array.at /\ array'.elts = r.at /\ array'.nalloc = 2 * n
  <2>1. PICK x, y, z : x = array.nelts + 1 /\ y = 2 * n /\ z = r.at
    OBVIOUS
  <2>2. x \in Nat /\ y \in Nat \ {0} /\ z \in Addresses
    BY <2>1, <1>3, <1>10, ArrayParts DEF Array
  <2>3. array' = [array EXCEPT !.nelts = x, !.nalloc = y, !.elts = z]
    BY <2>1, <1>1, <1>2
  <2>4. array \in Array
    BY ArrayParts
  <2> QED
    BY <2>1, <2>2, <2>3, <2>4, Zenon DEF Array
<1>12. HeadIn(array') = HeadIn(array) /\ EltsIn(array') = MP!Held(tag, r.at, c)
  <2>1. ElementSize * array'.nalloc = c
    BY <1>3, <1>4, <1>11
  <2> QED
    BY <2>1, <1>6, <1>11 DEF HeadIn, EltsIn
<1>13. ArrayIn(array') \subseteq HeadIn(array') \cup EltsIn(array')
  BY DEF ArrayIn
<1>14. AreasIn(areas') \cup NodesIn(pool.large') \cup ArrayIn(array') \subseteq V
  BY <1>1, <1>6, <1>9, <1>12, <1>13
<1>15. areas' \in Seq(Area)
  BY <1>1, ArrayParts
<1> QED
  BY <1>10, <1>11, <1>14, <1>15, InvFrom

(* The elements, when they end at the first block's free offset. *)
LEMMA EltsLast ==
  ASSUME MPoolInv, ~ReuseAfterLarge, array # NULL, array.elts[1] = 1,
         array.elts[2] + ElementSize * array.nalloc = pool.last[1],
         NEW U, U = (AreasIn(areas) \cup NodesIn(pool.large)) \cup HeadIn(array),
         NEW t, FirstMoved(pool.last, t, array.elts[2])
  PROVE  Laid(U, t) /\ Top(1) <= t[1]
<1>1. PICK b, e, s : /\ b = ElementSize * array.nalloc /\ s = pool.last
                     /\ e = [of |-> <<"elements", 0>>, at |-> array.elts, size |-> b]
  BY Zenon
<1>2. EltsIn(array) = {e} /\ e.at = array.elts /\ e.size = b /\ e.of[1] = "elements"
  BY <1>1 DEF EltsIn, MP!Held
<1>3. e \notin U
  <2>1. \A u \in U : u.of[1] = "area" \/ u.of[1] = "node" \/ u.of[1] = "array"
    BY TagsDiffer
  <2> QED
    BY <2>1, <1>2
<1>4. Laid(U \cup {e}, s)
  BY <1>1, <1>2, ArrayParts
<1>5. EndsFirst(e, s) /\ FirstMoved(s, t, e.at[2])
  BY <1>1, <1>2 DEF EndsFirst
<1> QED
  BY <1>3, <1>4, <1>5, LaidBack

(* The pool with another first free offset. *)
LEMMA PoolMoved ==
  ASSUME NEW p, PoolOK(p), NEW z \in Nat, Top(1) <= z, NEW q, q = [p EXCEPT !.last[1] = z]
  PROVE  PoolOK(q) /\ q.large = p.large /\ FirstMoved(p.last, q.last, z)
<1>1. PICK s, t : s = p.last /\ t = [s EXCEPT ![1] = z]
  BY Zenon
<1>2. s \in Seq(Nat) /\ Len(s) \in Nat \ {0} /\ \A i \in 1 .. Len(s) : Top(i) <= s[i]
  BY <1>1, PoolParts
<1>3. FirstMoved(s, t, z)
  BY <1>1, <1>2, Moved
<1>4. q = [p EXCEPT !.last = t]
  BY <1>1 DEF PoolOK
<1>5. /\ q.last = t /\ q.large = p.large
      /\ q \in [last : Seq(Nat), current : Nat \ {0}, large : Seq(Node)]
  BY <1>3, <1>4, Zenon DEF PoolOK, FirstMoved
<1>6. \A i \in 1 .. Len(t) : Top(i) <= t[i]
  BY <1>2, <1>3, Zenon DEF FirstMoved
<1>7. Len(t) # 0
  BY <1>2, <1>3 DEF FirstMoved
<1> QED
  BY <1>1, <1>3, <1>5, <1>6, <1>7 DEF PoolOK

LEMMA PushExtendKeeps ==
  ASSUME MPoolInv, ~ReuseAfterLarge, array # NULL, MP!PushExtend
  PROVE  MPoolInv'
<1>1. PICK n, b, s, y, U : /\ n = array.nalloc /\ b = ElementSize * n /\ s = pool.last
                           /\ y = array.elts[2]
                           /\ U = (AreasIn(areas) \cup NodesIn(pool.large)) \cup HeadIn(array)
  BY Zenon
<1>2. /\ array.elts[1] = 1 /\ y + b = s[1] /\ s[1] + ElementSize <= MP!psize
      /\ array.nelts = n
      /\ pool' = [pool EXCEPT !.last[1] = @ + ElementSize] /\ areas' = areas /\ larges' = larges
      /\ array' = [array EXCEPT !.nelts = @ + 1, !.nalloc = @ + 1]
  BY <1>1 DEF MP!PushExtend, MP!MayExtend, MP!EndsFirst, MP!ElementBytes
<1>3. PICK z, c : z = s[1] + ElementSize /\ c = b + ElementSize
  OBVIOUS
<1>4. /\ n \in Nat \ {0} /\ b \in Nat \ {0} /\ c \in Nat \ {0} /\ ElementSize * (n + 1) = c
      /\ ElementSize \in Nat \ {0} /\ y \in Nat /\ s[1] \in Nat /\ Len(s) \in Nat \ {0}
      /\ s \in Seq(Nat) /\ Top(1) <= s[1] /\ Top(1) \in Nat
  <2>1. n \in Nat \ {0} /\ array.elts \in Addresses /\ PoolOK(pool)
    BY <1>1, ArrayParts
  <2>2. b \in Nat \ {0} /\ c \in Nat \ {0} /\ ElementSize * (n + 1) = c /\ ElementSize \in Nat \ {0}
    <3>1. b \in Nat \ {0} /\ ElementSize * (n + 1) = b + ElementSize
      BY <2>1, <1>1, BytesAre
    <3> QED
      BY <3>1, <1>3, EachSize
  <2>3. y \in Nat
    BY <2>1, <1>1 DEF Addresses
  <2>4. s \in Seq(Nat) /\ Len(s) \in Nat \ {0} /\ \A i \in 1 .. Len(s) : s[i] \in Nat /\ Top(i) <= s[i]
    BY <2>1, <1>1, PoolParts
  <2>5. 1 \in 1 .. Len(s) /\ Top(1) \in Nat
    BY <2>4, EachSize DEF Top
  <2> QED
    BY <2>1, <2>2, <2>3, <2>4, <2>5
<1>5. PICK t : t = [s EXCEPT ![1] = y]
  BY Zenon
<1>6. FirstMoved(s, t, y)
  BY <1>4, <1>5, Moved, Zenon
<1>7. Laid(U, t) /\ Top(1) <= y
  <2>1. FirstMoved(pool.last, t, array.elts[2])
    BY <1>1, <1>6
  <2>2. array.elts[2] + ElementSize * array.nalloc = pool.last[1]
    BY <1>1, <1>2
  <2>3. Laid(U, t) /\ Top(1) <= t[1]
    BY <2>1, <2>2, <1>1, <1>2, EltsLast
  <2> QED
    BY <2>3, <1>6 DEF FirstMoved
<1>8. z \in Nat /\ Top(1) <= z /\ y <= z /\ y + c = z /\ z <= MP!psize
  <2>1. PICK f, g : f = s[1] /\ g = Top(1)
    OBVIOUS
  <2>2. y + b = f /\ z = f + ElementSize /\ c = b + ElementSize /\ z <= MP!psize
    BY <2>1, <1>2, <1>3
  <2>3. /\ y \in Nat /\ b \in Nat \ {0} /\ f \in Nat /\ ElementSize \in Nat \ {0} /\ g \in Nat
        /\ g <= f
    BY <2>1, <1>4
  <2> QED
    BY <2>1, <2>2, <2>3
<1>9. PICK q : q = pool'
  OBVIOUS
<1>10. q = [pool EXCEPT !.last[1] = z]
  BY <1>1, <1>2, <1>3, <1>9
<1>11. PICK v : v = q.last
  OBVIOUS
<1>12. PoolOK(q) /\ q.large = pool.large /\ FirstMoved(s, v, z)
  <2>1. PoolOK(pool)
    BY ArrayParts
  <2> QED
    BY <2>1, <1>1, <1>8, <1>10, <1>11, PoolMoved, Zenon
<1>13. /\ v \in Seq(Nat) /\ t \in Seq(Nat) /\ Len(v) = Len(s) /\ Len(t) = Len(s) /\ v[1] = z /\ t[1] = y
       /\ \A i \in 1 .. Len(s) : i # 1 => v[i] = s[i] /\ t[i] = s[i]
  BY <1>6, <1>12 DEF FirstMoved
<1>14. \A i \in 1 .. Len(t) : t[i] <= v[i]
  <2> SUFFICES ASSUME NEW i \in 1 .. Len(s) PROVE t[i] <= v[i]
    BY <1>13
  <2>1. CASE i = 1
    BY <2>1, <1>8, <1>13
  <2>2. CASE i # 1
    <3>1. s[i] \in Nat
      BY <1>4, LenProperties
    <3> QED
      BY <3>1, <2>2, <1>13
  <2> QED
    BY <2>1, <2>2
<1>15. PICK w : w = [of |-> <<"elements", 0>>, at |-> array.elts, size |-> c]
  BY Zenon
<1>16. w.at[1] = 1 /\ w.at[2] = y /\ w.size = c /\ w.at \in Addresses
  BY <1>1, <1>2, <1>15, ArrayParts
<1>17. Within(w, Len(v)) /\ w.at[2] + w.size <= v[w.at[1]] /\ t[w.at[1]] <= w.at[2]
  <2>1. y + c <= MP!psize /\ y + c <= z /\ y <= y
    BY <1>4, <1>8
  <2>2. 1 \in 1 .. Len(v)
    BY <1>4, <1>13
  <2> QED
    BY <2>1, <2>2, <1>4, <1>7, <1>13, <1>16 DEF Within
<1>18. Len(t) <= Len(v)
  BY <1>4, <1>13
<1>19. Laid(U \cup {w}, v)
  BY <1>7, <1>13, <1>14, <1>17, <1>18, LaidGrows, Zenon
<1>20. array' \in Array /\ array'.at = array.at /\ array'.elts = array.elts /\ array'.nalloc = n + 1
  <2>1. PICK x, k : x = array.nelts + 1 /\ k = n + 1
    OBVIOUS
  <2>2. x \in Nat /\ k \in Nat \ {0} /\ array \in Array
    <3>1. array \in Array /\ array.nelts \in Nat /\ n \in Nat \ {0}
      BY <1>4, ArrayParts DEF Array
    <3> QED
      BY <3>1, <2>1
  <2>3. array' = [array EXCEPT !.nelts = x, !.nalloc = k]
    BY <2>1, <1>1, <1>2
  <2> QED
    BY <2>1, <2>2, <2>3, Zenon DEF Array
<1>21. HeadIn(array') = HeadIn(array) /\ EltsIn(array') = {w}
  <2>1. ElementSize * array'.nalloc = c
    BY <1>4, <1>20
  <2>2. MP!Held(<<"elements", 0>>, array.elts, c) = {w}
    BY <1>2, <1>15 DEF MP!Held
  <2> QED
    BY <2>1, <2>2, <1>20 DEF HeadIn, EltsIn
<1>22. ArrayIn(array') \subseteq HeadIn(array') \cup EltsIn(array')
  BY DEF ArrayIn
<1>23. PICK V : V = U \cup {w}
  BY Zenon
<1>24. AreasIn(areas') \cup NodesIn(pool.large') \cup ArrayIn(array') \subseteq V
  BY <1>1, <1>2, <1>9, <1>12, <1>21, <1>22, <1>23
<1>25. PoolOK(pool') /\ Laid(V, pool.last') /\ LargesOK(pool.large', larges') /\ ~StaleIn(pool.large')
  BY <1>2, <1>9, <1>11, <1>12, <1>19, <1>23, ArrayParts
<1>26. areas' \in Seq(Area)
  BY <1>2, ArrayParts
<1> QED
  BY <1>20, <1>24, <1>25, <1>26, InvFrom

(* The array, when it ends at the first block's free offset. *)
LEMMA HeadLast ==
  ASSUME array.at \in Addresses, array.at[1] = 1, NEW s, array.at[2] + ARRAY_T = s[1],
         NEW X, X = AreasIn(areas) \cup NodesIn(pool.large), Laid(X \cup HeadIn(array), s),
         NEW t, FirstMoved(s, t, array.at[2])
  PROVE  Laid(X, t) /\ Top(1) <= t[1]
<1>1. PICK e : e = [of |-> <<"array", 0>>, at |-> array.at, size |-> ARRAY_T]
  BY Zenon
<1>2. HeadIn(array) = {e} /\ e.at = array.at /\ e.size = ARRAY_T /\ e.of[1] = "array"
  BY <1>1 DEF HeadIn, MP!Held
<1>3. e \notin X
  <2>1. \A u \in X : u.of[1] = "area" \/ u.of[1] = "node"
    BY TagsDiffer
  <2> QED
    BY <2>1, <1>2
<1>4. Laid(X \cup {e}, s)
  BY <1>2
<1>5. EndsFirst(e, s) /\ FirstMoved(s, t, e.at[2])
  BY <1>2 DEF EndsFirst
<1> QED
  BY <1>3, <1>4, <1>5, LaidBack

(* The pool without the elements, and without the array. *)
LEMMA EltsBack ==
  ASSUME MPoolInv, ~ReuseAfterLarge, array # NULL,
         NEW p, p = IF MP!EndsFirst(array.elts, MP!ElementBytes)
                    THEN [pool EXCEPT !.last[1] = array.elts[2]] ELSE pool
  PROVE  /\ PoolOK(p) /\ p.large = pool.large
         /\ Laid((AreasIn(areas) \cup NodesIn(pool.large)) \cup HeadIn(array), p.last)
<1>1. PICK U, s, y : /\ U = (AreasIn(areas) \cup NodesIn(pool.large)) \cup HeadIn(array)
                     /\ s = pool.last /\ y = array.elts[2]
  BY Zenon
<1>2. CASE MP!EndsFirst(array.elts, MP!ElementBytes)
  <2>1. array.elts[1] = 1 /\ y + ElementSize * array.nalloc = s[1]
    BY <1>1, <1>2 DEF MP!EndsFirst, MP!ElementBytes
  <2>2. PoolOK(pool) /\ y \in Nat /\ s \in Seq(Nat) /\ Len(s) # 0
    BY <1>1, ArrayParts, PoolParts DEF Addresses
  <2>3. PICK t : t = [s EXCEPT ![1] = y]
    BY Zenon
  <2>4. FirstMoved(s, t, y)
    BY <2>2, <2>3, Moved, Zenon
  <2>5. \A v : FirstMoved(s, v, y) => Laid(U, v) /\ Top(1) <= v[1]
    BY <2>1, <1>1, EltsLast
  <2>6. Top(1) <= y
    BY <2>4, <2>5 DEF FirstMoved
  <2>7. p = [pool EXCEPT !.last[1] = y]
    BY <1>1, <1>2
  <2>8. PoolOK(p) /\ p.large = pool.large /\ FirstMoved(s, p.last, y)
    BY <2>2, <2>6, <2>7, <1>1, PoolMoved, Zenon
  <2> QED
    BY <2>5, <2>8, <1>1, Zenon
<1>3. CASE ~MP!EndsFirst(array.elts, MP!ElementBytes)
  <2>1. U \subseteq ((AreasIn(areas) \cup NodesIn(pool.large)) \cup HeadIn(array)) \cup EltsIn(array)
    BY <1>1
  <2>2. Laid(U, pool.last)
    BY <2>1, ArrayParts, LaidLess
  <2> QED
    BY <2>2, <1>1, <1>3, ArrayParts
<1> QED
  BY <1>2, <1>3

LEMMA ArrayDestroyKeeps ==
  ASSUME MPoolInv, ~ReuseAfterLarge, array # NULL, MP!ArrayDestroy
  PROVE  MPoolInv'
<1>1. PICK p : p = IF MP!EndsFirst(array.elts, MP!ElementBytes)
                   THEN [pool EXCEPT !.last[1] = array.elts[2]] ELSE pool
  BY Zenon
<1>2. /\ pool' = IF array.at[1] = 1 /\ array.at[2] + ARRAY_T = p.last[1]
                 THEN [p EXCEPT !.last[1] = array.at[2]] ELSE p
      /\ array' = NULL /\ areas' = areas /\ larges' = larges
  BY <1>1 DEF MP!ArrayDestroy
<1>3. PICK X, s, y : X = AreasIn(areas) \cup NodesIn(pool.large) /\ s = p.last /\ y = array.at[2]
  BY Zenon
<1>4. PoolOK(p) /\ p.large = pool.large /\ Laid(X \cup HeadIn(array), s)
  BY <1>1, <1>3, EltsBack, Zenon
<1>5. PICK q : q = pool'
  OBVIOUS
<1>6. PoolOK(q) /\ q.large = pool.large /\ Laid(X, q.last)
  <2>1. CASE array.at[1] = 1 /\ array.at[2] + ARRAY_T = p.last[1]
    <3>1. array.at \in Addresses /\ array.at[1] = 1 /\ array.at[2] + ARRAY_T = s[1] /\ y \in Nat
      BY <2>1, <1>3, ArrayParts DEF Addresses
    <3>2. \A t : FirstMoved(s, t, y) => Laid(X, t) /\ Top(1) <= t[1]
      BY <3>1, <1>3, <1>4, HeadLast, Zenon
    <3>3. PICK t : t = [s EXCEPT ![1] = y]
      BY Zenon
    <3>4. s \in Seq(Nat) /\ Len(s) # 0
      BY <1>3, <1>4, PoolParts
    <3>5. FirstMoved(s, t, y)
      BY <3>1, <3>3, <3>4, Moved, Zenon
    <3>6. Top(1) <= y
      BY <3>2, <3>5 DEF FirstMoved
    <3>7. q = [p EXCEPT !.last[1] = y]
      BY <2>1, <1>2, <1>3, <1>5
    <3>8. PoolOK(q) /\ q.large = p.large /\ FirstMoved(s, q.last, y)
      BY <3>1, <3>6, <3>7, <1>3, <1>4, PoolMoved, Zenon
    <3> QED
      BY <3>2, <3>8, <1>4
  <2>2. CASE ~ (array.at[1] = 1 /\ array.at[2] + ARRAY_T = p.last[1])
    <3>1. q = p
      BY <2>2, <1>2, <1>5
    <3>2. Laid(X, s)
      BY <1>4, LaidLess
    <3> QED
      BY <3>1, <3>2, <1>3, <1>4
  <2> QED
    BY <2>1, <2>2
<1>7. ArrayIn(array') = {}
  BY <1>2 DEF ArrayIn
<1>8. AreasIn(areas') \cup NodesIn(pool.large') \cup ArrayIn(array') \subseteq X
  BY <1>2, <1>3, <1>5, <1>6, <1>7
<1>9. PoolOK(pool') /\ Laid(X, pool.last') /\ LargesOK(pool.large', larges') /\ ~StaleIn(pool.large')
  BY <1>2, <1>5, <1>6, ArrayParts
<1>10. areas' \in Seq(Area)
  BY <1>2, ArrayParts
<1> QED
  BY <1>2, <1>8, <1>9, <1>10, InvFrom

(* An empty pool. *)
LEMMA EmptyHolds ==
  LET p == [last |-> <<POOL_T>>, current |-> 1, large |-> << >>]
  IN  /\ PoolOK(p) /\ Laid({}, p.last) /\ LargesOK(p.large, {}) /\ ~StaleIn(p.large)
      /\ AreasIn(<< >>) = {} /\ NodesIn(p.large) = {} /\ ArrayIn(NULL) = {} /\ << >> \in Seq(Area)
<1> DEFINE p == [last |-> <<POOL_T>>, current |-> 1, large |-> << >>]
<1>1. POOL_T \in Nat \ {0}
  BY EachSize
<1>2. /\ <<POOL_T>> \in Seq(Nat) /\ Len(<<POOL_T>>) = 1 /\ (<<POOL_T>>)[1] = POOL_T
      /\ << >> \in Seq(Node) /\ << >> \in Seq(Area) /\ DOMAIN << >> = {}
  BY <1>1
<1>3. p \in [last : Seq(Nat), current : Nat \ {0}, large : Seq(Node)] /\ Len(p.last) # 0
  BY <1>2
<1>4. \A i \in 1 .. Len(p.last) : Top(i) <= p.last[i]
  <2>1. \A i \in 1 .. 1 : i = 1
    OBVIOUS
  <2> QED
    BY <2>1, <1>1, <1>2 DEF Top
<1>5. PoolOK(p)
  BY <1>3, <1>4 DEF PoolOK
<1>6. AreasIn(<< >>) = {} /\ NodesIn(<< >>) = {} /\ ArrayIn(NULL) = {}
  BY <1>2 DEF AreasIn, NodesIn, ArrayIn
<1>7. LargesOK(<< >>, {}) /\ ~StaleIn(<< >>)
  BY <1>2 DEF LargesOK, GivenIn, StaleIn
<1>8. Laid({}, p.last)
  BY DEF Laid, Apart, Below
<1> QED
  BY <1>2, <1>5, <1>6, <1>7, <1>8

LEMMA MPoolInvInit == MP!MPInit => MPoolInv
<1> SUFFICES ASSUME MP!MPInit PROVE MPoolInv
  OBVIOUS
<1>1. PICK p : p = pool
  OBVIOUS
<1>2. /\ p = [last |-> <<POOL_T>>, current |-> 1, large |-> << >>]
      /\ array = NULL /\ areas = << >> /\ larges = {}
  BY <1>1 DEF MP!MPInit
<1>3. /\ PoolOK(p) /\ Laid({}, p.last) /\ LargesOK(p.large, {}) /\ ~StaleIn(p.large)
      /\ AreasIn(<< >>) = {} /\ NodesIn(p.large) = {} /\ ArrayIn(NULL) = {} /\ << >> \in Seq(Area)
  BY <1>2, EmptyHolds
<1>4. MP!InUse = {}
  BY <1>1, <1>2, <1>3, InUseIs, Zenon
<1>5. ~MP!ListStale
  BY <1>1, <1>3, StaleIs
<1> QED
  BY <1>1, <1>2, <1>3, <1>4, <1>5 DEF MPoolInv, Laid

LEMMA GivenAre == ASSUME MPoolInv PROVE larges = MP!Listed
BY DEF MPoolInv, LargesOK, GivenIn, MP!Listed

LEMMA DestroyPoolKeeps ==
  ASSUME MPoolInv, MP!Destroy
  PROVE  MPoolInv'
<1>1. PICK p : p = pool'
  OBVIOUS
<1>2. /\ p = [last |-> <<POOL_T>>, current |-> 1, large |-> << >>]
      /\ array' = NULL /\ areas' = << >> /\ larges' = {}
  BY <1>1, GivenAre DEF MP!Destroy
<1>3. /\ PoolOK(p) /\ Laid({}, p.last) /\ LargesOK(p.large, {}) /\ ~StaleIn(p.large)
      /\ AreasIn(<< >>) = {} /\ NodesIn(p.large) = {} /\ ArrayIn(NULL) = {} /\ << >> \in Seq(Area)
  BY <1>2, EmptyHolds
<1>4. PICK V : V = {}
  BY Zenon
<1>5. AreasIn(areas') \cup NodesIn(pool.large') \cup ArrayIn(array') \subseteq V
  BY <1>1, <1>2, <1>3
<1>6. PoolOK(pool') /\ Laid(V, pool.last') /\ LargesOK(pool.large', larges') /\ ~StaleIn(pool.large')
  BY <1>1, <1>2, <1>3, <1>4, SMTT(30)
<1> QED
  BY <1>2, <1>3, <1>5, <1>6, InvFrom

LEMMA ResetKeeps ==
  ASSUME MPoolInv, MP!Reset
  PROVE  MPoolInv'
<1>1. PICK p, s, l, t, k : /\ p = pool' /\ s = pool.last /\ l = pool.large
                           /\ t = [i \in DOMAIN s |-> POOL_T]
                           /\ k = [i \in DOMAIN l |-> [l[i] EXCEPT !.alloc = NULL]]
  BY Zenon
<1>2. PoolOK(pool) /\ LargesOK(l, larges) /\ Apart(MP!InUse, Len(s))
  BY <1>1 DEF MPoolInv
<1>3. /\ p = [pool EXCEPT !.last = t, !.current = 1, !.large = k]
      /\ areas' = << >> /\ array' = NULL /\ larges' = {}
  BY <1>1, GivenAre DEF MP!Reset
<1>4. PICK n : n = Len(s)
  BY Zenon
<1>5. s \in Seq(Nat) /\ l \in Seq(Node) /\ n \in Nat \ {0} /\ DOMAIN s = 1 .. n
  BY <1>1, <1>2, <1>4, PoolParts
<1>6. t \in [1 .. n -> Nat] /\ \A i \in 1 .. n : t[i] = POOL_T
  BY <1>1, <1>5, EachSize
<1>7. t \in Seq(Nat) /\ Len(t) = n
  <2>1. t \in Seq(Nat) /\ DOMAIN t = 1 .. n
    BY <1>5, <1>6, SeqDef
  <2> QED
    BY <2>1, <1>5, LenProperties
<1>8. /\ NodesIn(k) = NodesIn(l) /\ k \in Seq(Node) /\ DOMAIN k = DOMAIN l
      /\ \A i \in DOMAIN k : k[i].alloc = NULL
  <2>1. PICK m : m = Len(l)
    BY Zenon
  <2>2. m \in Nat /\ DOMAIN l = 1 .. m /\ l \in [1 .. m -> Node]
    BY <2>1, <1>5, LenProperties
  <2>3. \A i \in 1 .. m : k[i] \in Node /\ k[i].node = l[i].node /\ k[i].alloc = NULL
    BY <2>2, <1>1 DEF Node
  <2>4. k \in [1 .. m -> Node] /\ DOMAIN k = 1 .. m
    BY <2>2, <2>3, <1>1, Zenon
  <2>5. k \in Seq(Node)
    BY <2>2, <2>4, SeqDef
  <2> QED
    BY <2>2, <2>3, <2>4, <2>5, <1>5, NodesStay, Zenon
<1>9. /\ p.last = t /\ p.large = k
      /\ p \in [last : Seq(Nat), current : Nat \ {0}, large : Seq(Node)]
  <2>1. pool \in [last : Seq(Nat), current : Nat \ {0}, large : Seq(Node)]
    BY <1>2 DEF PoolOK
  <2>2. p = [last |-> t, current |-> 1, large |-> k]
    BY <2>1, <1>3, Zenon
  <2>3. t \in Seq(Nat) /\ k \in Seq(Node)
    BY <1>7, <1>8
  <2> QED
    BY <2>2, <2>3
<1>10. \A i \in 1 .. n : Top(i) <= POOL_T
  <2>1. POOL_DATA_T <= POOL_T /\ POOL_T \in Nat /\ POOL_DATA_T \in Nat
    <3>1. PICK m : m = MP!AlignTo(POOL_DATA_T, ALIGNMENT)
      OBVIOUS
    <3>2. m \in Nat /\ POOL_DATA_T <= m /\ m <= POOL_T
      BY <3>1, EachSize, Aligned, MPParameters
    <3> QED
      BY <3>2, EachSize
  <2> QED
    BY <2>1 DEF Top
<1>11. PoolOK(p)
  BY <1>5, <1>6, <1>7, <1>9, <1>10 DEF PoolOK
<1>12. AreasIn(<< >>) = {} /\ ArrayIn(NULL) = {} /\ << >> \in Seq(Area)
  BY EmptyHolds
<1>13. MP!InUse' = NodesIn(l)
  <2>1. MP!InUse' = AreasIn(<< >>) \cup NodesIn(k) \cup ArrayIn(NULL)
    BY <1>1, <1>3, <1>9, InUseNext, Zenon
  <2> QED
    BY <2>1, <1>8, <1>12
<1>14. PICK U : U = NodesIn(l)
  OBVIOUS
<1>15. Apart(U, Len(p.last))
  <2>1. U \subseteq MP!InUse
    BY <1>1, <1>14, InUseIs
  <2> QED
    BY <2>1, <1>2, <1>4, <1>7, <1>9 DEF Apart
<1>16. MP!ListStale' \/ Below(U, p.last)
  <2>1. CASE DOMAIN k = {}
    <3>1. U = {}
      BY <2>1, <1>8, <1>14 DEF NodesIn
    <3> QED
      BY <3>1 DEF Below
  <2>2. CASE DOMAIN k # {}
    BY <2>2, <1>1, <1>8, <1>9 DEF MP!ListStale
  <2> QED
    BY <2>1, <2>2
<1>17. LargesOK(k, {})
  BY <1>8 DEF LargesOK, GivenIn
<1>18. MP!InUse' = U
  BY <1>13, <1>14
<1>19. /\ PoolOK(pool') /\ areas' \in Seq(Area) /\ areas' = << >> /\ array' = NULL
       /\ Apart(MP!InUse', Len(pool.last'))
       /\ MP!ListStale' \/ Below(MP!InUse', pool.last')
       /\ LargesOK(pool.large', larges')
  BY <1>1, <1>3, <1>9, <1>11, <1>12, <1>15, <1>16, <1>17, <1>18
<1> QED
  BY <1>19 DEF MPoolInv, PoolOK, Apart, Below, Within, MP!Overlap, LargesOK, GivenIn, Top, MP!psize

LEMMA MPoolInvNext == ~ReuseAfterLarge /\ MPoolInv /\ [MP!MPNext]_pool_vars => MPoolInv'
<1> SUFFICES ASSUME ~ReuseAfterLarge, MPoolInv, [MP!MPNext]_pool_vars PROVE MPoolInv'
  OBVIOUS
<1>1. CASE MP!Alloc \/ MP!Memalign
  BY <1>1, AreaKeeps
<1>2. CASE MP!Reset \/ MP!Destroy
  BY <1>2, ResetKeeps, DestroyPoolKeeps
<1>3. CASE MP!ArrayCreate
  BY <1>3, ArrayCreateKeeps
<1>4. CASE MP!ArrayOps
  BY <1>4, ElementKeeps, PushExtendKeeps, PushMoveKeeps, ArrayDestroyKeeps, SMTT(30) DEF MP!ArrayOps
<1>5. CASE UNCHANGED pool_vars
  <2>1. pool' = pool /\ array' = array /\ areas' = areas /\ larges' = larges
    BY <1>5 DEF pool_vars
  <2>2. MP!InUse' = MP!InUse /\ (MP!ListStale' <=> MP!ListStale)
    BY <2>1 DEF MP!InUse, MP!ListStale, MP!ElementBytes
  <2>3. /\ PoolOK(pool') /\ areas' \in Seq(Area) /\ (array' = NULL \/ array' \in Array)
        /\ Apart(MP!InUse', Len(pool.last'))
        /\ MP!ListStale' \/ Below(MP!InUse', pool.last')
        /\ MP!ListStale' => areas' = << >> /\ array' = NULL
        /\ LargesOK(pool.large', larges')
    BY <2>1, <2>2 DEF MPoolInv
  <2> QED
    BY <2>3 DEF MPoolInv, PoolOK, Apart, Below, Within, MP!Overlap, LargesOK, GivenIn, Top, MP!psize
<1> QED
  BY <1>1, <1>2, <1>3, <1>4, <1>5 DEF MP!MPNext

(* What the pool promises, from its invariant. *)
LEMMA MPoolProves == MPoolInv => AreasApart
<1> SUFFICES ASSUME MPoolInv PROVE AreasApart
  OBVIOUS
<1>1. Apart(MP!InUse, Len(pool.last)) /\ (MP!ListStale \/ Below(MP!InUse, pool.last))
  BY DEF MPoolInv
<1>2. MP!NothingOverlaps
  BY <1>1 DEF MP!NothingOverlaps, Apart, Below, Within, Top
<1>3. MP!LargesFreedOnce
  BY GivenAre DEF MPoolInv, LargesOK, MP!LargesFreedOnce
<1> QED
  BY <1>2, <1>3 DEF AreasApart

(* A program that destroys a pool which it reset with large allocations,   *)
(* and does not use it again: areas the memory pool has given, its own     *)
(* structures and the array never overlap and lie inside their block; a    *)
(* large allocation is freed once (pool_alloc, pool_alloc_large,           *)
(* pool_reset, array_push, array_destroy).                                 *)
THEOREM AreasAreApart == ASSUME ~ReuseAfterLarge PROVE PoolsSpec => []AreasApart
<1>1. PoolsInit => MPoolInv
  BY MPoolInvInit DEF PoolsInit
<1>2. [PoolsNext]_pools_vars => [MP!MPNext]_pool_vars
  BY DEF PoolsNext, HLPools, Pools, Queues, Hashes, Days, pools_vars, pool_vars
<1>3. MPoolInv /\ [PoolsNext]_pools_vars => MPoolInv'
  BY <1>2, MPoolInvNext
<1> QED
  BY <1>1, <1>3, MPoolProves, PTL DEF PoolsSpec


-----------------------------------------------------------------------------
(* The hash table *)

(* A function of places that begins somewhere and goes on by a rule.       *)
LEMMA Iterated ==
  ASSUME NEW V, NEW v0 \in V, NEW step \in [V -> V], NEW N \in Nat
  PROVE  \E f \in [1 .. N + 1 -> V] : f[1] = v0 /\ \A n \in 1 .. N : f[n + 1] = step[f[n]]
<1> DEFINE Runs(n) == \E f \in [1 .. n + 1 -> V] : f[1] = v0 /\ \A k \in 1 .. n : f[k + 1] = step[f[k]]
<1>1. Runs(0)
  <2>1. PICK f : f = [i \in 1 .. 0 + 1 |-> v0]
    BY Zenon
  <2> QED
    BY <2>1
<1>2. ASSUME NEW n \in Nat, Runs(n) PROVE Runs(n + 1)
  <2>1. PICK f \in [1 .. n + 1 -> V] : f[1] = v0 /\ \A k \in 1 .. n : f[k + 1] = step[f[k]]
    BY <1>2
  <2>2. PICK g : g = [i \in 1 .. (n + 1) + 1 |-> IF i <= n + 1 THEN f[i] ELSE step[f[n + 1]]]
    BY Zenon
  <2>3. g \in [1 .. (n + 1) + 1 -> V] /\ g[1] = v0
    BY <2>1, <2>2
  <2>4. ASSUME NEW k \in 1 .. n + 1 PROVE g[k + 1] = step[g[k]]
    <3>1. CASE k \in 1 .. n
      BY <3>1, <2>1, <2>2
    <3>2. CASE k = n + 1
      BY <3>2, <2>1, <2>2
    <3> QED
      BY <3>1, <3>2
  <2> QED
    BY <2>3, <2>4
<1>3. PICK S : S = {n \in Nat : ~Runs(n)}
  BY Zenon
<1>4. ASSUME S # {} PROVE FALSE
  <2>1. PICK m \in S : \A k \in S : m <= k
    BY <1>3, <1>4, LeastOf, Zenon
  <2>2. m \in Nat /\ ~Runs(m)
    BY <2>1, <1>3
  <2>3. m # 0
    BY <2>2, <1>1, Zenon
  <2>4. m - 1 \in Nat /\ (m - 1) + 1 = m /\ ~(m <= m - 1)
    BY <2>2, <2>3
  <2>5. m - 1 \notin S
    BY <2>1, <2>4
  <2>6. Runs(m - 1)
    BY <2>4, <2>5, <1>3
  <2> HIDE DEF Runs
  <2>7. Runs((m - 1) + 1)
    BY <1>2, <2>4, <2>6
  <2> QED
    BY <2>2, <2>4, <2>7
<1>5. Runs(N)
  BY <1>3, <1>4, Zenon
<1> QED
  BY <1>5

LEMMA HTParameters ==
  /\ IsFiniteSet(HashLinks) /\ NULL \notin HashLinks
  /\ Hash \in [HashKeys -> Nat]
  /\ \A sz \in HashSizes : HT!TableSize(sz) \in Nat \ {0} /\ NULL \notin HT!Tables(HT!TableSize(sz))
<1>1. \A S : HT!IsFiniteSet(S) = IsFiniteSet(S)
  BY DEF HT!IsFiniteSet, IsFiniteSet
<1> QED
  BY <1>1, PoolsAssumption DEF HT!HashAssumption

Maybe == HashLinks \cup {NULL}

(* x was joined after y. *)
Newer(x, y) == \E p, q \in 1 .. Len(joined) : p < q /\ joined[p] = x /\ joined[q] = y

Keyed(x)    == HT!BucketOf(link[x].key)
InBucket(i) == {x \in ToSet(joined) : Keyed(x) = i}
Behind(x)   == {y \in InBucket(Keyed(x)) : Newer(x, y)}

(* The newest of some links, or NULL.                                      *)
FirstOf(C, x) == IF C = {} THEN x = NULL ELSE x \in C /\ \A y \in C : y = x \/ Newer(x, y)

(* A bucket points to its newest link, a link to the next older one.       *)
Chained ==
  /\ \A i \in 0 .. table.size - 1 : FirstOf(InBucket(i), table.buckets[i])
  /\ \A x \in ToSet(joined) : FirstOf(Behind(x), link[x].next)

Sized == {HT!TableSize(sz) : sz \in HashSizes}

TableTyped ==
  /\ table # NULL
  /\ table.size \in Nat \ {0} /\ table.size \in Sized /\ table.count \in Int
  /\ table.buckets \in [0 .. table.size - 1 -> Maybe]
  /\ table = [size |-> table.size, buckets |-> table.buckets, count |-> table.count]

HashInv ==
  /\ link \in [HashLinks -> [key : HashKeys \cup {NULL}, next : Maybe]]
  /\ Line(joined, HashLinks)
  /\ given \in {{}, ToSet(joined)}
  /\ table = NULL => joined = << >>
  /\ table # NULL => /\ TableTyped /\ Chained
                     /\ \A x \in ToSet(joined) : link[x].key \in HashKeys
                     /\ table.count = IF given = {} THEN Len(joined) ELSE 0

LEMMA TableMade ==
  ASSUME NEW t, NEW size \in Sized, NEW buckets \in [0 .. size - 1 -> Maybe], NEW count \in Int,
         t = [size |-> size, buckets |-> buckets, count |-> count]
  PROVE  /\ t # NULL /\ size \in Nat \ {0}
         /\ t.size = size /\ t.buckets = buckets /\ t.count = count
         /\ t = [size |-> t.size, buckets |-> t.buckets, count |-> t.count]
<1>1. t \in HT!Tables(size)
  BY DEF HT!Tables, Sized, Maybe
<1>2. size \in Nat \ {0}
  BY HTParameters DEF Sized
<1> QED
  BY <1>1, <1>2, HTParameters DEF Sized

(* Being newer is a strict order of those joined. *)
LEMMA NewerOrders ==
  ASSUME Line(joined, HashLinks)
  PROVE  /\ \A x, y : Newer(x, y) => x \in ToSet(joined) /\ y \in ToSet(joined) /\ x # y /\ ~Newer(y, x)
         /\ \A x, y \in ToSet(joined) : x = y \/ Newer(x, y) \/ Newer(y, x)
         /\ \A x, y, z : Newer(x, y) /\ Newer(y, z) => Newer(x, z)
<1>1. PICK n : n = Len(joined)
  BY Zenon
<1>2. /\ n \in Nat /\ \A i, j \in 1 .. n : joined[i] = joined[j] => i = j
      /\ ToSet(joined) = {joined[i] : i \in 1 .. n}
  BY <1>1, LineParts
<1>3. \A x, y : Newer(x, y) <=> \E p, q \in 1 .. n : p < q /\ joined[p] = x /\ joined[q] = y
  BY <1>1 DEF Newer
<1>4. ASSUME NEW x, NEW y, Newer(x, y)
      PROVE  x \in ToSet(joined) /\ y \in ToSet(joined) /\ x # y /\ ~Newer(y, x)
  <2>1. PICK p \in 1 .. n, q \in 1 .. n : p < q /\ joined[p] = x /\ joined[q] = y
    BY <1>3, <1>4
  <2>2. x # y
    BY <2>1, <1>2
  <2>3. ASSUME NEW r \in 1 .. n, NEW s \in 1 .. n, r < s, joined[r] = y, joined[s] = x PROVE FALSE
    <3>1. r = q /\ s = p
      BY <2>1, <2>3, <1>2
    <3> QED
      BY <3>1, <2>1, <2>3, <1>2
  <2> QED
    BY <2>1, <2>2, <2>3, <1>2, <1>3
<1>5. ASSUME NEW x \in ToSet(joined), NEW y \in ToSet(joined), x # y PROVE Newer(x, y) \/ Newer(y, x)
  <2>1. PICK p \in 1 .. n, q \in 1 .. n : joined[p] = x /\ joined[q] = y
    BY <1>2
  <2>2. p < q \/ q < p
    BY <2>1, <1>2, <1>5
  <2> QED
    BY <2>1, <2>2, <1>3
<1>6. ASSUME NEW x, NEW y, NEW z, Newer(x, y), Newer(y, z) PROVE Newer(x, z)
  <2>1. PICK p \in 1 .. n, q \in 1 .. n : p < q /\ joined[p] = x /\ joined[q] = y
    BY <1>3, <1>6
  <2>2. PICK r \in 1 .. n, s \in 1 .. n : r < s /\ joined[r] = y /\ joined[s] = z
    BY <1>3, <1>6
  <2>3. q = r
    BY <2>1, <2>2, <1>2
  <2>4. p < s
    BY <2>1, <2>2, <2>3, <1>2
  <2> QED
    BY <2>1, <2>2, <2>4, <1>3
<1> QED
  BY <1>4, <1>5, <1>6

(* What a walk over a bucket computes. *)
LEMMA WalkIs ==
  ASSUME HashInv, table # NULL, NEW i \in 0 .. table.size - 1, NEW N, N = Cardinality(HashLinks)
  PROVE  /\ N \in Nat /\ HT!Walk(i) \in [1 .. N + 1 -> Maybe] /\ HT!Walk(i)[1] = table.buckets[i]
         /\ \A n \in 1 .. N : /\ HT!Walk(i)[n] = NULL => HT!Walk(i)[n + 1] = NULL
                              /\ HT!Walk(i)[n] # NULL =>
                                   HT!Walk(i)[n + 1] = link[HT!Walk(i)[n]].next
<1> DEFINE G(h) == [n \in 1 .. N + 1 |->
      IF n = 1 THEN table.buckets[i] ELSE IF h[n - 1] = NULL THEN NULL ELSE link[h[n - 1]].next]
<1>1. N \in Nat
  BY HTParameters, FS_CardinalityType
<1>2. PICK step : step = [v \in Maybe |-> IF v = NULL THEN NULL ELSE link[v].next]
  BY Zenon
<1>3. \A v \in Maybe : v # NULL => link[v].next \in Maybe
  <2> SUFFICES ASSUME NEW v \in Maybe, v # NULL PROVE link[v].next \in Maybe
    OBVIOUS
  <2>1. v \in HashLinks
    BY DEF Maybe
  <2>2. link[v] \in [key : HashKeys \cup {NULL}, next : Maybe]
    BY <2>1 DEF HashInv
  <2> QED
    BY <2>2
<1>4. step \in [Maybe -> Maybe]
  <2>1. NULL \in Maybe
    BY DEF Maybe
  <2> QED
    BY <1>2, <1>3, <2>1
<1>5. table.buckets[i] \in Maybe
  BY DEF HashInv, TableTyped
<1>6. PICK f \in [1 .. N + 1 -> Maybe] : f[1] = table.buckets[i] /\ \A n \in 1 .. N : f[n + 1] = step[f[n]]
  <2>1. PICK M, v0 : M = N /\ v0 = table.buckets[i]
    OBVIOUS
  <2>2. v0 \in Maybe /\ step \in [Maybe -> Maybe] /\ M \in Nat
    BY <2>1, <1>1, <1>4, <1>5
  <2>3. \E f \in [1 .. M + 1 -> Maybe] : f[1] = v0 /\ \A n \in 1 .. M : f[n + 1] = step[f[n]]
    BY <2>2, Iterated, SMTT(30)
  <2> QED
    BY <2>1, <2>3, Zenon
<1>7. f = G(f)
  <2>1. ASSUME NEW n \in 1 .. N + 1 PROVE f[n] = G(f)[n]
    <3>1. CASE n = 1
      BY <3>1, <1>6
    <3>2. CASE n # 1
      <4>1. n - 1 \in 1 .. N /\ (n - 1) + 1 = n
        BY <3>2, <1>1
      <4>2. f[n] = step[f[n - 1]] /\ f[n - 1] \in Maybe
        BY <4>1, <1>6, <1>1
      <4> QED
        BY <4>2, <3>2, <1>2
    <3> QED
      BY <3>1, <3>2
  <2> QED
    BY <2>1, <1>6
<1>8. HT!Walk(i) = G(HT!Walk(i))
  <2>1. HT!Walk(i) = CHOOSE h : h = G(h)
    <3>1. HT!Cardinality(HashLinks) = N
      BY DEF HT!Cardinality, Cardinality
    <3> QED
      BY <3>1 DEF HT!Walk
  <2> HIDE DEF G
  <2> QED
    BY <2>1, <1>7
<1>9. PICK h : h = HT!Walk(i)
  OBVIOUS
<1>10. h = G(h)
  BY <1>8, <1>9, Zenon
<1>11. /\ DOMAIN h = 1 .. N + 1 /\ h[1] = table.buckets[i]
       /\ \A n \in 1 .. N : h[n + 1] = IF h[n] = NULL THEN NULL ELSE link[h[n]].next
  <2>1. \A n \in 1 .. N : n + 1 \in 1 .. N + 1 /\ n + 1 # 1 /\ (n + 1) - 1 = n
    BY <1>1
  <2>2. h[1] = table.buckets[i] /\ DOMAIN h = 1 .. N + 1
    BY <1>10, <1>1
  <2>3. ASSUME NEW n \in 1 .. N PROVE h[n + 1] = IF h[n] = NULL THEN NULL ELSE link[h[n]].next
    <3>1. h[n + 1] = G(h)[n + 1]
      BY <1>10, Zenon
    <3> QED
      BY <3>1, <2>1, SMTT(30)
  <2> QED
    BY <2>2, <2>3
<1> HIDE DEF G
<1>12. h = [n \in 1 .. N + 1 |-> h[n]]
  BY <1>10, <1>11 DEF G
<1>13. PICK D : D = {n \in 1 .. N + 1 : h[n] \notin Maybe}
  BY Zenon
<1>14. ASSUME D # {} PROVE FALSE
  <2>1. D \in SUBSET Nat
    BY <1>1, <1>13
  <2>2. PICK m \in D : \A k \in D : m <= k
    BY <2>1, <1>14, LeastOf
  <2>3. m \in 1 .. N + 1 /\ h[m] \notin Maybe
    BY <2>2, <1>13
  <2>4. m # 1
    BY <2>3, <1>5, <1>11
  <2>5. m - 1 \in 1 .. N /\ m - 1 \in 1 .. N + 1 /\ (m - 1) + 1 = m /\ ~(m <= m - 1)
    BY <2>3, <2>4, <1>1
  <2>6. h[m - 1] \in Maybe
    BY <2>2, <2>5, <1>13
  <2>7. h[m] = IF h[m - 1] = NULL THEN NULL ELSE link[h[m - 1]].next
    BY <2>5, <1>11
  <2> QED
    BY <2>3, <2>6, <2>7, <1>3 DEF Maybe
<1>15. h \in [1 .. N + 1 -> Maybe]
  BY <1>12, <1>13, <1>14
<1> QED
  BY <1>1, <1>9, <1>11, <1>15

(* A walk over a bucket meets the links that were joined to it, from the   *)
(* newest to the oldest, each once, and then NULL.                         *)
LEMMA WalkMeets ==
  ASSUME HashInv, table # NULL, NEW i \in 0 .. table.size - 1, NEW N, N = Cardinality(HashLinks),
         NEW W, W = HT!Walk(i)
  PROVE  /\ N \in Nat /\ W \in [1 .. N + 1 -> Maybe]
         /\ \A n \in 1 .. N + 1 : W[n] # NULL => W[n] \in InBucket(i)
         /\ \A n, m \in 1 .. N + 1 : n < m /\ W[m] # NULL => Newer(W[n], W[m])
         /\ \A x \in InBucket(i) : \E n \in 1 .. N + 1 : W[n] = x
<1>1. /\ N \in Nat /\ W \in [1 .. N + 1 -> Maybe] /\ W[1] = table.buckets[i]
      /\ \A n \in 1 .. N : /\ W[n] = NULL => W[n + 1] = NULL
                           /\ W[n] # NULL => W[n + 1] = link[W[n]].next
  BY WalkIs, SMTT(30)
<1>2. /\ Line(joined, HashLinks)
      /\ FirstOf(InBucket(i), table.buckets[i])
      /\ \A x \in ToSet(joined) : FirstOf(Behind(x), link[x].next)
  BY DEF HashInv, Chained
<1>3. /\ \A x, y : Newer(x, y) => x \in ToSet(joined) /\ y \in ToSet(joined) /\ x # y /\ ~Newer(y, x)
      /\ \A x, y \in ToSet(joined) : x = y \/ Newer(x, y) \/ Newer(y, x)
      /\ \A x, y, z : Newer(x, y) /\ Newer(y, z) => Newer(x, z)
  BY <1>2, NewerOrders
<1>4. PICK L : L = Len(joined)
  BY Zenon
<1>5. /\ L \in Nat /\ \A p, q \in 1 .. L : joined[p] = joined[q] => p = q
      /\ ToSet(joined) = {joined[p] : p \in 1 .. L}
  BY <1>2, <1>4, LineParts
<1>6. L <= N
  <2>1. IsFiniteSet(ToSet(joined)) /\ Cardinality(ToSet(joined)) = L
    BY <1>2, <1>4, LineSize
  <2>2. ToSet(joined) \in SUBSET HashLinks
    BY <1>2, LineParts
  <2> QED
    BY <2>1, <2>2, HTParameters, FS_Subset
<1>7. \A x, y : Newer(x, y) <=> \E p, q \in 1 .. L : p < q /\ joined[p] = x /\ joined[q] = y
  BY <1>4 DEF Newer
<1>8. \A x, y : /\ FirstOf(InBucket(i), x) /\ x # NULL => x \in InBucket(i)
                /\ x \in InBucket(i) /\ FirstOf(Behind(x), y) /\ y # NULL =>
                     y \in InBucket(i) /\ Newer(x, y)
  BY DEF FirstOf, Behind, InBucket
(* Each is newer than the next, and NULL stays NULL. *)
<1>9. ASSUME NEW n \in 1 .. N, W[n + 1] # NULL, W[n] # NULL, W[n] \in InBucket(i)
      PROVE  W[n + 1] \in InBucket(i) /\ Newer(W[n], W[n + 1])
  <2>1. W[n + 1] = link[W[n]].next /\ W[n] \in ToSet(joined)
    BY <1>1, <1>9 DEF InBucket
  <2> QED
    BY <2>1, <1>2, <1>8, <1>9
<1>10. ASSUME NEW n \in 1 .. N + 1, W[n] # NULL PROVE W[n] \in InBucket(i)
  <2>1. PICK D : D = {k \in 1 .. N + 1 : W[k] # NULL /\ W[k] \notin InBucket(i)}
    BY Zenon
  <2>2. ASSUME D # {} PROVE FALSE
    <3>1. D \in SUBSET Nat
      BY <2>1, <1>1
    <3>2. PICK m \in D : \A k \in D : m <= k
      BY <3>1, <2>2, LeastOf
    <3>3. m \in 1 .. N + 1 /\ W[m] # NULL /\ W[m] \notin InBucket(i)
      BY <3>2, <2>1
    <3>4. m # 1
      BY <3>3, <1>1, <1>2, <1>8, Zenon
    <3>5. m - 1 \in 1 .. N /\ m - 1 \in 1 .. N + 1 /\ (m - 1) + 1 = m /\ ~(m <= m - 1)
      BY <3>3, <3>4, <1>1
    <3>6. W[m - 1] # NULL
      BY <3>3, <3>5, <1>1
    <3>7. W[m - 1] \in InBucket(i)
      BY <3>2, <3>5, <3>6, <2>1
    <3> QED
      BY <3>3, <3>5, <3>6, <3>7, <1>9
  <2> QED
    BY <2>1, <2>2, <1>10
<1>11. ASSUME NEW n \in 1 .. N + 1, NEW m \in 1 .. N + 1, n < m, W[m] # NULL
       PROVE  Newer(W[n], W[m])
  <2>1. PICK D : D = {k \in 1 .. N + 1 : n < k /\ W[k] # NULL /\ ~Newer(W[n], W[k])}
    BY Zenon
  <2>2. ASSUME D # {} PROVE FALSE
    <3>1. D \in SUBSET Nat
      BY <2>1, <1>1
    <3>2. PICK k \in D : \A j \in D : k <= j
      BY <3>1, <2>2, LeastOf
    <3>3. k \in 1 .. N + 1 /\ n < k /\ W[k] # NULL /\ ~Newer(W[n], W[k])
      BY <3>2, <2>1
    <3>4. k - 1 \in 1 .. N /\ k - 1 \in 1 .. N + 1 /\ (k - 1) + 1 = k /\ ~(k <= k - 1) /\ n <= k - 1
      BY <3>3, <1>1
    <3>5. W[k - 1] # NULL
      BY <3>3, <3>4, <1>1
    <3>6. W[k - 1] \in InBucket(i)
      BY <3>4, <3>5, <1>10
    <3>7. Newer(W[k - 1], W[k])
      BY <3>3, <3>4, <3>5, <3>6, <1>9
    <3>8. CASE n = k - 1
      BY <3>8, <3>3, <3>7
    <3>9. CASE n < k - 1
      <4>1. Newer(W[n], W[k - 1])
        BY <3>2, <3>4, <3>5, <3>9, <2>1
      <4> QED
        BY <4>1, <3>3, <3>7, <1>3
    <3> QED
      BY <3>4, <3>8, <3>9, <1>1
  <2> QED
    BY <2>1, <2>2, <1>11
(* The n-th is the n-th of those joined at the earliest. *)
<1>12. ASSUME NEW n \in 1 .. N + 1, NEW p \in 1 .. L, W[n] = joined[p] PROVE n <= p
  <2>1. PICK D : D = {k \in 1 .. N + 1 : \E q \in 1 .. L : W[k] = joined[q] /\ q < k}
    BY Zenon
  <2>2. ASSUME D # {} PROVE FALSE
    <3>1. D \in SUBSET Nat
      BY <2>1, <1>1
    <3>2. PICK k \in D : \A j \in D : k <= j
      BY <3>1, <2>2, LeastOf
    <3>3. PICK q \in 1 .. L : k \in 1 .. N + 1 /\ W[k] = joined[q] /\ q < k
      BY <3>2, <2>1
    <3>4. W[k] # NULL
      BY <3>3, <1>2, <1>5, LineParts, HTParameters
    <3>5. k - 1 \in 1 .. N + 1 /\ k - 1 < k /\ ~(k <= k - 1)
      BY <3>3, <1>1, <1>5
    <3>6. Newer(W[k - 1], W[k])
      BY <3>3, <3>4, <3>5, <1>11
    <3>7. PICK r \in 1 .. L, s \in 1 .. L : r < s /\ joined[r] = W[k - 1] /\ joined[s] = W[k]
      BY <3>6, <1>7
    <3>8. s = q
      BY <3>3, <3>7, <1>5
    <3>9. r < k - 1
      BY <3>3, <3>5, <3>7, <3>8, <1>1, <1>5
    <3>10. k - 1 \in D
      BY <3>5, <3>7, <3>9, <2>1
    <3> QED
      BY <3>2, <3>5, <3>10
  <2>3. ~(p < n)
    BY <2>1, <2>2, <1>12
  <2> QED
    BY <2>3, <1>1, <1>5
(* The first that is missed would be pointed to by the one before it. *)
<1>13. ASSUME NEW x \in InBucket(i) PROVE \E n \in 1 .. N + 1 : W[n] = x
  <2> DEFINE Met(y) == \E n \in 1 .. N + 1 : W[n] = y
  <2>1. PICK D : D = {p \in 1 .. L : joined[p] \in InBucket(i) /\ ~Met(joined[p])}
    BY Zenon
  <2>2. ASSUME D # {} PROVE FALSE
    <3>1. D \in SUBSET Nat
      BY <2>1, <1>5
    <3>2. PICK p \in D : \A q \in D : p <= q
      BY <3>1, <2>2, LeastOf
    <3>3. p \in 1 .. L /\ joined[p] \in InBucket(i) /\ ~Met(joined[p])
      BY <3>2, <2>1
    <3>4. PICK Q : Q = {q \in 1 .. L : q < p /\ joined[q] \in InBucket(i)}
      BY Zenon
    <3>5. CASE Q = {}
      <4>1. W[1] \in InBucket(i) /\ (joined[p] = W[1] \/ Newer(W[1], joined[p]))
        BY <3>3, <1>1, <1>2 DEF FirstOf
      <4>2. W[1] # joined[p]
        BY <3>3, <1>1
      <4>3. PICK r \in 1 .. L, s \in 1 .. L : r < s /\ joined[r] = W[1] /\ joined[s] = joined[p]
        BY <4>1, <4>2, <1>7
      <4>4. s = p
        BY <4>3, <3>3, <1>5
      <4>5. r \in Q
        BY <4>1, <4>3, <4>4, <3>4
      <4> QED
        BY <4>5, <3>5
    <3>6. CASE Q # {}
      <4>1. Q \in SUBSET (0 .. L)
        BY <3>4, <1>5
      <4>2. MP!Max(Q) \in Q /\ \A y \in Q : MP!Max(Q) >= y
        BY <4>1, <3>6, <1>5, LargestIs, Zenon
      <4>3. PICK q \in Q : \A y \in Q : q >= y
        BY <4>2
      <4>4. q \in 1 .. L /\ q < p /\ joined[q] \in InBucket(i) /\ ~(p <= q)
        BY <4>3, <3>3, <3>4, <1>5
      <4>5. Met(joined[q])
        BY <4>4, <3>2, <2>1
      <4>6. PICK n \in 1 .. N + 1 : W[n] = joined[q]
        BY <4>5
      <4>7. n <= q
        BY <4>4, <4>6, <1>12
      <4>8. n \in 1 .. N /\ n + 1 \in 1 .. N + 1
        BY <4>4, <4>6, <4>7, <3>3, <1>1, <1>5, <1>6
      <4>9. joined[q] \in ToSet(joined) /\ joined[q] # NULL
        BY <4>4, <1>2, <1>5, LineParts, HTParameters
      <4>10. W[n + 1] = link[joined[q]].next /\ FirstOf(Behind(joined[q]), W[n + 1])
        BY <4>6, <4>8, <4>9, <1>1, <1>2
      <4>11. Newer(joined[q], joined[p])
        BY <4>4, <3>3, <1>7
      <4>12. joined[p] \in Behind(joined[q])
        BY <4>4, <4>11, <3>3 DEF Behind, InBucket
      <4>13. W[n + 1] # joined[p]
        BY <4>8, <3>3
      <4>14. W[n + 1] \in Behind(joined[q]) /\ Newer(W[n + 1], joined[p])
        BY <4>10, <4>12, <4>13 DEF FirstOf
      <4>15. W[n + 1] \in InBucket(i) /\ Newer(joined[q], W[n + 1])
        BY <4>4, <4>14 DEF Behind, InBucket
      <4>16. PICK r \in 1 .. L, s \in 1 .. L : r < s /\ joined[r] = W[n + 1] /\ joined[s] = joined[p]
        BY <4>14, <1>7
      <4>17. PICK u \in 1 .. L, v \in 1 .. L : u < v /\ joined[u] = joined[q] /\ joined[v] = W[n + 1]
        BY <4>15, <1>7
      <4>18. s = p /\ u = q /\ v = r
        BY <4>4, <4>16, <4>17, <3>3, <1>5
      <4>19. r \in Q
        BY <4>15, <4>16, <4>18, <3>4
      <4>20. q >= r /\ q < r
        BY <4>3, <4>17, <4>18, <4>19
      <4> QED
        BY <4>20, <4>4, <4>16, <1>5
    <3> QED
      BY <3>5, <3>6
  <2>3. PICK p \in 1 .. L : joined[p] = x
    BY <1>5 DEF InBucket
  <2> HIDE DEF Met
  <2>4. Met(x)
    BY <2>1, <2>2, <2>3
  <2> QED
    BY <2>4 DEF Met
<1> QED
  BY <1>1, <1>10, <1>11, <1>13

LEMMA HashInvInit == HT!HashInit => HashInv
<1> SUFFICES ASSUME HT!HashInit PROVE HashInv
  OBVIOUS
<1>1. Line(joined, HashLinks) /\ table = NULL /\ joined = << >> /\ given = {}
  BY EmptyLine DEF HT!HashInit
<1>2. link \in [HashLinks -> [key : HashKeys \cup {NULL}, next : Maybe]]
  BY DEF HT!HashInit, Maybe
<1> QED
  BY <1>1, <1>2 DEF HashInv

LEMMA CreateTableKeeps == HashInv /\ HT!HashCreate => HashInv'
<1> SUFFICES ASSUME HashInv, HT!HashCreate PROVE HashInv'
  OBVIOUS
<1>1. PICK sz \in HashSizes :
        LET size == HT!TableSize(sz)
        IN  /\ table = NULL
            /\ table' = [size |-> size, buckets |-> [i \in 0 .. size - 1 |-> NULL], count |-> 0]
            /\ UNCHANGED <<link, joined, given>>
  BY Zenon DEF HT!HashCreate
<1>2. PICK size, b : size = HT!TableSize(sz) /\ b = [i \in 0 .. size - 1 |-> NULL]
  BY Zenon
<1>3. /\ table' = [size |-> size, buckets |-> b, count |-> 0]
      /\ table = NULL /\ link' = link /\ joined' = joined /\ given' = given
  BY <1>1, <1>2
<1>4. size \in Sized /\ b \in [0 .. size - 1 -> Maybe] /\ 0 \in Int
  BY <1>2 DEF Sized, Maybe
<1>5. joined = << >> /\ ToSet(joined) = {} /\ Len(joined) = 0
  BY <1>3, EmptyLine DEF HashInv
<1>6. /\ table' # NULL /\ size \in Nat \ {0} /\ size \in Sized
      /\ table'.size = size /\ table'.count = 0 /\ table'.buckets = b
      /\ table' = [size |-> table'.size, buckets |-> table'.buckets, count |-> table'.count]
  BY <1>3, <1>4, TableMade
<1>7. TableTyped'
  BY <1>4, <1>6 DEF TableTyped, Sized
<1>8. ToSet(joined)' = {} /\ Len(joined') = 0
  BY <1>3, <1>5
<1>9. Chained'
  <2>1. \A i : InBucket(i)' = {}
    BY <1>8 DEF InBucket
  <2>2. \A i \in 0 .. size - 1 : FirstOf(InBucket(i), table.buckets[i])'
    BY <2>1, <1>2, <1>6 DEF FirstOf
  <2> QED
    BY <2>2, <1>6, <1>8 DEF Chained
<1> QED
  BY <1>3, <1>6, <1>7, <1>8, <1>9 DEF HashInv

LEMMA FreeMemoryKeeps == HashInv /\ HT!FreeMemory => HashInv'
<1> SUFFICES ASSUME HashInv, HT!FreeMemory PROVE HashInv'
  OBVIOUS
<1>1. /\ table' = NULL /\ joined' = << >> /\ given' = {}
      /\ link' = [l \in HashLinks |-> [key |-> NULL, next |-> NULL]]
  BY DEF HT!FreeMemory
<1>2. Line(joined', HashLinks)
  BY <1>1, EmptyLine
<1>3. link' \in [HashLinks -> [key : HashKeys \cup {NULL}, next : Maybe]]
  BY <1>1 DEF Maybe
<1> QED
  BY <1>1, <1>2, <1>3 DEF HashInv

(* A bucket, as the code walks it, holds what was joined to it.            *)
LEMMA BucketIs ==
  ASSUME HashInv, table # NULL, NEW i \in 0 .. table.size - 1
  PROVE  HT!Bucket(i) = InBucket(i)
<1>1. PICK N, W : N = Cardinality(HashLinks) /\ W = HT!Walk(i)
  OBVIOUS
<1>2. /\ N \in Nat /\ W \in [1 .. N + 1 -> Maybe]
      /\ \A n \in 1 .. N + 1 : W[n] # NULL => W[n] \in InBucket(i)
      /\ \A x \in InBucket(i) : \E n \in 1 .. N + 1 : W[n] = x
  BY <1>1, WalkMeets
<1>3. HT!Bucket(i) = {W[n] : n \in 1 .. N + 1} \ {NULL}
  BY <1>1, <1>2 DEF HT!Bucket, HT!ToSet
<1>4. NULL \notin InBucket(i)
  <2>1. ToSet(joined) \subseteq HashLinks
    BY LineParts DEF HashInv
  <2> QED
    BY <2>1, HTParameters DEF InBucket
<1> QED
  BY <1>2, <1>3, <1>4

(* Each key has its bucket. *)
LEMMA KeyHasBucket ==
  ASSUME HashInv, table # NULL
  PROVE  /\ \A k \in HashKeys : HT!BucketOf(k) \in 0 .. table.size - 1
         /\ \A x \in ToSet(joined) : Keyed(x) \in 0 .. table.size - 1 /\ x \in InBucket(Keyed(x))
<1>1. table.size \in Nat \ {0} /\ \A x \in ToSet(joined) : link[x].key \in HashKeys
  BY DEF HashInv, TableTyped
<1>2. ASSUME NEW k \in HashKeys PROVE HT!BucketOf(k) \in 0 .. table.size - 1
  <2>1. Hash[k] \in Nat
    BY HTParameters
  <2>2. Hash[k] % table.size \in 0 .. table.size - 1
    BY <2>1, <1>1
  <2> QED
    BY <2>2 DEF HT!BucketOf
<1> QED
  BY <1>1, <1>2 DEF Keyed, InBucket

LEMMA FreeItemsKeeps == HashInv /\ table # NULL /\ HT!FreeItems => HashInv'
<1> SUFFICES ASSUME HashInv, table # NULL, HT!FreeItems PROVE HashInv'
  OBVIOUS
<1>1. PICK all : all = UNION {HT!Bucket(i) : i \in DOMAIN table.buckets}
  BY Zenon
<1>2. /\ given = {} /\ given' = all
      /\ table' = [table EXCEPT !.count = table.count - HT!Cardinality(all)]
      /\ link' = link /\ joined' = joined
  BY <1>1 DEF HT!FreeItems
<1>3. /\ Line(joined, HashLinks) /\ TableTyped /\ Chained
      /\ \A x \in ToSet(joined) : link[x].key \in HashKeys
      /\ table.count = Len(joined)
  BY <1>2 DEF HashInv
<1>4. all = ToSet(joined)
  <2>1. DOMAIN table.buckets = 0 .. table.size - 1
    BY <1>3 DEF TableTyped
  <2>2. all = UNION {InBucket(i) : i \in 0 .. table.size - 1}
    BY <2>1, <1>1, BucketIs
  <2> QED
    BY <2>2, KeyHasBucket DEF InBucket
<1>5. HT!Cardinality(all) = Len(joined) /\ Len(joined) \in Nat
  <2>1. Cardinality(all) = Len(joined)
    BY <1>3, <1>4, LineSize
  <2> QED
    BY <2>1, <1>3, LineParts DEF HT!Cardinality, Cardinality
<1>6. /\ table' # NULL
      /\ table'.size = table.size /\ table'.buckets = table.buckets /\ table'.count = 0
      /\ table' = [size |-> table'.size, buckets |-> table'.buckets, count |-> table'.count]
  <2>1. /\ table.size \in Sized /\ table.buckets \in [0 .. table.size - 1 -> Maybe] /\ 0 \in Int
        /\ table = [size |-> table.size, buckets |-> table.buckets, count |-> table.count]
    BY <1>3 DEF TableTyped
  <2>2. table.count - HT!Cardinality(all) = 0
    BY <1>3, <1>5
  <2>3. table' = [size |-> table.size, buckets |-> table.buckets, count |-> 0]
    BY <1>2, <2>1, <2>2
  <2> QED
    BY <2>1, <2>3, TableMade
<1>7. TableTyped'
  BY <1>3, <1>6 DEF TableTyped, Sized
<1>8. /\ \A i : InBucket(i)' = InBucket(i) /\ \A x : Behind(x)' = Behind(x)
      /\ \A C, x : FirstOf(C, x)' = FirstOf(C, x)
  <2>1. \A x : Keyed(x)' = Keyed(x)
    BY <1>2, <1>6 DEF Keyed, HT!BucketOf
  <2>2. \A x, y : Newer(x, y)' = Newer(x, y)
    BY <1>2 DEF Newer
  <2>3. \A i : InBucket(i)' = InBucket(i)
    BY <2>1, <1>2 DEF InBucket
  <2>4. \A x : Behind(x)' = Behind(x)
    BY <2>1, <2>2, <2>3 DEF Behind
  <2>5. \A C, x : FirstOf(C, x)' = FirstOf(C, x)
    BY <2>2 DEF FirstOf
  <2> QED
    BY <2>3, <2>4, <2>5
<1>9. Chained'
  BY <1>2, <1>3, <1>6, <1>8 DEF Chained
<1>10. given' # {}
  BY <1>1, <1>2 DEF HT!FreeItems
<1>11. link' \in [HashLinks -> [key : HashKeys \cup {NULL}, next : Maybe]] /\ Line(joined', HashLinks)
  BY <1>2, <1>3 DEF HashInv
<1>12. given' \in {{}, ToSet(joined')} /\ (\A x \in ToSet(joined') : link'[x].key \in HashKeys)
  BY <1>2, <1>3, <1>4
<1> QED
  BY <1>6, <1>7, <1>9, <1>10, <1>11, <1>12 DEF HashInv
LEMMA JoinKeeps == HashInv /\ table # NULL /\ HT!Join => HashInv'
<1> SUFFICES ASSUME HashInv, table # NULL, HT!Join PROVE HashInv'
  OBVIOUS
<1>1. PICK l \in HT!Free, k \in HashKeys :
        LET i == HT!BucketOf(k)
        IN  /\ given = {}
            /\ link' = [link EXCEPT ![l] = [key |-> k, next |-> table.buckets[i]]]
            /\ table' = [table EXCEPT !.buckets[i] = l, !.count = table.count + 1]
            /\ joined' = <<l>> \o joined
            /\ UNCHANGED given
  BY Zenon DEF HT!Join
<1>2. PICK i, m : i = HT!BucketOf(k) /\ m = table.buckets[i]
  OBVIOUS
<1>3. /\ given = {} /\ given' = {} /\ joined' = <<l>> \o joined
      /\ link' = [link EXCEPT ![l] = [key |-> k, next |-> m]]
      /\ table' = [table EXCEPT !.buckets[i] = l, !.count = table.count + 1]
  BY <1>1, <1>2
<1>4. /\ Line(joined, HashLinks) /\ Chained
      /\ table.size \in Nat \ {0} /\ table.size \in Sized /\ table.buckets \in [0 .. table.size - 1 -> Maybe]
      /\ table = [size |-> table.size, buckets |-> table.buckets, count |-> table.count]
      /\ \A x \in ToSet(joined) : link[x].key \in HashKeys
      /\ table.count = Len(joined)
      /\ link \in [HashLinks -> [key : HashKeys \cup {NULL}, next : Maybe]]
  BY <1>3 DEF HashInv, TableTyped
<1>5. /\ i \in 0 .. table.size - 1 /\ m \in Maybe
      /\ \A x \in ToSet(joined) : Keyed(x) \in 0 .. table.size - 1
  BY <1>2, <1>4, KeyHasBucket
<1>6. l \in HashLinks /\ l \notin ToSet(joined)
  BY DEF HT!Free, HT!ToSet, ToSet
<1>7. PICK n : n = Len(joined)
  BY Zenon
<1>8. n \in Nat /\ joined \in [1 .. n -> HashLinks] /\ ToSet(joined) = {joined[p] : p \in 1 .. n}
  BY <1>4, <1>7, LineParts
<1>9. /\ Line(joined', HashLinks) /\ Len(joined') = n + 1 /\ ToSet(joined') = {l} \cup ToSet(joined)
      /\ \A p \in 1 .. n + 1 : joined'[p] = IF p = 1 THEN l ELSE joined[p - 1]
  <2>1. Line(<<l>>, HashLinks) /\ Len(<<l>>) = 1 /\ ToSet(<<l>>) = {l}
    <3>1. PICK s : s = <<l>>
      BY Zenon
    <3>2. PICK u : u = 1
      OBVIOUS
    <3>3. /\ u \in Nat /\ s \in [1 .. u -> HashLinks] /\ s[1] = l
          /\ \A p, q \in 1 .. u : s[p] = s[q] => p = q
      BY <3>1, <3>2, <1>6
    <3>4. Line(s, HashLinks) /\ Len(s) = u /\ ToSet(s) = {s[p] : p \in 1 .. u}
      BY <3>3, LineIs
    <3>5. {s[p] : p \in 1 .. u} = {l}
      BY <3>2, <3>3
    <3> QED
      BY <3>1, <3>2, <3>4, <3>5
  <2>2. ToSet(<<l>>) \cap ToSet(joined) = {}
    BY <2>1, <1>6
  <2>3. /\ Line(<<l>> \o joined, HashLinks) /\ Len(<<l>> \o joined) = Len(<<l>>) + Len(joined)
        /\ ToSet(<<l>> \o joined) = ToSet(<<l>>) \cup ToSet(joined)
    BY <2>1, <2>2, <1>4, JoinLines
  <2>4. <<l>> \in Seq(HashLinks) /\ joined \in Seq(HashLinks)
    BY <2>1, <1>4 DEF Line
  <2>5. \A p \in 1 .. Len(<<l>>) + Len(joined) :
          (<<l>> \o joined)[p] = IF p <= Len(<<l>>) THEN <<l>>[p] ELSE joined[p - Len(<<l>>)]
    BY <2>4, ConcatProperties
  <2>6. \A p \in 1 .. n + 1 : joined'[p] = IF p = 1 THEN l ELSE joined[p - 1]
    BY <2>1, <2>5, <1>3, <1>7, <1>8
  <2> QED
    BY <2>1, <2>3, <2>6, <1>3, <1>7, <1>8, SMTT(30)
<1>10. ASSUME NEW x, NEW y
       PROVE  Newer(x, y)' <=> (x = l /\ y \in ToSet(joined)) \/ Newer(x, y)
  <2>1. Newer(x, y)' <=> \E p, q \in 1 .. n + 1 : p < q /\ joined'[p] = x /\ joined'[q] = y
    BY <1>9 DEF Newer
  <2>2. Newer(x, y) <=> \E p, q \in 1 .. n : p < q /\ joined[p] = x /\ joined[q] = y
    BY <1>7 DEF Newer
  <2>3. ASSUME Newer(x, y)' PROVE (x = l /\ y \in ToSet(joined)) \/ Newer(x, y)
    <3>1. PICK p \in 1 .. n + 1, q \in 1 .. n + 1 : p < q /\ joined'[p] = x /\ joined'[q] = y
      BY <2>1, <2>3
    <3>2. q - 1 \in 1 .. n /\ joined[q - 1] = y
      BY <3>1, <1>8, <1>9
    <3>3. CASE p = 1
      BY <3>1, <3>2, <3>3, <1>8, <1>9
    <3>4. CASE p # 1
      <4>1. p - 1 \in 1 .. n /\ p - 1 < q - 1 /\ joined[p - 1] = x
        BY <3>1, <3>4, <1>8, <1>9
      <4> QED
        BY <4>1, <3>2, <2>2
    <3> QED
      BY <3>3, <3>4
  <2>4. ASSUME x = l, y \in ToSet(joined) PROVE Newer(x, y)'
    <3>1. PICK q \in 1 .. n : joined[q] = y
      BY <2>4, <1>8
    <3>2. 1 \in 1 .. n + 1 /\ q + 1 \in 1 .. n + 1 /\ 1 < q + 1 /\ joined'[1] = x /\ joined'[q + 1] = y
      BY <3>1, <2>4, <1>8, <1>9
    <3> QED
      BY <3>2, <2>1
  <2>5. ASSUME Newer(x, y) PROVE Newer(x, y)'
    <3>1. PICK p \in 1 .. n, q \in 1 .. n : p < q /\ joined[p] = x /\ joined[q] = y
      BY <2>2, <2>5
    <3>2. p + 1 \in 1 .. n + 1 /\ q + 1 \in 1 .. n + 1 /\ p + 1 < q + 1
          /\ joined'[p + 1] = x /\ joined'[q + 1] = y
      BY <3>1, <1>8, <1>9
    <3> QED
      BY <3>2, <2>1
  <2> QED
    BY <2>3, <2>4, <2>5
<1>11. PICK b : b = [table.buckets EXCEPT ![i] = l]
  BY Zenon
<1>12. b \in [0 .. table.size - 1 -> Maybe] /\ n + 1 \in Int
  <2>1. l \in Maybe
    BY <1>6 DEF Maybe
  <2>2. b \in [0 .. table.size - 1 -> Maybe]
    BY <2>1, <1>4, <1>11, Zenon
  <2> QED
    BY <2>2, <1>8
<1>13. table' = [size |-> table.size, buckets |-> b, count |-> n + 1]
  BY <1>3, <1>4, <1>7, <1>11, Zenon
<1>14. /\ table' # NULL /\ table'.size = table.size /\ table'.buckets = b /\ table'.count = n + 1
       /\ table' = [size |-> table'.size, buckets |-> table'.buckets, count |-> table'.count]
  BY <1>4, <1>12, <1>13, TableMade
<1>15. TableTyped'
  BY <1>4, <1>12, <1>14 DEF TableTyped, Sized
<1>16. /\ link'[l].key = k /\ link'[l].next = m
       /\ \A x \in ToSet(joined) : link'[x] = link[x]
       /\ link' \in [HashLinks -> [key : HashKeys \cup {NULL}, next : Maybe]]
  <2>1. ToSet(joined) \subseteq HashLinks
    BY <1>4, LineParts
  <2> QED
    BY <2>1, <1>3, <1>4, <1>5, <1>6
<1>17. Keyed(l)' = i /\ \A x \in ToSet(joined) : Keyed(x)' = Keyed(x)
  BY <1>2, <1>14, <1>16 DEF Keyed, HT!BucketOf
<1>18. \A j : InBucket(j)' = IF j = i THEN InBucket(j) \cup {l} ELSE InBucket(j)
  BY <1>9, <1>17 DEF InBucket
<1>19. \A j : InBucket(j) \subseteq ToSet(joined)
  BY DEF InBucket
<1>20. \A x, y : Newer(x, y) => x \in ToSet(joined) /\ y \in ToSet(joined)
  BY <1>4, NewerOrders
<1>21. ASSUME NEW x \in ToSet(joined) PROVE Behind(x)' = Behind(x)
  BY <1>6, <1>10, <1>17, <1>18, <1>19, <1>20 DEF Behind
<1>22. Behind(l)' = InBucket(i)
  BY <1>6, <1>10, <1>17, <1>18, <1>19, <1>20 DEF Behind
<1>23. ASSUME NEW C, NEW x, FirstOf(C, x) PROVE FirstOf(C, x)'
  BY <1>10, <1>23 DEF FirstOf
<1>24. ASSUME NEW j \in 0 .. table.size - 1 PROVE FirstOf(InBucket(j), table.buckets[j])'
  <2>1. CASE j # i
    <3>1. InBucket(j)' = InBucket(j) /\ table'.buckets[j] = table.buckets[j]
      BY <2>1, <1>4, <1>11, <1>14, <1>18
    <3>2. FirstOf(InBucket(j), table.buckets[j])
      BY <1>4 DEF Chained
    <3> QED
      BY <3>1, <3>2, <1>23 DEF FirstOf
  <2>2. CASE j = i
    <3>1. InBucket(j)' = InBucket(i) \cup {l} /\ table'.buckets[j] = l
      BY <2>2, <1>4, <1>11, <1>14, <1>18
    <3>2. \A y \in InBucket(i) : Newer(l, y)'
      BY <1>10, <1>19
    <3> QED
      BY <3>1, <3>2 DEF FirstOf
  <2> QED
    BY <2>1, <2>2
<1>25. ASSUME NEW x \in ToSet(joined') PROVE FirstOf(Behind(x), link[x].next)'
  <2>1. CASE x = l
    <3>1. FirstOf(InBucket(i), m)
      BY <1>2, <1>4, <1>5 DEF Chained
    <3>2. Behind(x)' = InBucket(i) /\ link'[x].next = m
      BY <2>1, <1>16, <1>22
    <3> QED
      BY <3>1, <3>2, <1>23 DEF FirstOf
  <2>2. CASE x \in ToSet(joined)
    <3>1. FirstOf(Behind(x), link[x].next)
      BY <2>2, <1>4 DEF Chained
    <3>2. Behind(x)' = Behind(x) /\ link'[x].next = link[x].next
      BY <2>2, <1>16, <1>21
    <3> QED
      BY <3>1, <3>2, <1>23 DEF FirstOf
  <2> QED
    BY <2>1, <2>2, <1>9
<1>26. Chained'
  BY <1>14, <1>24, <1>25 DEF Chained
<1>27. \A x \in ToSet(joined') : link'[x].key \in HashKeys
  BY <1>4, <1>9, <1>16
<1> QED
  BY <1>3, <1>9, <1>14, <1>15, <1>16, <1>26, <1>27 DEF HashInv

(* The sequence without one of its elements.                               *)
LEMMA RemovedLine ==
  ASSUME NEW S, NEW s, Line(s, S), NEW n \in 1 .. Len(s), NEW L, L = Len(s)
  PROVE  /\ Line(RemoveAt(s, n), S) /\ Len(RemoveAt(s, n)) = L - 1
         /\ ToSet(RemoveAt(s, n)) = ToSet(s) \ {s[n]}
         /\ \A p \in 1 .. L - 1 : RemoveAt(s, n)[p] = IF p < n THEN s[p] ELSE s[p + 1]
<1>1. /\ L \in Nat /\ s \in [1 .. L -> S] /\ (\A i, j \in 1 .. L : s[i] = s[j] => i = j)
      /\ ToSet(s) = {s[i] : i \in 1 .. L} /\ n \in 1 .. L /\ s \in Seq(S)
  BY LineParts DEF Line
<1>2. PICK r : r = RemoveAt(s, n)
  OBVIOUS
<1>3. PICK a, b : a = SubSeq(s, 1, n - 1) /\ b = SubSeq(s, n + 1, Len(s))
  BY Zenon
<1>4. r = a \o b
  BY <1>2, <1>3 DEF RemoveAt
<1>5. a \in Seq(S) /\ Len(a) = n - 1 /\ \A p \in 1 .. n - 1 : a[p] = s[p]
  BY <1>1, <1>3, SubSeqProperties
<1>6. b \in Seq(S) /\ Len(b) = L - n /\ \A p \in 1 .. L - n : b[p] = s[n + p]
  BY <1>1, <1>3, SubSeqProperties
<1>7. r \in Seq(S) /\ Len(r) = L - 1
  <2>1. a \o b \in Seq(S) /\ Len(a \o b) = Len(a) + Len(b)
    BY <1>5, <1>6, ConcatProperties, Zenon
  <2>2. (n - 1) + (L - n) = L - 1
    BY <1>1
  <2> QED
    BY <2>1, <2>2, <1>4, <1>5, <1>6
<1>8. ASSUME NEW p \in 1 .. L - 1 PROVE r[p] = IF p < n THEN s[p] ELSE s[p + 1]
  <2>1. p \in 1 .. Len(a) + Len(b)
    BY <1>1, <1>5, <1>6
  <2>2. r[p] = IF p <= Len(a) THEN a[p] ELSE b[p - Len(a)]
    BY <2>1, <1>4, <1>5, <1>6, ConcatProperties, Zenon
  <2>3. CASE p < n
    <3>1. p \in 1 .. n - 1 /\ p <= Len(a)
      BY <2>3, <1>1, <1>5
    <3> QED
      BY <3>1, <2>2, <2>3, <1>5
  <2>4. CASE ~(p < n)
    <3>1. p - (n - 1) \in 1 .. L - n /\ ~(p <= Len(a)) /\ p - Len(a) = p - (n - 1) /\ n + (p - (n - 1)) = p + 1
      BY <2>4, <1>1, <1>5
    <3>2. b[p - (n - 1)] = s[n + (p - (n - 1))]
      BY <3>1, <1>6, Zenon
    <3> QED
      BY <3>1, <3>2, <2>2, <2>4, Zenon
  <2> QED
    BY <2>3, <2>4
<1>9. L - 1 \in Nat /\ \A p \in 1 .. L - 1 : p \in 1 .. L /\ p + 1 \in 1 .. L /\ p \in Int
  BY <1>1
<1>10. r \in [1 .. L - 1 -> S]
  BY <1>7, LenProperties
<1>11. ASSUME NEW p \in 1 .. L - 1, NEW q \in 1 .. L - 1, r[p] = r[q] PROVE p = q
  <2>1. PICK i, j : i = (IF p < n THEN p ELSE p + 1) /\ j = (IF q < n THEN q ELSE q + 1)
    OBVIOUS
  <2>2. i \in 1 .. L /\ j \in 1 .. L /\ r[p] = s[i] /\ r[q] = s[j]
    BY <2>1, <1>8, <1>9
  <2>3. i = j
    BY <2>2, <1>1, <1>11, Zenon
  <2> QED
    BY <2>1, <2>3, <1>1
<1>12. Line(r, S) /\ ToSet(r) = {r[p] : p \in 1 .. L - 1}
  <2>1. DOMAIN r = 1 .. L - 1
    BY <1>10
  <2>2. IsInjective(r)
    BY <2>1, <1>11 DEF IsInjective
  <2> QED
    BY <2>1, <2>2, <1>7 DEF Line, ToSet
<1>13. ASSUME NEW p \in 1 .. L - 1 PROVE r[p] \in {s[i] : i \in 1 .. L} \ {s[n]}
  <2>1. PICK i : i = IF p < n THEN p ELSE p + 1
    OBVIOUS
  <2>2. i \in 1 .. L /\ r[p] = s[i] /\ i # n
    BY <2>1, <1>1, <1>8, <1>9
  <2>3. s[i] # s[n]
    BY <2>2, <1>1
  <2> QED
    BY <2>2, <2>3
<1>14. ASSUME NEW i \in 1 .. L, i # n PROVE s[i] \in {r[p] : p \in 1 .. L - 1}
  <2>1. CASE i < n
    <3>1. i \in 1 .. L - 1 /\ r[i] = s[i]
      BY <2>1, <1>1, <1>8
    <3> QED
      BY <3>1
  <2>2. CASE ~(i < n)
    <3>1. i - 1 \in 1 .. L - 1 /\ ~(i - 1 < n) /\ (i - 1) + 1 = i
      BY <2>2, <1>1, <1>14
    <3>2. r[i - 1] = s[i]
      BY <3>1, <1>8
    <3> QED
      BY <3>1, <3>2
  <2> QED
    BY <2>1, <2>2
<1>15. ToSet(r) = ToSet(s) \ {s[n]}
  BY <1>1, <1>12, <1>13, <1>14, SMTT(30)
<1> QED
  BY <1>2, <1>7, <1>8, <1>12, <1>15

LEMMA RemoveKeeps == HashInv /\ table # NULL /\ HT!RemoveLink => HashInv'
<1> SUFFICES ASSUME HashInv, table # NULL, HT!RemoveLink PROVE HashInv'
  OBVIOUS
<1>1. PICK n \in DOMAIN joined :
        LET l     == joined[n]
            i     == HT!BucketOf(link[l].key)
            prevs == {m \in HT!Bucket(i) : link[m].next = l}
        IN  /\ given = {} /\ l \in HT!Bucket(i)
            /\ IF table.buckets[i] = l
               THEN /\ table' = [table EXCEPT !.buckets[i] = link[l].next,
                                              !.count = table.count - 1]
                    /\ UNCHANGED link
               ELSE /\ link' = [m \in HashLinks |->
                                  IF m \in prevs THEN [link[m] EXCEPT !.next = link[l].next]
                                  ELSE link[m]]
                    /\ table' = [table EXCEPT !.count = table.count - 1]
            /\ joined' = HT!RemoveAt(joined, n)
            /\ UNCHANGED given
  BY Zenon DEF HT!RemoveLink
<1>2. PICK l, i, v, L : l = joined[n] /\ i = HT!BucketOf(link[l].key) /\ v = link[l].next /\ L = Len(joined)
  BY Zenon
<1>3. PICK prevs : prevs = {m \in HT!Bucket(i) : link[m].next = l}
  BY Zenon
<1>4. /\ given = {} /\ given' = {} /\ joined' = RemoveAt(joined, n)
      /\ IF table.buckets[i] = l
         THEN /\ table' = [table EXCEPT !.buckets[i] = v, !.count = table.count - 1]
              /\ link' = link
         ELSE /\ link' = [m \in HashLinks |->
                            IF m \in prevs THEN [link[m] EXCEPT !.next = v] ELSE link[m]]
              /\ table' = [table EXCEPT !.count = table.count - 1]
  BY <1>1, <1>2, <1>3 DEF HT!RemoveAt, RemoveAt
<1>5. /\ Line(joined, HashLinks) /\ Chained
      /\ table.size \in Nat \ {0} /\ table.size \in Sized /\ table.buckets \in [0 .. table.size - 1 -> Maybe]
      /\ table = [size |-> table.size, buckets |-> table.buckets, count |-> table.count]
      /\ \A x \in ToSet(joined) : link[x].key \in HashKeys
      /\ table.count = L
      /\ link \in [HashLinks -> [key : HashKeys \cup {NULL}, next : Maybe]]
  BY <1>2, <1>4 DEF HashInv, TableTyped
<1>6. /\ L \in Nat /\ n \in 1 .. L /\ ToSet(joined) \subseteq HashLinks
      /\ ToSet(joined) = {joined[p] : p \in 1 .. L}
      /\ \A p, q \in 1 .. L : joined[p] = joined[q] => p = q
  <2>1. Line(joined, HashLinks)
    BY <1>5
  <2>2. /\ Len(joined) \in Nat /\ DOMAIN joined = 1 .. Len(joined)
        /\ \A p, q \in 1 .. Len(joined) : joined[p] = joined[q] => p = q
        /\ ToSet(joined) = {joined[p] : p \in 1 .. Len(joined)} /\ ToSet(joined) \subseteq HashLinks
    BY <2>1, LineParts
  <2> QED
    BY <2>2, <1>2
<1>7. /\ l \in ToSet(joined) /\ l \in HashLinks /\ Keyed(l) = i /\ l \in InBucket(i)
      /\ i \in 0 .. table.size - 1
  BY <1>2, <1>6, KeyHasBucket DEF Keyed
<1>8. v \in Maybe /\ FirstOf(Behind(l), v) /\ v # l
  <2>1. v \in Maybe
    BY <1>2, <1>5, <1>7
  <2>2. FirstOf(Behind(l), v)
    BY <1>2, <1>5, <1>7 DEF Chained
  <2>3. ~Newer(l, l) /\ l # NULL
    BY <1>5, <1>7, NewerOrders, HTParameters
  <2> QED
    BY <2>1, <2>2, <2>3 DEF FirstOf, Behind
<1>9. /\ Line(joined', HashLinks) /\ Len(joined') = L - 1 /\ ToSet(joined') = ToSet(joined) \ {l}
      /\ \A p \in 1 .. L - 1 : joined'[p] = IF p < n THEN joined[p] ELSE joined[p + 1]
  <2>1. n \in 1 .. Len(joined) /\ L = Len(joined) /\ Line(joined, HashLinks)
    BY <1>2, <1>5, <1>6
  <2>2. /\ Line(RemoveAt(joined, n), HashLinks) /\ Len(RemoveAt(joined, n)) = L - 1
        /\ ToSet(RemoveAt(joined, n)) = ToSet(joined) \ {joined[n]}
        /\ \A p \in 1 .. L - 1 : RemoveAt(joined, n)[p] = IF p < n THEN joined[p] ELSE joined[p + 1]
    BY <2>1, RemovedLine, SMTT(60)
  <2> QED
    BY <2>2, <1>2, <1>4
<1>10. ASSUME NEW x, NEW y PROVE Newer(x, y)' <=> Newer(x, y) /\ x # l /\ y # l
  <2>1. Newer(x, y)' <=> \E p, q \in 1 .. L - 1 : p < q /\ joined'[p] = x /\ joined'[q] = y
    BY <1>9 DEF Newer
  <2>2. Newer(x, y) <=> \E p, q \in 1 .. L : p < q /\ joined[p] = x /\ joined[q] = y
    BY <1>2 DEF Newer
  <2>3. ASSUME Newer(x, y)' PROVE Newer(x, y) /\ x # l /\ y # l
    <3>1. PICK p \in 1 .. L - 1, q \in 1 .. L - 1 : p < q /\ joined'[p] = x /\ joined'[q] = y
      BY <2>1, <2>3
    <3>2. PICK r, s : r = (IF p < n THEN p ELSE p + 1) /\ s = (IF q < n THEN q ELSE q + 1)
      OBVIOUS
    <3>3. /\ r \in 1 .. L /\ s \in 1 .. L /\ r < s /\ r # n /\ s # n
          /\ joined[r] = x /\ joined[s] = y
      BY <3>1, <3>2, <1>6, <1>9
    <3>4. x # l /\ y # l
      BY <3>3, <1>2, <1>6
    <3> QED
      BY <3>3, <3>4, <2>2
  <2>4. ASSUME Newer(x, y), x # l, y # l PROVE Newer(x, y)'
    <3>1. PICK p \in 1 .. L, q \in 1 .. L : p < q /\ joined[p] = x /\ joined[q] = y
      BY <2>2, <2>4
    <3>2. p # n /\ q # n
      BY <3>1, <2>4, <1>2
    <3>3. PICK r, s : r = (IF p < n THEN p ELSE p - 1) /\ s = (IF q < n THEN q ELSE q - 1)
      OBVIOUS
    <3>4. /\ r \in 1 .. L - 1 /\ s \in 1 .. L - 1 /\ r < s
          /\ (IF r < n THEN r ELSE r + 1) = p /\ (IF s < n THEN s ELSE s + 1) = q
      BY <3>1, <3>2, <3>3, <1>6
    <3>5. joined'[r] = x /\ joined'[s] = y
      BY <3>1, <3>4, <1>9, Zenon
    <3> QED
      BY <3>4, <3>5, <2>1
  <2> QED
    BY <2>3, <2>4
<1>11. /\ \A x, y : Newer(x, y) => x \in ToSet(joined) /\ y \in ToSet(joined) /\ x # y /\ ~Newer(y, x)
       /\ \A x, y \in ToSet(joined) : x = y \/ Newer(x, y) \/ Newer(y, x)
       /\ \A x, y, z : Newer(x, y) /\ Newer(y, z) => Newer(x, z)
  BY <1>5, NewerOrders
<1>12. /\ table' # NULL /\ table'.size = table.size /\ table'.count = L - 1
       /\ table' = [size |-> table'.size, buckets |-> table'.buckets, count |-> table'.count]
       /\ table'.buckets = IF table.buckets[i] = l THEN [table.buckets EXCEPT ![i] = v]
                                                   ELSE table.buckets
       /\ table'.buckets \in [0 .. table.size - 1 -> Maybe]
  <2>1. PICK b : b = IF table.buckets[i] = l THEN [table.buckets EXCEPT ![i] = v] ELSE table.buckets
    BY Zenon
  <2>2. b \in [0 .. table.size - 1 -> Maybe]
    BY <2>1, <1>5, <1>8, Zenon
  <2>3. L - 1 \in Int
    BY <1>6
  <2>4. table' = [size |-> table.size, buckets |-> b, count |-> L - 1]
    <3>1. CASE table.buckets[i] = l
      BY <3>1, <2>1, <1>4, <1>5, Zenon
    <3>2. CASE table.buckets[i] # l
      BY <3>2, <2>1, <1>4, <1>5
    <3> QED
      BY <3>1, <3>2
  <2> QED
    BY <2>1, <2>2, <2>3, <2>4, <1>5, TableMade, Zenon
<1>13. TableTyped'
  BY <1>5, <1>6, <1>12 DEF TableTyped
<1>14. l # NULL /\ prevs = {m \in InBucket(i) : link[m].next = l}
  BY <1>3, <1>7, BucketIs, HTParameters
<1>15. ASSUME NEW x \in ToSet(joined), link[x].next = l
       PROVE  l \in Behind(x) /\ Newer(x, l) /\ x \in InBucket(i) /\ table.buckets[i] # l
  <2>1. l \in Behind(x)
    BY <1>5, <1>14, <1>15 DEF Chained, FirstOf
  <2>2. Newer(x, l) /\ Keyed(x) = i /\ x \in InBucket(i)
    BY <2>1, <1>7 DEF Behind, InBucket
  <2>3. ~Newer(l, x) /\ x # l
    BY <2>2, <1>11
  <2>4. FirstOf(InBucket(i), table.buckets[i])
    BY <1>5, <1>7 DEF Chained
  <2> QED
    BY <2>1, <2>2, <2>3, <2>4 DEF FirstOf
<1>16. /\ link' \in [HashLinks -> [key : HashKeys \cup {NULL}, next : Maybe]]
       /\ \A x \in HashLinks : link'[x].key = link[x].key
       /\ \A x \in ToSet(joined) : link'[x].next = IF link[x].next = l THEN v ELSE link[x].next
  <2>1. CASE table.buckets[i] = l
    BY <2>1, <1>4, <1>5, <1>15
  <2>2. CASE table.buckets[i] # l
    <3>1. link' = [m \in HashLinks |-> IF m \in prevs THEN [link[m] EXCEPT !.next = v] ELSE link[m]]
      BY <2>2, <1>4
    <3>2. \A x \in HashLinks : link[x] \in [key : HashKeys \cup {NULL}, next : Maybe]
      BY <1>5
    <3>3. \A x \in HashLinks : /\ [link[x] EXCEPT !.next = v] \in [key : HashKeys \cup {NULL}, next : Maybe]
                               /\ [link[x] EXCEPT !.next = v].key = link[x].key
                               /\ [link[x] EXCEPT !.next = v].next = v
      BY <3>2, <1>8
    <3>4. \A x \in ToSet(joined) : x \in HashLinks /\ (x \in prevs <=> link[x].next = l)
      BY <1>6, <1>14, <1>15
    <3> QED
      BY <3>1, <3>2, <3>3, <3>4
  <2> QED
    BY <2>1, <2>2
<1>17. \A x \in ToSet(joined) : Keyed(x)' = Keyed(x)
  BY <1>6, <1>12, <1>16 DEF Keyed, HT!BucketOf
<1>18. \A j : InBucket(j)' = InBucket(j) \ {l}
  BY <1>9, <1>17 DEF InBucket
<1>19. ASSUME NEW x \in ToSet(joined), x # l PROVE Behind(x)' = Behind(x) \ {l}
  <2>1. \A y : y \in Behind(x) <=> y \in InBucket(Keyed(x)) /\ Newer(x, y)
    BY DEF Behind
  <2>2. Behind(x)' = {y \in InBucket(Keyed(x)) \ {l} : Newer(x, y)'}
    BY <1>17, <1>18 DEF Behind
  <2> QED
    BY <2>1, <2>2, <1>10, <1>19
<1>20. ASSUME NEW C, NEW x, FirstOf(C, x), x # l PROVE FirstOf(C \ {l}, x)'
  <2>1. CASE C = {}
    BY <2>1, <1>20 DEF FirstOf
  <2>2. CASE C # {}
    <3>1. x \in C \ {l} /\ \A y \in C \ {l} : y = x \/ Newer(x, y)'
      BY <2>2, <1>10, <1>20 DEF FirstOf
    <3> QED
      BY <3>1 DEF FirstOf
  <2> QED
    BY <2>1, <2>2
<1>27. PICK D : D = Behind(l)
  OBVIOUS
<1>21. l \notin D /\ D \ {l} = D /\ \A x, C : x = v /\ C = D => FirstOf(C, x)'
  <2>1. l \notin D
    BY <1>11, <1>27 DEF Behind
  <2>2. D \ {l} = D
    BY <2>1
  <2>3. FirstOf(D \ {l}, v)'
    BY <1>8, <1>20, <1>27
  <2> QED
    BY <2>1, <2>2, <2>3
<1>22. ASSUME NEW j \in 0 .. table.size - 1 PROVE FirstOf(InBucket(j), table.buckets[j])'
  <2>1. FirstOf(InBucket(j), table.buckets[j])
    BY <1>5 DEF Chained
  <2>2. CASE table.buckets[j] # l
    <3>1. table'.buckets[j] = table.buckets[j]
      <4>1. CASE j = i
        BY <4>1, <2>2, <1>12
      <4>2. CASE j # i
        BY <4>2, <1>5, <1>12
      <4> QED
        BY <4>1, <4>2
    <3>3. PICK C, x : C = InBucket(j) /\ x = table.buckets[j]
      OBVIOUS
    <3>4. FirstOf(C \ {l}, x)'
      BY <3>3, <2>1, <2>2, <1>20
    <3>5. InBucket(j)' = C \ {l} /\ table'.buckets[j] = x
      BY <3>1, <3>3, <1>18
    <3> QED
      BY <3>4, <3>5 DEF FirstOf
  <2>3. CASE table.buckets[j] = l
    <3>1. l \in InBucket(j)
      BY <2>1, <2>3, <1>14 DEF FirstOf
    <3>2. j = i
      BY <3>1, <1>7 DEF InBucket
    <3>3. \A y \in InBucket(i) : y = l \/ Newer(l, y)
      BY <2>1, <2>3, <3>2 DEF FirstOf
    <3>4. InBucket(i) \ {l} = D
      BY <3>3, <1>7, <1>21, <1>27 DEF Behind
    <3>5. InBucket(j)' = D /\ table'.buckets[j] = v
      BY <2>3, <3>2, <3>4, <1>5, <1>7, <1>12, <1>18, Zenon
    <3> QED
      BY <3>5, <1>21
  <2> QED
    BY <2>2, <2>3
<1>23. ASSUME NEW x \in ToSet(joined') PROVE FirstOf(Behind(x), link[x].next)'
  <2>1. x \in ToSet(joined) /\ x # l
    BY <1>9
  <2>2. FirstOf(Behind(x), link[x].next)
    BY <2>1, <1>5 DEF Chained
  <2>3. CASE link[x].next # l
    <3>1. PICK C, y : C = Behind(x) /\ y = link[x].next
      OBVIOUS
    <3>2. FirstOf(C \ {l}, y)'
      BY <3>1, <2>2, <2>3, <1>20
    <3>3. Behind(x)' = C \ {l} /\ link'[x].next = y
      BY <3>1, <2>1, <2>3, <1>16, <1>19
    <3> QED
      BY <3>2, <3>3 DEF FirstOf
  <2>4. CASE link[x].next = l
    <3>1. l \in Behind(x) /\ Newer(x, l) /\ x \in InBucket(i)
      BY <2>1, <2>4, <1>15
    <3>2. Keyed(x) = i
      BY <3>1 DEF InBucket
    <3>3. \A y \in Behind(x) : y = l \/ Newer(l, y)
      BY <2>2, <2>4, <3>1 DEF FirstOf
    <3>4. Behind(x) \ {l} = D
      <4>1. ASSUME NEW y \in Behind(x) \ {l} PROVE y \in D
        BY <4>1, <3>2, <3>3, <1>7, <1>27 DEF Behind
      <4>2. ASSUME NEW y \in D PROVE y \in Behind(x) \ {l}
        BY <4>2, <3>1, <3>2, <1>7, <1>11, <1>21, <1>27 DEF Behind
      <4> QED
        BY <4>1, <4>2
    <3>5. Behind(x)' = D /\ link'[x].next = v
      BY <3>4, <2>1, <2>4, <1>16, <1>19, Zenon
    <3> QED
      BY <3>5, <1>21
  <2> QED
    BY <2>3, <2>4
<1>24. Chained'
  BY <1>12, <1>22, <1>23 DEF Chained
<1>25. \A x \in ToSet(joined') : link'[x].key \in HashKeys
  BY <1>5, <1>6, <1>9, <1>16
<1>26. given' \in {{}, ToSet(joined')} /\ given' = {}
  BY <1>4
<1> QED
  BY <1>9, <1>12, <1>13, <1>16, <1>24, <1>25, <1>26 DEF HashInv

LEMMA HashInvNext == HashInv /\ [HT!HashNext]_hash_vars => HashInv'
<1> SUFFICES ASSUME HashInv, [HT!HashNext]_hash_vars PROVE HashInv'
  OBVIOUS
<1>1. CASE UNCHANGED hash_vars
  <2>1. table' = table /\ link' = link /\ joined' = joined /\ given' = given
    BY <1>1 DEF hash_vars
  <2>2. /\ \A i : InBucket(i)' = InBucket(i) /\ \A x : Behind(x)' = Behind(x)
        /\ \A C, x : FirstOf(C, x)' = FirstOf(C, x)
    BY <2>1 DEF InBucket, Behind, FirstOf, Newer, Keyed, HT!BucketOf
  <2>3. Chained' = Chained /\ TableTyped' = TableTyped
    BY <2>1, <2>2 DEF Chained, TableTyped
  <2> QED
    BY <2>1, <2>3 DEF HashInv
<1> QED
  BY <1>1, CreateTableKeeps, JoinKeeps, RemoveKeeps, FreeItemsKeeps, FreeMemoryKeeps DEF HT!HashNext

LEMMA BucketsProved == HashInv => HT!BucketsExact
<1> SUFFICES ASSUME HashInv, table # NULL PROVE HT!BucketsExact
  BY DEF HT!BucketsExact
<1>1. /\ Line(joined, HashLinks) /\ given \in {{}, ToSet(joined)} /\ TableTyped
      /\ table.count = IF given = {} THEN Len(joined) ELSE 0
  BY DEF HashInv
<1>2. PICK N : N = Cardinality(HashLinks)
  OBVIOUS
<1>3. DOMAIN table.buckets = 0 .. table.size - 1 /\ \A S : HT!Cardinality(S) = Cardinality(S)
      /\ HT!ToSet(joined) = ToSet(joined)
  BY <1>1 DEF TableTyped, HT!Cardinality, Cardinality, HT!ToSet, ToSet
<1>4. ASSUME NEW l \in ToSet(joined) PROVE Cardinality(HT!PlacesOf(l)) = 1
  <2>1. PICK i : i = Keyed(l)
    OBVIOUS
  <2>2. i \in 0 .. table.size - 1 /\ l \in InBucket(i) /\ l # NULL
    BY <2>1, <1>1, KeyHasBucket, LineParts, HTParameters
  <2>3. PICK n \in 1 .. N + 1 : HT!Walk(i)[n] = l
    BY <2>2, <1>2, WalkMeets
  <2>4. ASSUME NEW j \in 0 .. table.size - 1, NEW m \in 1 .. N + 1, HT!Walk(j)[m] = l
        PROVE  j = i /\ m = n
    <3>1. l \in InBucket(j)
      BY <2>2, <2>4, <1>2, WalkMeets
    <3>2. j = i
      BY <3>1, <2>1 DEF InBucket
    <3>3. ~(m < n) /\ ~(n < m)
      <4>1. ~Newer(l, l)
        BY <1>1, NewerOrders
      <4>2. /\ m < n /\ HT!Walk(i)[n] # NULL => Newer(HT!Walk(i)[m], HT!Walk(i)[n])
            /\ n < m /\ HT!Walk(i)[m] # NULL => Newer(HT!Walk(i)[n], HT!Walk(i)[m])
        BY <2>2, <1>2, WalkMeets
      <4> QED
        BY <4>1, <4>2, <2>2, <2>3, <2>4, <3>2
    <3>4. N \in Nat
      BY <2>2, <1>2, WalkMeets
    <3> QED
      BY <3>2, <3>3, <3>4
  <2>5. HT!PlacesOf(l) = {<<i, n>>}
    <3>1. HT!PlacesOf(l) = {p \in (0 .. table.size - 1) \X (1 .. N + 1) : HT!Walk(p[1])[p[2]] = l}
      BY <1>2, <1>3 DEF HT!PlacesOf
    <3> QED
      BY <3>1, <2>2, <2>3, <2>4
  <2> QED
    BY <2>5, FS_Singleton, Zenon
<1>5. ASSUME NEW i \in 0 .. table.size - 1 PROVE HT!Bucket(i) \subseteq ToSet(joined)
  BY BucketIs DEF InBucket
<1> QED
  BY <1>1, <1>3, <1>4, <1>5 DEF HT!BucketsExact

LEMMA NewestProved == HashInv => HT!NewestFound
<1> SUFFICES ASSUME HashInv, table # NULL, NEW k \in HashKeys
             PROVE  LET same == {n \in DOMAIN joined : /\ link[joined[n]].key \in Equal[k]
                                    /\ HT!BucketOf(link[joined[n]].key) = HT!BucketOf(k)}
                    IN  HT!Lookup(k) = IF same = {} THEN NULL ELSE joined[HT!Min(same)]
  BY DEF HT!NewestFound
<1>1. PICK i, N, W, L : i = HT!BucketOf(k) /\ N = Cardinality(HashLinks) /\ W = HT!Walk(i) /\ L = Len(joined)
  BY Zenon
<1>2. i \in 0 .. table.size - 1
  BY <1>1, KeyHasBucket
<1>3. /\ N \in Nat /\ W \in [1 .. N + 1 -> Maybe]
      /\ \A n \in 1 .. N + 1 : W[n] # NULL => W[n] \in InBucket(i)
      /\ \A n, m \in 1 .. N + 1 : n < m /\ W[m] # NULL => Newer(W[n], W[m])
      /\ \A x \in InBucket(i) : \E n \in 1 .. N + 1 : W[n] = x
  BY <1>1, <1>2, WalkMeets
<1>4. /\ L \in Nat /\ DOMAIN joined = 1 .. L /\ ToSet(joined) = {joined[p] : p \in 1 .. L}
      /\ \A p, q \in 1 .. L : joined[p] = joined[q] => p = q
      /\ ToSet(joined) \subseteq HashLinks
  BY <1>1, LineParts DEF HashInv
<1>5. PICK same, hits :
        /\ same = {p \in 1 .. L : link[joined[p]].key \in Equal[k] /\ joined[p] \in InBucket(i)}
        /\ hits = {n \in 1 .. N + 1 : W[n] # NULL /\ link[W[n]].key \in Equal[k]}
  BY Zenon
<1>6. same = {n \in DOMAIN joined : /\ link[joined[n]].key \in Equal[k]
                                    /\ HT!BucketOf(link[joined[n]].key) = HT!BucketOf(k)}
  BY <1>1, <1>4, <1>5 DEF InBucket, Keyed
<1>7. HT!Lookup(k) = IF hits = {} THEN NULL ELSE W[HT!Min(hits)]
  <2>1. DOMAIN W = 1 .. N + 1
    BY <1>3
  <2> QED
    BY <2>1, <1>1, <1>5, Zenon DEF HT!Lookup
<1>8. ASSUME NEW n \in hits PROVE \E p \in same : joined[p] = W[n]
  <2>1. W[n] \in InBucket(i) /\ link[W[n]].key \in Equal[k]
    BY <1>3, <1>5
  <2>2. PICK p \in 1 .. L : joined[p] = W[n]
    BY <2>1, <1>4 DEF InBucket
  <2> QED
    BY <2>1, <2>2, <1>5
<1>9. ASSUME NEW p \in same PROVE \E n \in hits : W[n] = joined[p]
  <2>1. joined[p] \in InBucket(i) /\ link[joined[p]].key \in Equal[k] /\ joined[p] # NULL
    BY <1>4, <1>5, HTParameters DEF InBucket
  <2>2. PICK n \in 1 .. N + 1 : W[n] = joined[p]
    BY <2>1, <1>3
  <2> QED
    BY <2>1, <2>2, <1>5
<1>10. CASE same = {}
  <2>1. hits = {}
    BY <1>8, <1>10
  <2> QED
    BY <2>1, <1>6, <1>7, <1>10
<1>11. CASE same # {}
  <2>1. hits # {} /\ hits \in SUBSET Nat /\ same \in SUBSET Nat
    BY <1>3, <1>4, <1>5, <1>9, <1>11
  <2>2. PICK n \in hits : \A m \in hits : n <= m
    BY <2>1, LeastOf
  <2>3. PICK p \in same : \A q \in same : p <= q
    BY <2>1, <1>11, LeastOf
  <2>4. HT!Min(hits) = n
    <3>1. HT!Min(hits) \in hits /\ \A m \in hits : HT!Min(hits) <= m
      BY <2>2 DEF HT!Min
    <3>2. HT!Min(hits) <= n /\ n <= HT!Min(hits) /\ n \in Nat /\ HT!Min(hits) \in Nat
      BY <3>1, <2>1, <2>2, Zenon
    <3> QED
      BY <3>2
  <2>5. HT!Min(same) = p
    <3>1. HT!Min(same) \in same /\ \A m \in same : HT!Min(same) <= m
      BY <2>3 DEF HT!Min
    <3>2. HT!Min(same) <= p /\ p <= HT!Min(same) /\ p \in Nat /\ HT!Min(same) \in Nat
      BY <3>1, <2>1, <2>3, Zenon
    <3> QED
      BY <3>2
  <2>6. PICK m \in hits : W[m] = joined[p]
    BY <1>9
  <2>7. PICK q \in same : joined[q] = W[n]
    BY <1>8
  <2>8. m = n
    <3>1. n <= m /\ p <= q /\ n \in 1 .. N + 1 /\ m \in 1 .. N + 1 /\ W[m] # NULL
      BY <2>2, <2>3, <1>5
    <3>2. CASE n < m
      <4>1. Newer(joined[q], joined[p])
        BY <3>1, <3>2, <2>6, <2>7, <1>3
      <4>2. PICK r \in 1 .. L, s \in 1 .. L : r < s /\ joined[r] = joined[q] /\ joined[s] = joined[p]
        BY <4>1, <1>1 DEF Newer
      <4>3. r = q /\ s = p
        BY <4>2, <1>4, <1>5
      <4> QED
        BY <4>2, <4>3, <3>1, <1>4
    <3> QED
      BY <3>1, <3>2, <1>3
  <2> QED
    BY <2>4, <2>5, <2>6, <2>8, <1>6, <1>7, <1>11, <2>1
<1> QED
  BY <1>10, <1>11

(* Any number of links, whatever the hash function and the comparison of   *)
(* the program: every joined link is once in its bucket and counted        *)
(* (fast_hashtable_join, _remove_link, _free_items), and                   *)
(* fast_hashtable_lookup finds the newest of those that compare equal.     *)
THEOREM TableIsExact == PoolsSpec => []TableExact
<1>1. PoolsInit => HashInv
  BY HashInvInit DEF PoolsInit
<1>2. [PoolsNext]_pools_vars => [HT!HashNext]_hash_vars
  BY DEF PoolsNext, HLPools, Pools, Queues, Hashes, Days, pools_vars, hash_vars
<1>3. HashInv /\ [PoolsNext]_pools_vars => HashInv'
  BY <1>2, HashInvNext
<1>4. HashInv => TableExact
  BY BucketsProved, NewestProved DEF TableExact
<1> QED
  BY <1>1, <1>3, <1>4, PTL DEF PoolsSpec

-----------------------------------------------------------------------------
(* The queue *)

LEMMA QUParameters ==
  /\ IsFiniteSet(Elements) /\ Heads \cap Elements = {} /\ NULL \notin QU!Links
  /\ QU!Links = Heads \cup Elements /\ Rank \in [Elements -> Int]
<1>1. \A S : QU!IsFiniteSet(S) = IsFiniteSet(S)
  BY DEF QU!IsFiniteSet, IsFiniteSet
<1> QED
  BY <1>1, PoolsAssumption DEF QU!QueueAssumption, QU!Links

LEMMA SameInQueue ==
  /\ \A s : QU!ToSet(s) = ToSet(s)
  /\ \A s, i, x : QU!InsertAt(s, i, x) = InsertAt(s, i, x)
  /\ \A s, i : QU!RemoveAt(s, i) = RemoveAt(s, i)
  /\ \A S : QU!Cardinality(S) = Cardinality(S)
  /\ \A S : QU!SetToSeqs(S) = SetToSeqs(S)
<1>1. \A s : QU!ToSet(s) = ToSet(s)
  BY DEF QU!ToSet, ToSet
<1>2. \A s, i, x : QU!InsertAt(s, i, x) = InsertAt(s, i, x)
  BY DEF QU!InsertAt, InsertAt
<1>3. \A s, i : QU!RemoveAt(s, i) = RemoveAt(s, i)
  BY DEF QU!RemoveAt, RemoveAt
<1>4. \A S : QU!Cardinality(S) = Cardinality(S)
  BY DEF QU!Cardinality, Cardinality
<1>5. \A S : QU!SetToSeqs(S) = SetToSeqs(S)
  BY <1>4 DEF QU!SetToSeqs, SetToSeqs
<1> QED
  BY <1>1, <1>2, <1>3, <1>4, <1>5

(* What holds of 0 and goes on holds up to a bound.                        *)
LEMMA UpTo ==
  ASSUME NEW N \in Nat, NEW D, 0 \in D, \A n \in 0 .. N : n \in D /\ n < N => n + 1 \in D
  PROVE  0 .. N \subseteq D
<1>1. PICK S : S = (0 .. N) \ D
  BY Zenon
<1>2. ASSUME S # {} PROVE FALSE
  <2>1. S \in SUBSET Nat
    BY <1>1
  <2>2. PICK m \in S : \A k \in S : m <= k
    BY <2>1, <1>2, LeastOf
  <2>3. m \in 0 .. N /\ m \notin D /\ m # 0
    BY <2>2, <1>1
  <2>4. m - 1 \in 0 .. N /\ m - 1 < N /\ (m - 1) + 1 = m /\ ~(m <= m - 1)
    BY <2>3
  <2>5. m - 1 \in D
    BY <2>2, <2>4, <1>1
  <2>6. (m - 1) + 1 \in D
    BY <2>4, <2>5
  <2> QED
    BY <2>3, <2>4, <2>6
<1> QED
  BY <1>1, <1>2

(* What following a function meets. *)
LEMMA StepsAre ==
  ASSUME NEW V, NEW x \in V, NEW f, \A v \in V : f[v] \in V, NEW M, M = 2 * Cardinality(Elements)
  PROVE  /\ M \in Nat /\ QU!Steps(f, x) \in [0 .. M -> V] /\ QU!Steps(f, x)[0] = x
         /\ \A n \in 0 .. M - 1 : QU!Steps(f, x)[n + 1] = f[QU!Steps(f, x)[n]]
<1> DEFINE G(h) == [n \in 0 .. M |-> IF n = 0 THEN x ELSE f[h[n - 1]]]
<1>1. M \in Nat
  BY QUParameters, FS_CardinalityType
<1>2. PICK step : step = [v \in V |-> f[v]]
  BY Zenon
<1>3. PICK g \in [1 .. M + 1 -> V] : g[1] = x /\ \A n \in 1 .. M : g[n + 1] = step[g[n]]
  <2>1. PICK N : N = M
    OBVIOUS
  <2>2. x \in V /\ step \in [V -> V] /\ N \in Nat
    BY <2>1, <1>1, <1>2
  <2>3. \E g \in [1 .. N + 1 -> V] : g[1] = x /\ \A n \in 1 .. N : g[n + 1] = step[g[n]]
    BY <2>2, Iterated
  <2> QED
    BY <2>1, <2>3, Zenon
<1>4. PICK e : e = [n \in 0 .. M |-> g[n + 1]]
  BY Zenon
<1>5. e = G(e)
  <2>1. ASSUME NEW n \in 0 .. M PROVE e[n] = G(e)[n]
    <3>1. CASE n = 0
      BY <3>1, <1>3, <1>4
    <3>2. CASE n # 0
      <4>1. n \in 1 .. M /\ n - 1 \in 0 .. M /\ (n - 1) + 1 = n
        BY <3>2, <1>1
      <4>2. e[n] = step[g[n]] /\ g[n] \in V /\ e[n - 1] = g[n]
        BY <4>1, <1>3, <1>4
      <4> QED
        BY <4>2, <3>2, <1>2
    <3> QED
      BY <3>1, <3>2
  <2> QED
    BY <2>1, <1>4
<1>6. PICK h : h = QU!Steps(f, x)
  OBVIOUS
<1>7. h = G(h)
  <2>1. h = CHOOSE k : k = G(k)
    <3>1. 2 * QU!Cardinality(Elements) = M
      BY SameInQueue
    <3> QED
      BY <3>1, <1>6 DEF QU!Steps
  <2> HIDE DEF G
  <2> QED
    BY <2>1, <1>5
<1>8. DOMAIN h = 0 .. M /\ h[0] = x /\ \A n \in 0 .. M - 1 : h[n + 1] = f[h[n]]
  <2>1. \A n \in 0 .. M - 1 : n + 1 \in 0 .. M /\ n + 1 # 0 /\ (n + 1) - 1 = n
    BY <1>1
  <2>2. h[0] = x /\ DOMAIN h = 0 .. M
    BY <1>7, <1>1
  <2>3. ASSUME NEW n \in 0 .. M - 1 PROVE h[n + 1] = f[h[n]]
    <3>1. h[n + 1] = G(h)[n + 1]
      BY <1>7
    <3> QED
      BY <3>1, <2>1
  <2> QED
    BY <2>2, <2>3
<1>9. PICK D : D = {n \in 0 .. M : h[n] \in V}
  BY Zenon
<1>10. 0 .. M \subseteq D
  <2>1. 0 \in D
    BY <1>1, <1>8, <1>9
  <2>2. ASSUME NEW n \in 0 .. M, n \in D /\ n < M PROVE n + 1 \in D
    <3>1. n \in 0 .. M - 1 /\ n + 1 \in 0 .. M /\ h[n] \in V
      BY <2>2, <1>1, <1>9
    <3>2. h[n + 1] \in V
      BY <3>1, <1>8
    <3> QED
      BY <3>1, <3>2, <1>9
  <2> QED
    BY <2>1, <2>2, <1>1, UpTo, Zenon
<1>11. h = [n \in 0 .. M |-> h[n]]
  BY <1>7, <1>8 DEF G
<1> HIDE DEF G
<1>12. h \in [0 .. M -> V]
  BY <1>9, <1>10, <1>11
<1> QED
  BY <1>1, <1>6, <1>8, <1>12

(* The sequence with one more element. *)
Grown(t, s, S, n, x) ==
  /\ Line(t, S) /\ Len(t) = Len(s) + 1 /\ ToSet(t) = ToSet(s) \cup {x}
  /\ \A p \in 1 .. Len(s) + 1 : t[p] = IF p < n THEN s[p] ELSE IF p = n THEN x ELSE s[p - 1]

LEMMA InsertedLine ==
  ASSUME NEW S, NEW s, Line(s, S), NEW n \in 1 .. Len(s) + 1, NEW x \in S, x \notin ToSet(s)
  PROVE  Grown(InsertAt(s, n, x), s, S, n, x)
<1> PICK L : L = Len(s)
  OBVIOUS
<1>1. /\ L \in Nat /\ s \in [1 .. L -> S] /\ (\A i, j \in 1 .. L : s[i] = s[j] => i = j)
      /\ ToSet(s) = {s[i] : i \in 1 .. L} /\ s \in Seq(S)
  BY LineParts DEF Line
<1>2. PICK r, a, b, c : /\ r = InsertAt(s, n, x) /\ a = SubSeq(s, 1, n - 1) /\ b = <<x>>
                        /\ c = SubSeq(s, n, Len(s))
  BY Zenon
<1>3. r = (a \o b) \o c
  BY <1>2 DEF InsertAt
<1>4. a \in Seq(S) /\ Len(a) = n - 1 /\ \A p \in 1 .. n - 1 : a[p] = s[p]
  BY <1>1, <1>2, SubSeqProperties
<1>5. c \in Seq(S) /\ Len(c) = (L + 1) - n /\ \A p \in 1 .. (L + 1) - n : c[p] = s[(n + p) - 1]
  BY <1>1, <1>2, SubSeqProperties
<1>6. b \in Seq(S) /\ Len(b) = 1 /\ b[1] = x
  BY <1>2
<1>7. PICK d : d = a \o b
  BY Zenon
<1>8. d \in Seq(S) /\ Len(d) = n /\ \A p \in 1 .. n : d[p] = IF p < n THEN s[p] ELSE x
  <2>1. d \in Seq(S) /\ Len(d) = (n - 1) + 1
        /\ \A p \in 1 .. (n - 1) + 1 : d[p] = IF p <= n - 1 THEN a[p] ELSE b[p - (n - 1)]
    <3>1. /\ a \o b \in Seq(S) /\ Len(a \o b) = Len(a) + Len(b)
          /\ \A p \in 1 .. Len(a) + Len(b) : (a \o b)[p] = IF p <= Len(a) THEN a[p] ELSE b[p - Len(a)]
      BY <1>4, <1>6, ConcatProperties, Zenon
    <3> QED
      BY <3>1, <1>4, <1>6, <1>7
  <2>2. (n - 1) + 1 = n /\ n \in Nat
    BY <1>1
  <2>3. ASSUME NEW p \in 1 .. n PROVE d[p] = IF p < n THEN s[p] ELSE x
    <3>1. CASE p < n
      <4>1. p \in 1 .. n - 1 /\ p <= n - 1
        BY <3>1, <2>2
      <4> QED
        BY <4>1, <2>1, <2>2, <3>1, <1>4
    <3>2. CASE p = n
      <4>1. ~(p <= n - 1) /\ p - (n - 1) = 1 /\ ~(p < n)
        BY <3>2, <2>2
      <4> QED
        BY <4>1, <2>1, <2>2, <1>6
    <3> QED
      BY <3>1, <3>2
  <2> QED
    BY <2>1, <2>2, <2>3
<1>9. r \in Seq(S) /\ Len(r) = L + 1
      /\ \A p \in 1 .. L + 1 : r[p] = IF p <= n THEN d[p] ELSE c[p - n]
  <2>1. r = d \o c
    BY <1>3, <1>7
  <2>2. r \in Seq(S) /\ Len(r) = n + ((L + 1) - n)
        /\ \A p \in 1 .. n + ((L + 1) - n) : r[p] = IF p <= n THEN d[p] ELSE c[p - n]
    <3>1. /\ d \o c \in Seq(S) /\ Len(d \o c) = Len(d) + Len(c)
          /\ \A p \in 1 .. Len(d) + Len(c) : (d \o c)[p] = IF p <= Len(d) THEN d[p] ELSE c[p - Len(d)]
      BY <1>5, <1>8, ConcatProperties, Zenon
    <3> QED
      BY <3>1, <2>1, <1>5, <1>8
  <2>3. n + ((L + 1) - n) = L + 1
    BY <1>1
  <2> QED
    BY <2>2, <2>3
<1>10. ASSUME NEW p \in 1 .. L + 1
       PROVE r[p] = IF p < n THEN s[p] ELSE IF p = n THEN x ELSE s[p - 1]
  <2>1. CASE p <= n
    <3>1. p \in 1 .. n
      BY <2>1, <1>1
    <3> QED
      BY <3>1, <2>1, <1>8, <1>9
  <2>2. CASE ~(p <= n)
    <3>1. p - n \in 1 .. (L + 1) - n /\ (n + (p - n)) - 1 = p - 1 /\ ~(p < n) /\ p # n
      BY <2>2, <1>1
    <3>2. c[p - n] = s[(n + (p - n)) - 1]
      BY <3>1, <1>5
    <3> QED
      BY <3>1, <3>2, <2>2, <1>9
  <2> QED
    BY <2>1, <2>2
<1>11. r \in [1 .. L + 1 -> S] /\ L + 1 \in Nat
  BY <1>1, <1>9, LenProperties
<1>12. ASSUME NEW p \in 1 .. L + 1, NEW q \in 1 .. L + 1, r[p] = r[q] PROVE p = q
  <2>1. \A i \in 1 .. L : s[i] # x
    BY <1>1
  <2>2. ASSUME NEW i \in 1 .. L + 1, i # n
        PROVE  \E k \in 1 .. L : r[i] = s[k] /\ k = IF i < n THEN i ELSE i - 1
    <3>1. CASE i < n
      <4>1. i \in 1 .. L
        BY <3>1, <1>1
      <4> QED
        BY <4>1, <3>1, <1>10
    <3>2. CASE ~(i < n)
      <4>1. i - 1 \in 1 .. L
        BY <3>2, <2>2, <1>1
      <4> QED
        BY <4>1, <3>2, <2>2, <1>10
    <3> QED
      BY <3>1, <3>2
  <2>3. CASE p = n
    BY <2>1, <2>2, <2>3, <1>10, <1>12
  <2>4. CASE q = n
    BY <2>1, <2>2, <2>4, <1>10, <1>12
  <2>5. CASE p # n /\ q # n
    <3>1. PICK i \in 1 .. L : r[p] = s[i] /\ i = IF p < n THEN p ELSE p - 1
      BY <2>2, <2>5
    <3>2. PICK j \in 1 .. L : r[q] = s[j] /\ j = IF q < n THEN q ELSE q - 1
      BY <2>2, <2>5
    <3>3. i = j
      BY <3>1, <3>2, <1>1, <1>12
    <3> QED
      BY <3>1, <3>2, <3>3, <2>5, <1>1
  <2> QED
    BY <2>3, <2>4, <2>5
<1>13. Line(r, S) /\ ToSet(r) = {r[p] : p \in 1 .. L + 1}
  <2>1. DOMAIN r = 1 .. L + 1
    BY <1>11
  <2>2. IsInjective(r)
    BY <2>1, <1>12 DEF IsInjective
  <2> QED
    BY <2>1, <2>2, <1>9 DEF Line, ToSet
<1>14. ToSet(r) = ToSet(s) \cup {x}
  <2>1. ASSUME NEW p \in 1 .. L + 1 PROVE r[p] \in ToSet(s) \cup {x}
    <3>1. p < n => p \in 1 .. L
      BY <1>1
    <3>2. ~(p < n) /\ p # n => p - 1 \in 1 .. L
      BY <1>1
    <3> QED
      BY <3>1, <3>2, <1>1, <1>10
  <2>2. x \in ToSet(r)
    <3>1. r[n] = x
      BY <1>1, <1>10
    <3> QED
      BY <3>1, <1>13
  <2>3. ASSUME NEW i \in 1 .. L PROVE s[i] \in ToSet(r)
    <3>1. CASE i < n
      <4>1. i \in 1 .. L + 1 /\ r[i] = s[i]
        BY <3>1, <1>1, <1>10
      <4> QED
        BY <4>1, <1>13
    <3>2. CASE ~(i < n)
      <4>1. i + 1 \in 1 .. L + 1 /\ ~(i + 1 < n) /\ i + 1 # n /\ (i + 1) - 1 = i
        BY <3>2, <1>1
      <4>2. r[i + 1] = s[i]
        BY <4>1, <1>10
      <4> QED
        BY <4>1, <4>2, <1>13
    <3> QED
      BY <3>1, <3>2
  <2> QED
    BY <2>1, <2>2, <2>3, <1>1, <1>13, SMTT(30)
<1> QED
  BY <1>2, <1>9, <1>10, <1>13, <1>14 DEF Grown

(* The assignments, link by link. *)
Ends  == QU!Links \cup {NULL}
Rings == [prev : [QU!Links -> Ends], next : [QU!Links -> Ends]]

NextSet(q, r, x, y) == /\ q.prev = r.prev /\ q.next[x] = y
                       /\ \A z \in QU!Links : z # x => q.next[z] = r.next[z]
PrevSet(q, r, x, y) == /\ q.next = r.next /\ q.prev[x] = y
                       /\ \A z \in QU!Links : z # x => q.prev[z] = r.prev[z]

LEMMA SetNextIs ==
  ASSUME NEW r \in Rings, NEW x \in QU!Links, NEW y \in Ends
  PROVE  QU!SetNext(r, x, y) \in Rings /\ NextSet(QU!SetNext(r, x, y), r, x, y)
BY DEF QU!SetNext, Rings, NextSet

LEMMA SetPrevIs ==
  ASSUME NEW r \in Rings, NEW x \in QU!Links, NEW y \in Ends
  PROVE  QU!SetPrev(r, x, y) \in Rings /\ PrevSet(QU!SetPrev(r, x, y), r, x, y)
BY DEF QU!SetPrev, Rings, PrevSet

(* x stands between a and b. *)
Between(q, r, a, x, b) ==
  /\ q \in Rings
  /\ \A y \in QU!Links :
       /\ q.next[y] = IF y = a THEN x ELSE IF y = x THEN b ELSE r.next[y]
       /\ q.prev[y] = IF y = b THEN x ELSE IF y = x THEN a ELSE r.prev[y]

LEMMA PutAfterIs ==
  ASSUME NEW r \in Rings, NEW a \in QU!Links, NEW b \in QU!Links, NEW x \in QU!Links,
         r.next[a] = b, x # a, x # b
  PROVE  Between(QU!PutAfter(r, a, x), r, a, x, b)
<1>0. /\ r \in Rings /\ a \in QU!Links /\ b \in QU!Links /\ x \in QU!Links
      /\ a \in Ends /\ b \in Ends /\ x \in Ends /\ NULL \in Ends
  BY DEF Ends
<1>1. PICK r1 \in Rings : r1 = QU!SetNext(r, x, b) /\ NextSet(r1, r, x, b)
  BY <1>0, SetNextIs
<1>2. PICK r2 \in Rings : r2 = QU!SetPrev(r1, b, x) /\ PrevSet(r2, r1, b, x)
  BY <1>0, SetPrevIs
<1>3. PICK r3 \in Rings : r3 = QU!SetPrev(r2, x, a) /\ PrevSet(r3, r2, x, a)
  BY <1>0, SetPrevIs
<1>4. PICK r4 \in Rings : r4 = QU!SetNext(r3, a, x) /\ NextSet(r4, r3, a, x)
  BY <1>0, SetNextIs
<1>5. r4 = QU!PutAfter(r, a, x)
  <2>1. r1.next[x] = b
    BY <1>1 DEF NextSet, PrevSet
  <2> QED
    BY <2>1, <1>1, <1>2, <1>3, <1>4 DEF QU!PutAfter
<1> QED
  BY <1>1, <1>2, <1>3, <1>4, <1>5 DEF Between, NextSet, PrevSet

LEMMA PutBeforeIs ==
  ASSUME NEW r \in Rings, NEW a \in QU!Links, NEW b \in QU!Links, NEW x \in QU!Links,
         r.prev[b] = a, x # a, x # b
  PROVE  Between(QU!PutBefore(r, b, x), r, a, x, b)
<1>0. /\ r \in Rings /\ a \in QU!Links /\ b \in QU!Links /\ x \in QU!Links
      /\ a \in Ends /\ b \in Ends /\ x \in Ends /\ NULL \in Ends
  BY DEF Ends
<1>1. PICK r1 \in Rings : r1 = QU!SetPrev(r, x, a) /\ PrevSet(r1, r, x, a)
  BY <1>0, SetPrevIs
<1>2. PICK r2 \in Rings : r2 = QU!SetNext(r1, a, x) /\ NextSet(r2, r1, a, x)
  BY <1>0, SetNextIs
<1>3. PICK r3 \in Rings : r3 = QU!SetNext(r2, x, b) /\ NextSet(r3, r2, x, b)
  BY <1>0, SetNextIs
<1>4. PICK r4 \in Rings : r4 = QU!SetPrev(r3, b, x) /\ PrevSet(r4, r3, b, x)
  BY <1>0, SetPrevIs
<1>5. r4 = QU!PutBefore(r, b, x)
  <2>1. r1.prev[x] = a
    BY <1>1 DEF NextSet, PrevSet
  <2> QED
    BY <2>1, <1>1, <1>2, <1>3, <1>4 DEF QU!PutBefore
<1> QED
  BY <1>1, <1>2, <1>3, <1>4, <1>5 DEF Between, NextSet, PrevSet

(* x is gone from between a and b. *)
Without(q, r, a, x, b) ==
  /\ q \in Rings
  /\ \A y \in QU!Links :
       /\ q.next[y] = IF y = x THEN NULL ELSE IF y = a THEN b ELSE r.next[y]
       /\ q.prev[y] = IF y = x THEN NULL ELSE IF y = b THEN a ELSE r.prev[y]

LEMMA TakeOutIs ==
  ASSUME NEW r \in Rings, NEW a \in QU!Links, NEW b \in QU!Links, NEW x \in QU!Links,
         r.prev[x] = a, r.next[x] = b, x # a, x # b
  PROVE  Without(QU!TakeOut(r, x), r, a, x, b)
<1>0. /\ r \in Rings /\ a \in QU!Links /\ b \in QU!Links /\ x \in QU!Links
      /\ a \in Ends /\ b \in Ends /\ x \in Ends /\ NULL \in Ends
  BY DEF Ends
<1>1. PICK r1 \in Rings : r1 = QU!SetPrev(r, b, a) /\ PrevSet(r1, r, b, a)
  BY <1>0, SetPrevIs
<1>2. PICK r2 \in Rings : r2 = QU!SetNext(r1, a, b) /\ NextSet(r2, r1, a, b)
  BY <1>0, SetNextIs
<1>3. PICK r3 \in Rings : r3 = QU!SetNext(r2, x, NULL) /\ NextSet(r3, r2, x, NULL)
  BY <1>0, SetNextIs
<1>4. PICK r4 \in Rings : r4 = QU!SetPrev(r3, x, NULL) /\ PrevSet(r4, r3, x, NULL)
  BY <1>0, SetPrevIs
<1>5. r4 = QU!TakeOut(r, x)
  <2>1. r1.prev[x] = a /\ r1.next[x] = b
    BY <1>1 DEF NextSet, PrevSet
  <2> QED
    BY <2>1, <1>1, <1>2, <1>3, <1>4 DEF QU!TakeOut
<1> QED
  BY <1>1, <1>2, <1>3, <1>4, <1>5 DEF Without, NextSet, PrevSet

(* queue_add_queue, and n a queue again. *)
Added(r, h, n) == QU!SetNext(QU!SetPrev(QU!Join(r, h, n), n, n), n, n)

(* n's elements, c first and d last, stand between a and h.                *)
Joined(q, r, h, n, a, c, d) ==
  /\ q \in Rings
  /\ \A y \in QU!Links :
       /\ q.next[y] = IF y = n THEN n ELSE IF y = a THEN c ELSE IF y = d THEN h ELSE r.next[y]
       /\ q.prev[y] = IF y = n THEN n ELSE IF y = h THEN d ELSE IF y = c THEN a ELSE r.prev[y]

LEMMA JoinIs ==
  ASSUME NEW r \in Rings, NEW h \in QU!Links, NEW n \in QU!Links, NEW a \in QU!Links,
         NEW c \in QU!Links, NEW d \in QU!Links,
         r.prev[h] = a, r.next[n] = c, r.prev[n] = d, n # h, n # a,
         n # c, n # d, h # c, h # d, a # c, a # d
  PROVE  Joined(Added(r, h, n), r, h, n, a, c, d)
<1>0. /\ r \in Rings /\ h \in QU!Links /\ n \in QU!Links /\ a \in QU!Links /\ c \in QU!Links /\ d \in QU!Links
      /\ h \in Ends /\ n \in Ends /\ a \in Ends /\ c \in Ends /\ d \in Ends /\ NULL \in Ends
  BY DEF Ends
<1>1. PICK r1 \in Rings : r1 = QU!SetNext(r, a, c) /\ NextSet(r1, r, a, c)
  BY <1>0, SetNextIs
<1>2. PICK r2 \in Rings : r2 = QU!SetPrev(r1, c, a) /\ PrevSet(r2, r1, c, a)
  BY <1>0, SetPrevIs
<1>3. PICK r3 \in Rings : r3 = QU!SetPrev(r2, h, d) /\ PrevSet(r3, r2, h, d)
  BY <1>0, SetPrevIs
<1>4. PICK r4 \in Rings : r4 = QU!SetNext(r3, d, h) /\ NextSet(r4, r3, d, h)
  BY <1>0, SetNextIs
<1>5. r4 = QU!Join(r, h, n)
  <2>1. r1.next[n] = c /\ r1.prev[h] = a /\ r2.prev[n] = d /\ r3.prev[h] = d
    BY <1>1, <1>2, <1>3 DEF NextSet, PrevSet
  <2> QED
    BY <2>1, <1>1, <1>2, <1>3, <1>4 DEF QU!Join
<1>6. PICK r5 \in Rings : r5 = QU!SetPrev(r4, n, n) /\ PrevSet(r5, r4, n, n)
  BY <1>0, SetPrevIs
<1>7. PICK q : q = Added(r, h, n) /\ q = QU!SetNext(r5, n, n)
  BY <1>5, <1>6 DEF Added
<1>8. q \in Rings /\ NextSet(q, r5, n, n)
  BY <1>0, <1>7, SetNextIs
<1> QED
  BY <1>1, <1>2, <1>3, <1>4, <1>6, <1>7, <1>8 DEF NextSet, PrevSet, Joined

(* Without elements in n nothing changes. *)
SameLinks(q, r) ==
  q \in Rings /\ \A y \in QU!Links : q.next[y] = r.next[y] /\ q.prev[y] = r.prev[y]

LEMMA JoinNothing ==
  ASSUME NEW r \in Rings, NEW h \in QU!Links, NEW n \in QU!Links, NEW a \in QU!Links,
         r.prev[h] = a, r.next[a] = h, r.next[n] = n, r.prev[n] = n, n # h, n # a
  PROVE  SameLinks(Added(r, h, n), r)
<1>0. /\ r \in Rings /\ h \in QU!Links /\ n \in QU!Links /\ a \in QU!Links
      /\ h \in Ends /\ n \in Ends /\ a \in Ends /\ NULL \in Ends
  BY DEF Ends
<1>1. PICK r1 \in Rings : r1 = QU!SetNext(r, a, n) /\ NextSet(r1, r, a, n)
  BY <1>0, SetNextIs
<1>2. PICK r2 \in Rings : r2 = QU!SetPrev(r1, n, a) /\ PrevSet(r2, r1, n, a)
  BY <1>0, SetPrevIs
<1>3. PICK r3 \in Rings : r3 = QU!SetPrev(r2, h, a) /\ PrevSet(r3, r2, h, a)
  BY <1>0, SetPrevIs
<1>4. PICK r4 \in Rings : r4 = QU!SetNext(r3, a, h) /\ NextSet(r4, r3, a, h)
  BY <1>0, SetNextIs
<1>5. r4 = QU!Join(r, h, n)
  <2>1. r1.next[n] = n /\ r1.prev[h] = a /\ r2.prev[n] = a /\ r3.prev[h] = a
    BY <1>1, <1>2, <1>3 DEF NextSet, PrevSet
  <2> QED
    BY <2>1, <1>1, <1>2, <1>3, <1>4 DEF QU!Join
<1>6. PICK r5 \in Rings : r5 = QU!SetPrev(r4, n, n) /\ PrevSet(r5, r4, n, n)
  BY <1>0, SetPrevIs
<1>7. PICK q : q = Added(r, h, n) /\ q = QU!SetNext(r5, n, n)
  BY <1>5, <1>6 DEF Added
<1>8. q \in Rings /\ NextSet(q, r5, n, n)
  BY <1>0, <1>7, SetNextIs
<1> QED
  BY <1>1, <1>2, <1>3, <1>4, <1>6, <1>7, <1>8 DEF NextSet, PrevSet, SameLinks

(* What was from x to a follows n, and b is h's last. *)
Divided(q, r, h, x, n, a, b) ==
  /\ q \in Rings
  /\ \A y \in QU!Links :
       /\ q.next[y] = IF y = b THEN h ELSE IF y = n THEN x ELSE IF y = a THEN n ELSE r.next[y]
       /\ q.prev[y] = IF y = x THEN n ELSE IF y = h THEN b ELSE IF y = n THEN a ELSE r.prev[y]

LEMMA CutIs ==
  ASSUME NEW r \in Rings, NEW h \in QU!Links, NEW x \in QU!Links, NEW n \in QU!Links,
         NEW a \in QU!Links, NEW b \in QU!Links,
         r.prev[h] = a, r.prev[x] = b, n # h, n # x, n # a, n # b, x # h, a # b, a # h
  PROVE  Divided(QU!Cut(r, h, x, n), r, h, x, n, a, b)
<1>0. /\ r \in Rings /\ h \in QU!Links /\ x \in QU!Links /\ n \in QU!Links /\ a \in QU!Links /\ b \in QU!Links
      /\ h \in Ends /\ x \in Ends /\ n \in Ends /\ a \in Ends /\ b \in Ends /\ NULL \in Ends
  BY DEF Ends
<1>1. PICK r1 \in Rings : r1 = QU!SetPrev(r, n, a) /\ PrevSet(r1, r, n, a)
  BY <1>0, SetPrevIs
<1>2. PICK r2 \in Rings : r2 = QU!SetNext(r1, a, n) /\ NextSet(r2, r1, a, n)
  BY <1>0, SetNextIs
<1>3. PICK r3 \in Rings : r3 = QU!SetNext(r2, n, x) /\ NextSet(r3, r2, n, x)
  BY <1>0, SetNextIs
<1>4. PICK r4 \in Rings : r4 = QU!SetPrev(r3, h, b) /\ PrevSet(r4, r3, h, b)
  BY <1>0, SetPrevIs
<1>5. PICK r5 \in Rings : r5 = QU!SetNext(r4, b, h) /\ NextSet(r5, r4, b, h)
  BY <1>0, SetNextIs
<1>6. PICK q : q = QU!Cut(r, h, x, n) /\ q = QU!SetPrev(r5, x, n)
  <2>1. r1.prev[n] = a /\ r3.prev[x] = b /\ r4.prev[h] = b
    BY <1>1, <1>2, <1>3, <1>4 DEF NextSet, PrevSet
  <2> QED
    BY <2>1, <1>1, <1>2, <1>3, <1>4, <1>5 DEF QU!Cut
<1>7. q \in Rings /\ PrevSet(q, r5, x, n)
  BY <1>0, <1>6, SetPrevIs
<1> QED
  BY <1>1, <1>2, <1>3, <1>4, <1>5, <1>6, <1>7 DEF NextSet, PrevSet, Divided

(* The ring of a head and a line: place 0 and the place behind the last    *)
(* are the head.                                                           *)
At(h, s, i) == IF i \in 1 .. Len(s) THEN s[i] ELSE h

Cycle(h, s) == {h} \cup ToSet(s)

Follows(r, h, s) == \A i \in 0 .. Len(s) :
  r.next[At(h, s, i)] = At(h, s, i + 1) /\ r.prev[At(h, s, i + 1)] = At(h, s, i)

Placed(h, s, L) ==
  /\ L = Len(s) /\ L \in Nat
  /\ At(h, s, 0) = h /\ At(h, s, L + 1) = h
  /\ \A i \in 1 .. L : At(h, s, i) = s[i] /\ s[i] \in ToSet(s) /\ s[i] # h
  /\ \A i \in 0 .. L + 1 : At(h, s, i) \in QU!Links /\ At(h, s, i) \in Cycle(h, s)
  /\ \A i, j \in 0 .. L : At(h, s, i) = At(h, s, j) => i = j
  /\ \A i, j \in 1 .. L + 1 : At(h, s, i) = At(h, s, j) => i = j
  /\ \A y \in ToSet(s) : \E i \in 1 .. L : s[i] = y

LEMMA PlacesAre ==
  ASSUME NEW h \in Heads, NEW s, Line(s, Elements)
  PROVE  Placed(h, s, Len(s))
<1>1. PICK L : L = Len(s)
  BY Zenon
<1>2. /\ L \in Nat /\ s \in [1 .. L -> Elements]
      /\ (\A i, j \in 1 .. L : s[i] = s[j] => i = j) /\ ToSet(s) = {s[i] : i \in 1 .. L}
  BY <1>1, LineParts
<1>3. PICK g : g = [i \in 0 .. L + 1 |-> At(h, s, i)]
  BY Zenon
<1>4. \A i \in 0 .. L + 1 : g[i] = IF i \in 1 .. L THEN s[i] ELSE h
  BY <1>1, <1>3 DEF At
<1>5. h \in QU!Links /\ h \notin Elements /\ Elements \subseteq QU!Links
  BY QUParameters
<1>6. g[0] = h /\ g[L + 1] = h
  BY <1>2, <1>4
<1>7. \A i \in 1 .. L : g[i] = s[i] /\ s[i] \in ToSet(s) /\ s[i] # h
  BY <1>2, <1>4, <1>5
<1>8. \A i \in 0 .. L + 1 : g[i] \in QU!Links /\ g[i] \in Cycle(h, s)
  BY <1>2, <1>4, <1>5 DEF Cycle
<1>9. ASSUME NEW i \in 0 .. L, NEW j \in 0 .. L, g[i] = g[j] PROVE i = j
  <2>1. i \in 1 .. L <=> j \in 1 .. L
    BY <1>2, <1>4, <1>5, <1>9
  <2>2. CASE i \in 1 .. L
    BY <2>1, <2>2, <1>2, <1>7, <1>9
  <2>3. CASE i \notin 1 .. L
    BY <2>1, <2>3, <1>2
  <2> QED
    BY <2>2, <2>3
<1>10. ASSUME NEW i \in 1 .. L + 1, NEW j \in 1 .. L + 1, g[i] = g[j] PROVE i = j
  <2>1. i \in 1 .. L <=> j \in 1 .. L
    BY <1>2, <1>4, <1>5, <1>10
  <2>2. CASE i \in 1 .. L
    BY <2>1, <2>2, <1>2, <1>7, <1>10
  <2>3. CASE i \notin 1 .. L
    BY <2>1, <2>3, <1>2
  <2> QED
    BY <2>2, <2>3
<1>11. \A i \in 0 .. L + 1 : At(h, s, i) = g[i]
  BY <1>3
<1>12. \A i \in 1 .. L : At(h, s, i) = g[i]
  BY <1>2, <1>11
<1>13. /\ \A i, j \in 0 .. L : At(h, s, i) = At(h, s, j) => i = j
       /\ \A i, j \in 1 .. L + 1 : At(h, s, i) = At(h, s, j) => i = j
  <2>1. 0 .. L \subseteq 0 .. L + 1 /\ 1 .. L + 1 \subseteq 0 .. L + 1
    BY <1>2
  <2> QED
    BY <2>1, <1>9, <1>10, <1>11
<1>14. \A y \in ToSet(s) : \E i \in 1 .. L : s[i] = y
  BY <1>2
<1>15. At(h, s, 0) = h /\ At(h, s, L + 1) = h
  BY <1>2, <1>6, <1>11
<1> QED
  BY <1>1, <1>2, <1>7, <1>8, <1>11, <1>12, <1>13, <1>14, <1>15 DEF Placed

(* One more element in the ring as in the line. *)
LEMMA InsertFollows ==
  ASSUME NEW h \in Heads, NEW s, Line(s, Elements), NEW r \in Rings, Follows(r, h, s),
         NEW n \in 1 .. Len(s) + 1, NEW x \in Elements, x \notin ToSet(s), NEW q,
         Between(q, r, At(h, s, n - 1), x, At(h, s, n))
  PROVE  /\ Line(InsertAt(s, n, x), Elements) /\ ToSet(InsertAt(s, n, x)) = ToSet(s) \cup {x}
         /\ Follows(q, h, InsertAt(s, n, x))
         /\ \A y \in QU!Links : y \notin Cycle(h, s) /\ y # x =>
              q.next[y] = r.next[y] /\ q.prev[y] = r.prev[y]
<1>1. PICK L, t : L = Len(s) /\ t = InsertAt(s, n, x)
  BY Zenon
<1>2. /\ Line(t, Elements) /\ Len(t) = L + 1 /\ ToSet(t) = ToSet(s) \cup {x}
      /\ \A p \in 1 .. L + 1 : t[p] = IF p < n THEN s[p] ELSE IF p = n THEN x ELSE s[p - 1]
  BY <1>1, InsertedLine DEF Grown
<1>3. PICK g : g = [i \in 0 .. L + 1 |-> At(h, s, i)]
  BY Zenon
<1>4. Placed(h, s, L)
  BY <1>1, PlacesAre
<1>5. /\ L \in Nat /\ g[0] = h /\ g[L + 1] = h
      /\ \A i \in 1 .. L : g[i] = s[i] /\ s[i] # h /\ s[i] \in ToSet(s)
      /\ \A i \in 0 .. L + 1 : g[i] \in QU!Links /\ g[i] \in Cycle(h, s) /\ g[i] = At(h, s, i)
      /\ \A i, j \in 0 .. L : g[i] = g[j] => i = j
      /\ \A i, j \in 1 .. L + 1 : g[i] = g[j] => i = j
  <2>1. L \in Nat
    BY <1>4 DEF Placed
  <2>2. 0 .. L \subseteq 0 .. L + 1 /\ 1 .. L + 1 \subseteq 0 .. L + 1 /\ 1 .. L \subseteq 0 .. L + 1
        /\ 0 \in 0 .. L + 1 /\ L + 1 \in 0 .. L + 1
    BY <2>1
  <2> QED
    BY <2>1, <2>2, <1>3, <1>4 DEF Placed
<1>6. n \in 1 .. L + 1 /\ n - 1 \in 0 .. L /\ n \in Int
  BY <1>1, <1>5
<1>7. \A y \in QU!Links :
        /\ q.next[y] = IF y = g[n - 1] THEN x ELSE IF y = x THEN g[n] ELSE r.next[y]
        /\ q.prev[y] = IF y = g[n] THEN x ELSE IF y = x THEN g[n - 1] ELSE r.prev[y]
  <2>1. n - 1 \in 0 .. L + 1 /\ n \in 0 .. L + 1
    BY <1>5, <1>6
  <2>2. At(h, s, n - 1) = g[n - 1] /\ At(h, s, n) = g[n]
    BY <2>1, <1>5
  <2> QED
    BY <2>2 DEF Between
<1>8. \A i \in 0 .. L : r.next[g[i]] = g[i + 1] /\ r.prev[g[i + 1]] = g[i]
  <2>1. \A i \in 0 .. L : i \in 0 .. L + 1 /\ i + 1 \in 0 .. L + 1
    BY <1>5
  <2> QED
    BY <2>1, <1>1, <1>5 DEF Follows
<1>9. x \in QU!Links /\ x \notin Cycle(h, s)
  BY QUParameters DEF Cycle
<1>10. \A i \in 0 .. L + 1 : g[i] # x
  BY <1>5, <1>9
<1>11. PICK k : k = [i \in 0 .. L + 2 |-> IF i < n THEN g[i] ELSE IF i = n THEN x ELSE g[i - 1]]
  BY Zenon
<1>12. ASSUME NEW i \in 0 .. L + 2 PROVE At(h, t, i) = k[i]
  <2>1. CASE i = 0
    <3>1. At(h, t, i) = h /\ i < n
      BY <2>1, <1>2, <1>5, <1>6 DEF At
    <3> QED
      BY <3>1, <2>1, <1>5, <1>11
  <2>2. CASE i = L + 2
    <3>1. At(h, t, i) = h /\ ~(i < n) /\ i # n /\ i - 1 = L + 1
      BY <2>2, <1>2, <1>5, <1>6 DEF At
    <3> QED
      BY <3>1, <2>2, <1>5, <1>11
  <2>3. CASE i \in 1 .. L + 1
    <3>1. At(h, t, i) = t[i]
      BY <2>3, <1>2 DEF At
    <3>2. t[i] = IF i < n THEN s[i] ELSE IF i = n THEN x ELSE s[i - 1]
      BY <2>3, <1>2
    <3>3. (i < n => i \in 1 .. L) /\ (~(i < n) /\ i # n => i - 1 \in 1 .. L)
      BY <2>3, <1>5, <1>6
    <3> QED
      BY <3>1, <3>2, <3>3, <1>5, <1>11
  <2> QED
    BY <2>1, <2>2, <2>3, <1>5
<1>13. ASSUME NEW i \in 0 .. L + 1
       PROVE  q.next[k[i]] = k[i + 1] /\ q.prev[k[i + 1]] = k[i]
  <2>0. i \in 0 .. L + 2 /\ i + 1 \in 0 .. L + 2 /\ i \in Int
    BY <1>5
  <2>1. CASE i < n - 1
    <3>1. /\ i \in 0 .. L /\ i + 1 \in 1 .. L + 1 /\ i < n /\ i + 1 < n /\ i # n - 1 /\ i + 1 # n
          /\ i \in 0 .. L + 1 /\ i + 1 \in 0 .. L + 1
      BY <2>1, <1>5, <1>6
    <3>2. k[i] = g[i] /\ k[i + 1] = g[i + 1]
      BY <3>1, <2>0, <1>11
    <3>3. g[i] # g[n - 1] /\ g[i + 1] # g[n] /\ g[i] # x /\ g[i + 1] # x
      BY <3>1, <1>5, <1>6, <1>10
    <3>4. g[i] \in QU!Links /\ g[i + 1] \in QU!Links
      BY <3>1, <1>5
    <3> QED
      BY <3>1, <3>2, <3>3, <3>4, <1>7, <1>8
  <2>2. CASE i = n - 1
    <3>1. i < n /\ i + 1 = n /\ ~(i + 1 < n)
      BY <2>2, <1>6
    <3>2. k[i] = g[n - 1] /\ k[i + 1] = x
      BY <3>1, <2>0, <2>2, <1>11
    <3>3. g[n - 1] \in QU!Links /\ g[n] # x
      BY <2>2, <1>5, <1>6, <1>10
    <3> QED
      BY <3>2, <3>3, <1>7, <1>9
  <2>3. CASE i = n
    <3>1. ~(i < n) /\ ~(i + 1 < n) /\ i + 1 # n /\ (i + 1) - 1 = n /\ n \in 0 .. L + 1 /\ n - 1 \in 0 .. L + 1
      BY <2>3, <1>5, <1>6
    <3>2. k[i] = x /\ k[i + 1] = g[n]
      BY <3>1, <2>0, <2>3, <1>11
    <3>3. g[n] \in QU!Links /\ g[n - 1] # x
      BY <3>1, <1>5, <1>10
    <3> QED
      BY <3>2, <3>3, <1>7, <1>9
  <2>4. CASE i > n
    <3>1. /\ i - 1 \in 0 .. L /\ (i + 1) - 1 = i /\ (i - 1) + 1 = i /\ ~(i < n) /\ i # n
          /\ ~(i + 1 < n) /\ i + 1 # n /\ i - 1 # n - 1 /\ i \in 1 .. L + 1
          /\ i - 1 \in 0 .. L + 1 /\ i \in 0 .. L + 1
      BY <2>4, <1>5, <1>6
    <3>2. k[i] = g[i - 1] /\ k[i + 1] = g[i]
      BY <3>1, <2>0, <1>11
    <3>3. g[i - 1] # g[n - 1] /\ g[i] # g[n] /\ g[i - 1] # x /\ g[i] # x
      BY <3>1, <1>5, <1>6, <1>10
    <3>4. g[i - 1] \in QU!Links /\ g[i] \in QU!Links /\ r.next[g[i - 1]] = g[i] /\ r.prev[g[i]] = g[i - 1]
      BY <3>1, <1>5, <1>8
    <3> QED
      BY <3>2, <3>3, <3>4, <1>7
  <2> QED
    BY <2>0, <2>1, <2>2, <2>3, <2>4, <1>6
<1>14. Follows(q, h, t)
  <2>1. ASSUME NEW i \in 0 .. L + 1
        PROVE q.next[At(h, t, i)] = At(h, t, i + 1) /\ q.prev[At(h, t, i + 1)] = At(h, t, i)
    <3>1. i \in 0 .. L + 2 /\ i + 1 \in 0 .. L + 2
      BY <1>5
    <3> QED
      BY <3>1, <1>12, <1>13
  <2> QED
    BY <2>1, <1>2 DEF Follows
<1>15. \A y \in QU!Links : y \notin Cycle(h, s) /\ y # x =>
         q.next[y] = r.next[y] /\ q.prev[y] = r.prev[y]
  <2>1. g[n - 1] \in Cycle(h, s) /\ g[n] \in Cycle(h, s)
    <3>1. n - 1 \in 0 .. L + 1 /\ n \in 0 .. L + 1
      BY <1>5, <1>6
    <3> QED
      BY <3>1, <1>5
  <2> QED
    BY <2>1, <1>7
<1> QED
  BY <1>1, <1>2, <1>14, <1>15

(* The places of a ring, one after the other. *)
Round(g, r, h, s, L) ==
  /\ L \in Nat /\ L = Len(s) /\ g[0] = h /\ g[L + 1] = h
  /\ \A i \in 1 .. L : g[i] = s[i] /\ g[i] # h /\ g[i] \in ToSet(s)
  /\ \A i \in 0 .. L + 1 : g[i] \in QU!Links /\ g[i] \in Cycle(h, s) /\ g[i] = At(h, s, i)
  /\ \A i, j \in 0 .. L : g[i] = g[j] => i = j
  /\ \A i, j \in 1 .. L + 1 : g[i] = g[j] => i = j
  /\ \A i \in 0 .. L : r.next[g[i]] = g[i + 1] /\ r.prev[g[i + 1]] = g[i]

LEMMA RoundIs ==
  ASSUME NEW h \in Heads, NEW s, Line(s, Elements), NEW r, Follows(r, h, s)
  PROVE  \E g : Round(g, r, h, s, Len(s))
<1>1. PICK L : L = Len(s)
  BY Zenon
<1>2. Placed(h, s, L)
  BY <1>1, PlacesAre
<1>3. L \in Nat
  BY <1>2 DEF Placed
<1>4. /\ 0 .. L \subseteq 0 .. L + 1 /\ 1 .. L + 1 \subseteq 0 .. L + 1 /\ 1 .. L \subseteq 0 .. L + 1
      /\ 0 \in 0 .. L + 1 /\ L + 1 \in 0 .. L + 1 /\ \A i \in 0 .. L : i + 1 \in 0 .. L + 1
  BY <1>3
<1>5. PICK g : g = [i \in 0 .. L + 1 |-> At(h, s, i)]
  BY Zenon
<1>6. \A i \in 0 .. L + 1 : g[i] = At(h, s, i)
  BY <1>5
<1>7. \A i \in 0 .. L : r.next[g[i]] = g[i + 1] /\ r.prev[g[i + 1]] = g[i]
  BY <1>1, <1>4, <1>6 DEF Follows
<1>8. Round(g, r, h, s, L)
  BY <1>1, <1>2, <1>3, <1>4, <1>6, <1>7, SMTT(30) DEF Round, Placed
<1> QED
  BY <1>1, <1>8

LEMMA FollowsIf ==
  ASSUME NEW h, NEW t, NEW M \in Nat, Len(t) = M, NEW q, NEW k, k[0] = h, k[M + 1] = h,
         \A i \in 1 .. M : k[i] = t[i],
         \A i \in 0 .. M : q.next[k[i]] = k[i + 1] /\ q.prev[k[i + 1]] = k[i]
  PROVE  Follows(q, h, t)
<1>1. \A i \in 0 .. M + 1 : i \notin 1 .. M => i = 0 \/ i = M + 1
  OBVIOUS
<1>2. \A i \in 0 .. M + 1 : At(h, t, i) = k[i]
  BY <1>1 DEF At
<1>3. \A i \in 0 .. M : i \in 0 .. M + 1 /\ i + 1 \in 0 .. M + 1
  OBVIOUS
<1> QED
  BY <1>2, <1>3 DEF Follows

(* One less. *)
Shrunk(q, r, h, s, n) ==
  /\ Line(RemoveAt(s, n), Elements) /\ ToSet(RemoveAt(s, n)) = ToSet(s) \ {s[n]}
  /\ Follows(q, h, RemoveAt(s, n)) /\ q.next[s[n]] = NULL /\ q.prev[s[n]] = NULL
  /\ \A y \in QU!Links : y \notin Cycle(h, s) => q.next[y] = r.next[y] /\ q.prev[y] = r.prev[y]

LEMMA RemoveFollows ==
  ASSUME NEW h \in Heads, NEW s, Line(s, Elements), NEW r \in Rings, Follows(r, h, s),
         NEW n \in 1 .. Len(s), NEW q,
         Without(q, r, At(h, s, n - 1), s[n], At(h, s, n + 1))
  PROVE  Shrunk(q, r, h, s, n)
<1>1. PICK L, t, x : L = Len(s) /\ t = RemoveAt(s, n) /\ x = s[n]
  OBVIOUS
<1>2. /\ Line(t, Elements) /\ Len(t) = L - 1 /\ ToSet(t) = ToSet(s) \ {x}
      /\ \A p \in 1 .. L - 1 : t[p] = IF p < n THEN s[p] ELSE s[p + 1]
  <2>1. /\ Line(RemoveAt(s, n), Elements) /\ Len(RemoveAt(s, n)) = L - 1
        /\ ToSet(RemoveAt(s, n)) = ToSet(s) \ {s[n]}
        /\ \A p \in 1 .. L - 1 : RemoveAt(s, n)[p] = IF p < n THEN s[p] ELSE s[p + 1]
    <3>1. Line(s, Elements) /\ n \in 1 .. Len(s) /\ L = Len(s)
      BY <1>1
    <3> QED
      BY <3>1, RemovedLine, SMTT(60)
  <2> QED
    BY <2>1, <1>1
<1>3. PICK g : Round(g, r, h, s, L)
  BY <1>1, RoundIs
<1>4. L \in Nat /\ n \in 1 .. L /\ n - 1 \in 0 .. L + 1 /\ n + 1 \in 0 .. L + 1 /\ n \in 0 .. L + 1
  BY <1>1, <1>3 DEF Round
<1>5. \A y \in QU!Links :
        /\ q.next[y] = IF y = x THEN NULL ELSE IF y = g[n - 1] THEN g[n + 1] ELSE r.next[y]
        /\ q.prev[y] = IF y = x THEN NULL ELSE IF y = g[n + 1] THEN g[n - 1] ELSE r.prev[y]
  <2>1. At(h, s, n - 1) = g[n - 1] /\ At(h, s, n + 1) = g[n + 1]
    BY <1>3, <1>4 DEF Round
  <2> QED
    BY <2>1, <1>1 DEF Without
<1>6. x = g[n] /\ x \in QU!Links
  BY <1>1, <1>3, <1>4 DEF Round
<1>7. PICK M : M = L - 1
  OBVIOUS
<1>8. M \in Nat /\ M + 1 = L
  BY <1>4, <1>7
<1>9. PICK k : k = [i \in 0 .. L |-> IF i < n THEN g[i] ELSE g[i + 1]]
  BY Zenon
<1>10. k[0] = h /\ k[M + 1] = h
  <2>1. 0 \in 0 .. L /\ L \in 0 .. L /\ 0 < n /\ ~(L < n)
    BY <1>4
  <2> QED
    BY <2>1, <1>3, <1>8, <1>9 DEF Round
<1>11. ASSUME NEW i \in 1 .. M PROVE k[i] = t[i]
  <2>1. i \in 0 .. L /\ i \in 1 .. L /\ i + 1 \in 1 .. L /\ i \in 1 .. L - 1
    BY <1>4, <1>7
  <2>2. g[i] = s[i] /\ g[i + 1] = s[i + 1]
    BY <2>1, <1>3 DEF Round
  <2> QED
    BY <2>1, <2>2, <1>2, <1>9
<1>12. ASSUME NEW i \in 0 .. M PROVE q.next[k[i]] = k[i + 1] /\ q.prev[k[i + 1]] = k[i]
  <2>0. i \in 0 .. L /\ i + 1 \in 0 .. L /\ i \in Int /\ i < L
    BY <1>4, <1>7
  <2>1. CASE i < n - 1
    <3>1. /\ i < n /\ i + 1 < n /\ i # n - 1 /\ i # n /\ i + 1 # n /\ i + 1 # n + 1
          /\ n - 1 \in 0 .. L /\ n \in 0 .. L /\ i + 1 \in 1 .. L + 1 /\ n + 1 \in 1 .. L + 1 /\ n \in 1 .. L + 1
          /\ i \in 0 .. L + 1 /\ i + 1 \in 0 .. L + 1
      BY <2>0, <2>1, <1>4
    <3>2. k[i] = g[i] /\ k[i + 1] = g[i + 1]
      BY <3>1, <2>0, <1>9
    <3>3. g[i] # g[n - 1] /\ g[i + 1] # g[n + 1] /\ g[i] # x /\ g[i + 1] # x
      BY <3>1, <2>0, <1>3, <1>6 DEF Round
    <3>4. g[i] \in QU!Links /\ g[i + 1] \in QU!Links /\ r.next[g[i]] = g[i + 1] /\ r.prev[g[i + 1]] = g[i]
      BY <3>1, <2>0, <1>3 DEF Round
    <3> QED
      BY <3>2, <3>3, <3>4, <1>5
  <2>2. CASE i = n - 1
    <3>1. /\ i < n /\ i + 1 = n /\ ~(i + 1 < n) /\ n - 1 # n /\ n + 1 # n
          /\ n - 1 \in 0 .. L /\ n \in 0 .. L /\ n + 1 \in 1 .. L + 1 /\ n \in 1 .. L + 1
      BY <2>2, <1>4
    <3>2. k[i] = g[n - 1] /\ k[i + 1] = g[n + 1]
      BY <3>1, <2>0, <2>2, <1>9
    <3>3. g[n - 1] # x /\ g[n + 1] # x
      BY <3>1, <1>3, <1>6 DEF Round
    <3>4. g[n - 1] \in QU!Links /\ g[n + 1] \in QU!Links
      BY <1>3, <1>4 DEF Round
    <3> QED
      BY <3>2, <3>3, <3>4, <1>5
  <2>3. CASE i >= n
    <3>1. /\ ~(i < n) /\ ~(i + 1 < n) /\ i + 1 # n - 1 /\ i + 1 # n /\ (i + 1) + 1 # n /\ (i + 1) + 1 # n + 1
          /\ n - 1 \in 0 .. L /\ n \in 0 .. L /\ i + 1 \in 0 .. L /\ (i + 1) + 1 \in 1 .. L + 1
          /\ n + 1 \in 1 .. L + 1 /\ n \in 1 .. L + 1
          /\ i + 1 \in 0 .. L + 1 /\ (i + 1) + 1 \in 0 .. L + 1
      BY <2>0, <2>3, <1>4
    <3>2. k[i] = g[i + 1] /\ k[i + 1] = g[(i + 1) + 1]
      BY <3>1, <2>0, <1>9
    <3>3. g[i + 1] # g[n - 1] /\ g[(i + 1) + 1] # g[n + 1] /\ g[i + 1] # x /\ g[(i + 1) + 1] # x
      BY <3>1, <1>3, <1>6 DEF Round
    <3>4. /\ g[i + 1] \in QU!Links /\ g[(i + 1) + 1] \in QU!Links
          /\ r.next[g[i + 1]] = g[(i + 1) + 1] /\ r.prev[g[(i + 1) + 1]] = g[i + 1]
      BY <3>1, <1>3 DEF Round
    <3> QED
      BY <3>2, <3>3, <3>4, <1>5
  <2> QED
    BY <2>0, <2>1, <2>2, <2>3, <1>4
<1>13. Follows(q, h, t)
  <2>1. Len(t) = M
    BY <1>2, <1>7
  <2> QED
    BY <2>1, <1>8, <1>10, <1>11, <1>12, FollowsIf, SMTT(30)
<1>14. \A y \in QU!Links : y \notin Cycle(h, s) => q.next[y] = r.next[y] /\ q.prev[y] = r.prev[y]
  <2>1. g[n - 1] \in Cycle(h, s) /\ g[n + 1] \in Cycle(h, s) /\ x \in Cycle(h, s)
    BY <1>3, <1>4, <1>6 DEF Round
  <2> QED
    BY <2>1, <1>5
<1>15. q.next[x] = NULL /\ q.prev[x] = NULL
  BY <1>5, <1>6
<1> QED
  BY <1>1, <1>2, <1>13, <1>14, <1>15 DEF Shrunk

(* A queue without elements. *)
LEMMA EmptyFollows ==
  ASSUME NEW h, NEW q, q.next[h] = h, q.prev[h] = h
  PROVE  Follows(q, h, << >>)
<1>1. \A i \in 0 .. 1 : At(h, << >>, i) = h
  BY DEF At
<1>2. Len(<< >>) = 0
  OBVIOUS
<1>3. \A i \in 0 .. 0 : i \in 0 .. 1 /\ i + 1 \in 0 .. 1
  OBVIOUS
<1> QED
  BY <1>1, <1>2, <1>3 DEF Follows

(* A ring none of whose links changes. *)
LEMMA FollowsStays ==
  ASSUME NEW h \in Heads, NEW s, Line(s, Elements), NEW r, Follows(r, h, s), NEW q,
         \A y \in Cycle(h, s) : q.next[y] = r.next[y] /\ q.prev[y] = r.prev[y]
  PROVE  Follows(q, h, s)
<1>1. PICK L : L = Len(s)
  BY Zenon
<1>2. Placed(h, s, L)
  BY <1>1, PlacesAre
<1>3. L \in Nat /\ \A i \in 0 .. L + 1 : At(h, s, i) \in Cycle(h, s)
  BY <1>2 DEF Placed
<1>4. \A i \in 0 .. L : i \in 0 .. L + 1 /\ i + 1 \in 0 .. L + 1
  BY <1>3
<1> QED
  BY <1>1, <1>3, <1>4 DEF Follows

(* Two lines one behind the other in the ring of the first. *)
LEMMA JoinFollows ==
  ASSUME NEW h \in Heads, NEW n \in Heads, h # n, NEW s, Line(s, Elements), NEW u, Line(u, Elements),
         ToSet(s) \cap ToSet(u) = {}, Len(u) # 0,
         NEW r, Follows(r, h, s), Follows(r, n, u), NEW q,
         Joined(q, r, h, n, At(h, s, Len(s)), u[1], u[Len(u)])
  PROVE  Follows(q, h, s \o u) /\ Follows(q, n, << >>)
<1>1. PICK L, M, t : L = Len(s) /\ M = Len(u) /\ t = s \o u
  BY Zenon
<1>2. PICK g : Round(g, r, h, s, L)
  BY <1>1, RoundIs
<1>3. PICK e : Round(e, r, n, u, M)
  BY <1>1, RoundIs
<1>4. L \in Nat /\ M \in Nat /\ M # 0 /\ L + M \in Nat /\ 1 \in 1 .. M /\ M \in 1 .. M
  BY <1>1, <1>2, <1>3 DEF Round
<1>5. Len(t) = L + M /\ \A i \in 1 .. L + M : t[i] = IF i <= L THEN s[i] ELSE u[i - L]
  <2>1. s \in Seq(Elements) /\ u \in Seq(Elements)
    BY DEF Line
  <2>2. /\ Len(s \o u) = Len(s) + Len(u)
        /\ \A i \in 1 .. Len(s) + Len(u) : (s \o u)[i] = IF i <= Len(s) THEN s[i] ELSE u[i - Len(s)]
    BY <2>1, ConcatProperties
  <2> QED
    BY <2>2, <1>1
<1>6. PICK a, c, d : a = g[L] /\ c = e[1] /\ d = e[M]
  OBVIOUS
<1>7. \A y \in QU!Links :
        /\ q.next[y] = IF y = n THEN n ELSE IF y = a THEN c ELSE IF y = d THEN h ELSE r.next[y]
        /\ q.prev[y] = IF y = n THEN n ELSE IF y = h THEN d ELSE IF y = c THEN a ELSE r.prev[y]
  <2>1. L \in 0 .. L + 1
    BY <1>4
  <2>2. At(h, s, L) = a /\ u[1] = c /\ u[M] = d
    BY <2>1, <1>2, <1>3, <1>4, <1>6 DEF Round
  <2>3. Joined(q, r, h, n, a, c, d)
    BY <2>2, <1>1
  <2> QED
    BY <2>3 DEF Joined
<1>8. /\ \A i \in 0 .. L : g[i] \in QU!Links /\ g[i] # n /\ g[i] \notin ToSet(u)
      /\ \A i \in 1 .. M : e[i] \in QU!Links /\ e[i] # n /\ e[i] # h /\ e[i] \notin Cycle(h, s)
  <2>1. ToSet(u) \subseteq Elements /\ ToSet(s) \subseteq Elements
    BY LineParts
  <2>2. Heads \cap Elements = {}
    BY QUParameters
  <2>3. \A i \in 0 .. L : i \in 0 .. L + 1
    BY <1>4
  <2>4. \A i \in 0 .. L : g[i] \in QU!Links /\ g[i] \in Cycle(h, s)
    BY <2>3, <1>2 DEF Round
  <2>5. \A i \in 1 .. M : e[i] \in QU!Links /\ e[i] \in ToSet(u) /\ e[i] # n
    <3>1. \A i \in 1 .. M : i \in 0 .. M + 1
      BY <1>4
    <3> QED
      BY <3>1, <1>3 DEF Round
  <2> QED
    BY <2>1, <2>2, <2>4, <2>5 DEF Cycle
<1>9. a \in QU!Links /\ a \in Cycle(h, s) /\ c \in ToSet(u) /\ d \in ToSet(u) /\ n \in QU!Links /\ h \in QU!Links
  <2>1. L \in 0 .. L + 1
    BY <1>4
  <2> QED
    BY <2>1, <1>2, <1>3, <1>4, <1>6, QUParameters DEF Round
<1>10. PICK K : K = L + M
  OBVIOUS
<1>11. PICK k : k = [i \in 0 .. K + 1 |-> IF i <= L THEN g[i] ELSE IF i <= K THEN e[i - L] ELSE h]
  BY Zenon
<1>12. K \in Nat /\ k[0] = h /\ k[K + 1] = h
  <2>1. K \in Nat /\ 0 \in 0 .. K + 1 /\ K + 1 \in 0 .. K + 1 /\ 0 <= L /\ ~(K + 1 <= L) /\ ~(K + 1 <= K)
    BY <1>4, <1>10
  <2> QED
    BY <2>1, <1>2, <1>11 DEF Round
<1>13. ASSUME NEW i \in 1 .. K PROVE k[i] = t[i]
  <2>1. i \in 0 .. K + 1 /\ i <= K /\ i \in 1 .. L + M
    BY <1>4, <1>10
  <2>2. (i <= L => i \in 1 .. L) /\ (~(i <= L) => i - L \in 1 .. M)
    BY <2>1, <1>4, <1>10
  <2> QED
    BY <2>1, <2>2, <1>2, <1>3, <1>5, <1>11 DEF Round
<1>14. ASSUME NEW i \in 0 .. K PROVE q.next[k[i]] = k[i + 1] /\ q.prev[k[i + 1]] = k[i]
  <2>0. i \in 0 .. K + 1 /\ i + 1 \in 0 .. K + 1 /\ i \in Int /\ i <= K
    BY <1>4, <1>10
  <2>1. CASE i < L
    <3>1. i <= L /\ i + 1 <= L /\ i # L /\ i \in 0 .. L /\ i + 1 \in 0 .. L /\ L \in 0 .. L /\ i + 1 \in 1 .. L
      BY <2>0, <2>1, <1>4
    <3>2. k[i] = g[i] /\ k[i + 1] = g[i + 1]
      BY <3>1, <2>0, <1>11
    <3>3. /\ g[i] # a /\ g[i] # n /\ g[i] # d /\ g[i + 1] # n /\ g[i + 1] # h /\ g[i + 1] # c
          /\ g[i] \in QU!Links /\ g[i + 1] \in QU!Links
      BY <3>1, <1>2, <1>6, <1>8, <1>9 DEF Round
    <3>4. r.next[g[i]] = g[i + 1] /\ r.prev[g[i + 1]] = g[i]
      BY <3>1, <1>2 DEF Round
    <3> QED
      BY <3>2, <3>3, <3>4, <1>7
  <2>2. CASE i = L
    <3>1. i <= L /\ ~(i + 1 <= L) /\ i + 1 <= K /\ (i + 1) - L = 1 /\ L \in 0 .. L
      BY <2>2, <1>4, <1>10
    <3>2. k[i] = a /\ k[i + 1] = c
      BY <3>1, <2>0, <2>2, <1>6, <1>11
    <3>3. a # n /\ c # n /\ c # h /\ c \in QU!Links
      BY <3>1, <1>4, <1>6, <1>8
    <3> QED
      BY <3>2, <3>3, <1>7, <1>9
  <2>3. CASE L < i /\ i < K
    <3>1. /\ ~(i <= L) /\ i <= K /\ ~(i + 1 <= L) /\ i + 1 <= K /\ (i + 1) - L = (i - L) + 1
          /\ i - L \in 1 .. M /\ (i - L) + 1 \in 1 .. M /\ i - L # M /\ (i - L) + 1 # 1
          /\ i - L \in 0 .. M /\ M \in 0 .. M /\ 1 \in 0 .. M /\ (i - L) + 1 \in 0 .. M
      BY <2>0, <2>3, <1>4, <1>10
    <3>2. k[i] = e[i - L] /\ k[i + 1] = e[(i - L) + 1]
      BY <3>1, <2>0, <1>11
    <3>3. /\ e[i - L] # n /\ e[i - L] # a /\ e[(i - L) + 1] # n /\ e[(i - L) + 1] # h
          /\ e[i - L] \in QU!Links /\ e[(i - L) + 1] \in QU!Links
      BY <3>1, <1>8, <1>9
    <3>4. e[i - L] # d /\ e[(i - L) + 1] # c
      BY <3>1, <1>3, <1>6 DEF Round
    <3>5. r.next[e[i - L]] = e[(i - L) + 1] /\ r.prev[e[(i - L) + 1]] = e[i - L]
      BY <3>1, <1>3, Zenon DEF Round
    <3> QED
      BY <3>2, <3>3, <3>4, <3>5, <1>7
  <2>4. CASE i = K
    <3>1. ~(i <= L) /\ i <= K /\ ~(i + 1 <= L) /\ ~(i + 1 <= K) /\ i - L = M
      BY <2>4, <1>4, <1>10
    <3>2. k[i] = d /\ k[i + 1] = h
      BY <3>1, <2>0, <1>6, <1>11
    <3>3. d # n /\ d # a /\ d \in QU!Links
      BY <1>4, <1>6, <1>8, <1>9
    <3> QED
      BY <3>2, <3>3, <1>7, <1>9
  <2> QED
    BY <2>0, <2>1, <2>2, <2>3, <2>4, <1>4, <1>12
<1>15. Follows(q, h, t)
  <2>1. /\ K \in Nat /\ Len(t) = K /\ k[0] = h /\ k[K + 1] = h /\ (\A i \in 1 .. K : k[i] = t[i])
        /\ \A i \in 0 .. K : q.next[k[i]] = k[i + 1] /\ q.prev[k[i + 1]] = k[i]
    BY <1>5, <1>10, <1>12, <1>13, <1>14
  <2>2. \A i \in 0 .. K + 1 : At(h, t, i) = k[i]
    <3>1. \A i \in 0 .. K + 1 : i \notin 1 .. K => i = 0 \/ i = K + 1
      BY <2>1
    <3> QED
      BY <2>1, <3>1 DEF At
  <2>3. \A i \in 0 .. K : i \in 0 .. K + 1 /\ i + 1 \in 0 .. K + 1
    BY <2>1
  <2> QED
    BY <2>1, <2>2, <2>3, Zenon DEF Follows
<1>16. Follows(q, n, << >>)
  <2>1. q.next[n] = n /\ q.prev[n] = n
    BY <1>7, <1>9
  <2> QED
    BY <2>1, EmptyFollows
<1> QED
  BY <1>1, <1>15, <1>16

(* A line in two rings. *)
LEMMA SplitFollows ==
  ASSUME NEW h \in Heads, NEW n \in Heads, h # n, NEW s, Line(s, Elements),
         NEW r, Follows(r, h, s), NEW p \in 1 .. Len(s), NEW q,
         Divided(q, r, h, s[p], n, s[Len(s)], At(h, s, p - 1))
  PROVE  Follows(q, h, SubSeq(s, 1, p - 1)) /\ Follows(q, n, SubSeq(s, p, Len(s)))
<1>1. PICK L, t, u : L = Len(s) /\ t = SubSeq(s, 1, p - 1) /\ u = SubSeq(s, p, L)
  BY Zenon
<1>2. PICK g : Round(g, r, h, s, L)
  BY <1>1, RoundIs
<1>3. /\ L \in Nat /\ p \in 1 .. L /\ L \in 1 .. L /\ p - 1 \in 0 .. L + 1 /\ p - 1 \in 0 .. L
      /\ L \in 0 .. L /\ p \in 0 .. L /\ L \in 0 .. L + 1 /\ p \in 0 .. L + 1 /\ p - 1 \in Nat
  BY <1>1, <1>2 DEF Round
<1>4. PICK a, b, x : a = g[L] /\ b = g[p - 1] /\ x = g[p]
  OBVIOUS
<1>5. \A y \in QU!Links :
        /\ q.next[y] = IF y = b THEN h ELSE IF y = n THEN x ELSE IF y = a THEN n ELSE r.next[y]
        /\ q.prev[y] = IF y = x THEN n ELSE IF y = h THEN b ELSE IF y = n THEN a ELSE r.prev[y]
  <2>1. At(h, s, p - 1) = b /\ s[p] = x /\ s[L] = a
    BY <1>2, <1>3, <1>4 DEF Round
  <2>2. Divided(q, r, h, x, n, a, b)
    BY <2>1, <1>1
  <2> QED
    BY <2>2 DEF Divided
<1>6. \A i \in 0 .. L : g[i] \in QU!Links /\ g[i] # n
  <2>1. ToSet(s) \subseteq Elements /\ Heads \cap Elements = {}
    BY LineParts, QUParameters
  <2>2. \A i \in 0 .. L : i \in 0 .. L + 1
    BY <1>3
  <2>3. \A i \in 0 .. L : g[i] \in QU!Links /\ g[i] \in Cycle(h, s)
    BY <2>2, <1>2 DEF Round
  <2> QED
    BY <2>1, <2>3 DEF Cycle
<1>7. a \in QU!Links /\ b \in QU!Links /\ x \in QU!Links /\ n \in QU!Links /\ h \in QU!Links
      /\ a # n /\ b # n /\ x # n /\ x # h /\ a # h /\ a # b
  <2>1. a # b
    <3>1. p - 1 # L
      BY <1>3
    <3> QED
      BY <3>1, <1>2, <1>3, <1>4 DEF Round
  <2> QED
    BY <2>1, <1>2, <1>3, <1>4, <1>6, QUParameters DEF Round
<1>8. s \in Seq(Elements) /\ s \in [1 .. L -> Elements]
  BY <1>1, LineParts DEF Line
<1>9. Len(t) = p - 1 /\ \A i \in 1 .. p - 1 : t[i] = s[i]
  BY <1>1, <1>3, <1>8, SubSeqProperties
<1>10. Len(u) = (L - p) + 1 /\ \A i \in 1 .. (L - p) + 1 : u[i] = s[(p + i) - 1]
  BY <1>1, <1>3, <1>8, SubSeqProperties
<1>11. Follows(q, h, t)
  <2>1. PICK M : M = p - 1
    OBVIOUS
  <2>2. M \in Nat /\ M + 1 = p /\ M \in 0 .. L
    BY <1>3, <2>1
  <2>3. PICK k : k = [i \in 0 .. M + 1 |-> IF i <= M THEN g[i] ELSE h]
    BY Zenon
  <2>4. k[0] = h /\ k[M + 1] = h
    <3>1. 0 \in 0 .. M + 1 /\ 0 <= M /\ M + 1 \in 0 .. M + 1 /\ ~(M + 1 <= M)
      BY <2>2
    <3> QED
      BY <3>1, <1>2, <2>3 DEF Round
  <2>5. ASSUME NEW i \in 1 .. M PROVE k[i] = t[i]
    <3>1. i \in 0 .. M + 1 /\ i <= M /\ i \in 1 .. L /\ i \in 1 .. p - 1
      BY <2>1, <2>2, <1>3
    <3> QED
      BY <3>1, <2>3, <1>2, <1>9 DEF Round
  <2>6. ASSUME NEW i \in 0 .. M PROVE q.next[k[i]] = k[i + 1] /\ q.prev[k[i + 1]] = k[i]
    <3>0. i \in 0 .. M + 1 /\ i + 1 \in 0 .. M + 1 /\ i <= M /\ i \in Int
      BY <2>2
    <3>1. CASE i < M
      <4>1. /\ i + 1 <= M /\ i # p - 1 /\ i # L /\ i + 1 # p /\ i \in 0 .. L /\ i + 1 \in 0 .. L
            /\ i + 1 \in 1 .. L
        BY <3>0, <3>1, <2>1, <2>2, <1>3
      <4>2. k[i] = g[i] /\ k[i + 1] = g[i + 1]
        BY <4>1, <3>0, <2>3
      <4>3. /\ g[i] # b /\ g[i] # n /\ g[i] # a /\ g[i + 1] # x /\ g[i + 1] # h /\ g[i + 1] # n
            /\ g[i] \in QU!Links /\ g[i + 1] \in QU!Links
        BY <4>1, <1>2, <1>3, <1>4, <1>6, Zenon DEF Round
      <4>4. r.next[g[i]] = g[i + 1] /\ r.prev[g[i + 1]] = g[i]
        BY <4>1, <1>2, Zenon DEF Round
      <4> QED
        BY <4>2, <4>3, <4>4, <1>5
    <3>2. CASE i = M
      <4>1. ~(i + 1 <= M)
        BY <3>2, <2>2
      <4>2. k[i] = b /\ k[i + 1] = h
        BY <4>1, <3>0, <3>2, <2>1, <2>3, <1>4
      <4> QED
        BY <4>2, <1>5, <1>7
    <3> QED
      BY <3>0, <3>1, <3>2, <2>2
  <2>7. Len(t) = M
    BY <1>9, <2>1
  <2> QED
    BY <2>2, <2>4, <2>5, <2>6, <2>7, FollowsIf
<1>12. Follows(q, n, u)
  <2>1. PICK M : M = (L - p) + 1
    OBVIOUS
  <2>2. M \in Nat /\ M >= 1 /\ (p + M) - 1 = L
    BY <1>3, <2>1
  <2>3. PICK k : k = [i \in 0 .. M + 1 |-> IF 1 <= i /\ i <= M THEN g[(p + i) - 1] ELSE n]
    BY Zenon
  <2>4. k[0] = n /\ k[M + 1] = n
    <3>1. 0 \in 0 .. M + 1 /\ ~(1 <= 0) /\ M + 1 \in 0 .. M + 1 /\ ~(M + 1 <= M)
      BY <2>2
    <3> QED
      BY <3>1, <2>3
  <2>5. ASSUME NEW i \in 1 .. M PROVE k[i] = u[i]
    <3>1. i \in 0 .. M + 1 /\ 1 <= i /\ i <= M /\ (p + i) - 1 \in 1 .. L /\ i \in 1 .. (L - p) + 1
      BY <2>1, <2>2, <1>3
    <3> QED
      BY <3>1, <2>3, <1>2, <1>10, Zenon DEF Round
  <2>6. ASSUME NEW i \in 0 .. M PROVE q.next[k[i]] = k[i + 1] /\ q.prev[k[i + 1]] = k[i]
    <3>0. i \in 0 .. M + 1 /\ i + 1 \in 0 .. M + 1 /\ i <= M /\ i \in Int /\ 1 <= i + 1
      BY <2>2
    <3>1. CASE i = 0
      <4>1. ~(1 <= i) /\ i + 1 <= M /\ (p + (i + 1)) - 1 = p
        BY <3>1, <2>2, <1>3
      <4>2. k[i] = n /\ k[i + 1] = x
        BY <4>1, <3>0, <2>3, <1>4
      <4> QED
        BY <4>2, <1>5, <1>7
    <3>2. CASE 1 <= i /\ i < M
      <4>1. PICK j : j = (p + i) - 1
        OBVIOUS
      <4>2. /\ (p + (i + 1)) - 1 = j + 1 /\ j \in 0 .. L /\ j + 1 \in 0 .. L /\ j + 1 \in 1 .. L
            /\ j # p - 1 /\ j # L /\ j + 1 # p /\ i + 1 <= M
        BY <3>0, <3>2, <4>1, <2>2, <1>3
      <4>3. k[i] = g[j] /\ k[i + 1] = g[j + 1]
        BY <4>1, <4>2, <3>0, <3>2, <2>3
      <4>4. /\ g[j] # b /\ g[j] # n /\ g[j] # a /\ g[j + 1] # x /\ g[j + 1] # h /\ g[j + 1] # n
            /\ g[j] \in QU!Links /\ g[j + 1] \in QU!Links
        BY <4>2, <1>2, <1>3, <1>4, <1>6, Zenon DEF Round
      <4>5. r.next[g[j]] = g[j + 1] /\ r.prev[g[j + 1]] = g[j]
        BY <4>2, <1>2 DEF Round
      <4> QED
        BY <4>3, <4>4, <4>5, <1>5
    <3>3. CASE i = M
      <4>1. 1 <= i /\ ~(i + 1 <= M) /\ (p + i) - 1 = L
        BY <3>3, <2>2
      <4>2. k[i] = a /\ k[i + 1] = n
        BY <4>1, <3>0, <2>3, <1>4
      <4> QED
        BY <4>2, <1>5, <1>7
    <3> QED
      BY <3>0, <3>1, <3>2, <3>3, <2>2
  <2>7. Len(u) = M
    BY <1>10, <2>1
  <2> QED
    BY <2>2, <2>4, <2>5, <2>6, <2>7, FollowsIf, Zenon
<1> QED
  BY <1>1, <1>11, <1>12

(* Every line's ring follows it, no two lines share an element, and what   *)
(* is in none is linked nowhere.                                           *)
QueueOK(r, l) ==
  /\ r \in Rings /\ l \in [Heads -> Seq(Elements)]
  /\ \A h \in Heads : Line(l[h], Elements) /\ Follows(r, h, l[h])
  /\ \A h, g \in Heads : h # g => ToSet(l[h]) \cap ToSet(l[g]) = {}
  /\ \A x \in Elements : (\A h \in Heads : x \notin ToSet(l[h])) => r.prev[x] = NULL /\ r.next[x] = NULL

QueueInv == QueueOK(QU!ring, line)

LEMMA CyclesApart ==
  ASSUME NEW r, NEW l, QueueOK(r, l), NEW h \in Heads, NEW g \in Heads, h # g
  PROVE  /\ Cycle(h, l[h]) \cap Cycle(g, l[g]) = {} /\ Cycle(h, l[h]) \subseteq QU!Links
         /\ ToSet(l[h]) \subseteq Elements
<1>1. \A k \in Heads : ToSet(l[k]) \subseteq Elements
  <2> SUFFICES ASSUME NEW k \in Heads PROVE ToSet(l[k]) \subseteq Elements
    OBVIOUS
  <2>1. Line(l[k], Elements)
    BY DEF QueueOK
  <2> QED
    BY <2>1, LineParts
<1>2. ToSet(l[h]) \cap ToSet(l[g]) = {}
  BY DEF QueueOK
<1> QED
  BY <1>1, <1>2, QUParameters DEF Cycle

(* One line changes, and its ring with it. *)
LEMMA OneChanges ==
  ASSUME NEW r, NEW l, QueueOK(r, l), NEW h \in Heads, NEW q \in Rings, NEW t,
         Line(t, Elements), Follows(q, h, t),
         \A g \in Heads : g # h => ToSet(t) \cap ToSet(l[g]) = {},
         \A y \in QU!Links : y \notin Cycle(h, l[h]) /\ y \notin ToSet(t) =>
           q.next[y] = r.next[y] /\ q.prev[y] = r.prev[y],
         \A x \in ToSet(l[h]) : x \notin ToSet(t) => q.prev[x] = NULL /\ q.next[x] = NULL
  PROVE  QueueOK(q, [l EXCEPT ![h] = t])
<1>1. PICK m : m = [l EXCEPT ![h] = t]
  BY Zenon
<1>2. l \in [Heads -> Seq(Elements)] /\ t \in Seq(Elements)
  BY DEF QueueOK, Line
<1>3. m \in [Heads -> Seq(Elements)] /\ m[h] = t /\ \A g \in Heads : g # h => m[g] = l[g]
  BY <1>1, <1>2
<1>4. ASSUME NEW g \in Heads PROVE Line(m[g], Elements) /\ Follows(q, g, m[g])
  <2>1. CASE g = h
    BY <2>1, <1>3
  <2>2. CASE g # h
    <3>1. Line(l[g], Elements) /\ Follows(r, g, l[g])
      BY DEF QueueOK
    <3>2. /\ Cycle(g, l[g]) \cap Cycle(h, l[h]) = {} /\ Cycle(g, l[g]) \subseteq QU!Links
      BY <2>2, CyclesApart
    <3>3. Cycle(g, l[g]) \cap ToSet(t) = {}
      <4>1. ToSet(t) \subseteq Elements /\ ToSet(t) \cap ToSet(l[g]) = {}
        BY <2>2, LineParts
      <4> QED
        BY <4>1, QUParameters DEF Cycle
    <3>4. \A y \in Cycle(g, l[g]) : q.next[y] = r.next[y] /\ q.prev[y] = r.prev[y]
      BY <3>2, <3>3
    <3>5. Follows(q, g, l[g])
      BY <3>1, <3>4, FollowsStays
    <3> QED
      BY <3>1, <3>5, <2>2, <1>3
  <2> QED
    BY <2>1, <2>2
<1>5. ASSUME NEW f \in Heads, NEW g \in Heads, f # g PROVE ToSet(m[f]) \cap ToSet(m[g]) = {}
  <2>1. ToSet(l[f]) \cap ToSet(l[g]) = {}
    BY <1>5 DEF QueueOK
  <2> QED
    BY <2>1, <1>3, <1>5, Zenon
<1>6. ASSUME NEW x \in Elements, \A g \in Heads : x \notin ToSet(m[g])
      PROVE  q.prev[x] = NULL /\ q.next[x] = NULL
  <2>1. x \notin ToSet(t) /\ \A g \in Heads : g # h => x \notin ToSet(l[g])
    BY <1>3, <1>6
  <2>2. CASE x \in ToSet(l[h])
    BY <2>1, <2>2
  <2>3. CASE x \notin ToSet(l[h])
    <3>1. \A g \in Heads : x \notin ToSet(l[g])
      BY <2>1, <2>3
    <3>2. r.prev[x] = NULL /\ r.next[x] = NULL
      BY <3>1 DEF QueueOK
    <3>3. x \in QU!Links /\ x \notin Cycle(h, l[h])
      BY <2>3, QUParameters DEF Cycle
    <3> QED
      BY <3>2, <3>3, <2>1
  <2> QED
    BY <2>2, <2>3
<1>7. QueueOK(q, m)
  BY <1>3, <1>4, <1>5, <1>6 DEF QueueOK
<1> QED
  BY <1>1, <1>7

LEMMA InsertOK ==
  ASSUME NEW r, NEW l, QueueOK(r, l), NEW h \in Heads, NEW n \in 1 .. Len(l[h]) + 1,
         NEW x \in Elements, \A g \in Heads : x \notin ToSet(l[g]), NEW q,
         Between(q, r, At(h, l[h], n - 1), x, At(h, l[h], n))
  PROVE  QueueOK(q, [l EXCEPT ![h] = InsertAt(l[h], n, x)])
<1>1. PICK s, t : s = l[h] /\ t = InsertAt(s, n, x)
  OBVIOUS
<1>2. Line(s, Elements) /\ Follows(r, h, s) /\ r \in Rings /\ q \in Rings /\ x \notin ToSet(s)
      /\ n \in 1 .. Len(s) + 1 /\ Between(q, r, At(h, s, n - 1), x, At(h, s, n))
  BY <1>1 DEF QueueOK, Between
<1>3. /\ Line(t, Elements) /\ ToSet(t) = ToSet(s) \cup {x} /\ Follows(q, h, t)
      /\ \A y \in QU!Links : y \notin Cycle(h, s) /\ y # x => q.next[y] = r.next[y] /\ q.prev[y] = r.prev[y]
  <2>1. /\ Line(InsertAt(s, n, x), Elements) /\ ToSet(InsertAt(s, n, x)) = ToSet(s) \cup {x}
        /\ Follows(q, h, InsertAt(s, n, x))
        /\ \A y \in QU!Links : y \notin Cycle(h, s) /\ y # x => q.next[y] = r.next[y] /\ q.prev[y] = r.prev[y]
    BY <1>2, InsertFollows, SMTT(60)
  <2> QED
    BY <2>1, <1>1
<1>4. \A g \in Heads : g # h => ToSet(t) \cap ToSet(l[g]) = {}
  <2> SUFFICES ASSUME NEW g \in Heads, g # h PROVE ToSet(t) \cap ToSet(l[g]) = {}
    OBVIOUS
  <2>1. ToSet(s) \cap ToSet(l[g]) = {} /\ x \notin ToSet(l[g])
    BY <1>1 DEF QueueOK
  <2> QED
    BY <2>1, <1>3
<1>5. \A y \in QU!Links : y \notin Cycle(h, l[h]) /\ y \notin ToSet(t) =>
        q.next[y] = r.next[y] /\ q.prev[y] = r.prev[y]
  BY <1>1, <1>3
<1>6. \A y \in ToSet(l[h]) : y \notin ToSet(t) => q.prev[y] = NULL /\ q.next[y] = NULL
  BY <1>1, <1>3
<1>7. QueueOK(q, [l EXCEPT ![h] = t])
  BY <1>2, <1>3, <1>4, <1>5, <1>6, OneChanges
<1> QED
  BY <1>1, <1>7

LEMMA RemoveOK ==
  ASSUME NEW r, NEW l, QueueOK(r, l), NEW h \in Heads, NEW n \in 1 .. Len(l[h])
  PROVE  QueueOK(QU!TakeOut(r, l[h][n]), [l EXCEPT ![h] = RemoveAt(l[h], n)])
<1>1. PICK s, t, q, x, L : /\ s = l[h] /\ t = RemoveAt(s, n) /\ x = s[n] /\ q = QU!TakeOut(r, x)
                           /\ L = Len(s)
  OBVIOUS
<1>2. Line(s, Elements) /\ Follows(r, h, s) /\ r \in Rings /\ n \in 1 .. Len(s)
  BY <1>1 DEF QueueOK
<1>3. PICK g : Round(g, r, h, s, L)
  BY <1>1, <1>2, RoundIs
<1>4. /\ L \in Nat /\ n \in 1 .. L /\ n - 1 \in 0 .. L /\ n \in 0 .. L /\ n + 1 \in 1 .. L + 1 /\ n \in 1 .. L + 1
      /\ n - 1 \in 0 .. L + 1 /\ n \in 0 .. L + 1 /\ n + 1 \in 0 .. L + 1 /\ (n - 1) + 1 = n
      /\ n - 1 # n /\ n + 1 # n
  BY <1>1, <1>3 DEF Round
<1>5. PICK a, b : a = g[n - 1] /\ b = g[n + 1]
  OBVIOUS
<1>6. /\ a \in QU!Links /\ b \in QU!Links /\ x \in QU!Links /\ x = g[n] /\ x # a /\ x # b
      /\ r.prev[x] = a /\ r.next[x] = b /\ At(h, s, n - 1) = a /\ At(h, s, n + 1) = b
  <2>1. x = g[n]
    BY <1>1, <1>3, <1>4 DEF Round
  <2>2. a \in QU!Links /\ b \in QU!Links /\ x \in QU!Links /\ At(h, s, n - 1) = a /\ At(h, s, n + 1) = b
    BY <2>1, <1>3, <1>4, <1>5 DEF Round
  <2>3. x # a /\ x # b
    BY <2>1, <1>3, <1>4, <1>5 DEF Round
  <2>4. r.prev[g[(n - 1) + 1]] = g[n - 1] /\ r.next[g[n]] = g[n + 1]
    BY <1>3, <1>4 DEF Round
  <2> QED
    BY <2>1, <2>2, <2>3, <2>4, <1>4, <1>5
<1>7. Without(q, r, a, x, b)
  <2>1. Without(QU!TakeOut(r, x), r, a, x, b)
    BY <1>2, <1>6, TakeOutIs
  <2> QED
    BY <2>1, <1>1
<1>8. /\ Line(t, Elements) /\ ToSet(t) = ToSet(s) \ {x} /\ Follows(q, h, t)
      /\ q.next[x] = NULL /\ q.prev[x] = NULL
      /\ \A y \in QU!Links : y \notin Cycle(h, s) => q.next[y] = r.next[y] /\ q.prev[y] = r.prev[y]
  <2>1. Without(q, r, At(h, s, n - 1), s[n], At(h, s, n + 1))
    BY <1>1, <1>6, <1>7
  <2>2. Shrunk(q, r, h, s, n)
    BY <2>1, <1>2, RemoveFollows
  <2> QED
    BY <2>2, <1>1 DEF Shrunk
<1>9. \A e \in Heads : e # h => ToSet(t) \cap ToSet(l[e]) = {}
  <2> SUFFICES ASSUME NEW e \in Heads, e # h PROVE ToSet(t) \cap ToSet(l[e]) = {}
    OBVIOUS
  <2>1. ToSet(s) \cap ToSet(l[e]) = {}
    BY <1>1 DEF QueueOK
  <2> QED
    BY <2>1, <1>8
<1>10. \A y \in QU!Links : y \notin Cycle(h, l[h]) /\ y \notin ToSet(t) =>
         q.next[y] = r.next[y] /\ q.prev[y] = r.prev[y]
  BY <1>1, <1>8
<1>11. \A y \in ToSet(l[h]) : y \notin ToSet(t) => q.prev[y] = NULL /\ q.next[y] = NULL
  BY <1>1, <1>8
<1>12. q \in Rings
  BY <1>7 DEF Without
<1>13. QueueOK(q, [l EXCEPT ![h] = t])
  BY <1>8, <1>9, <1>10, <1>11, <1>12, OneChanges
<1> QED
  BY <1>1, <1>13

LEMMA PutOK ==
  ASSUME NEW r, NEW l, QueueOK(r, l), NEW h \in Heads, NEW n \in 1 .. Len(l[h]) + 1,
         NEW x \in Elements, \A g \in Heads : x \notin ToSet(l[g])
  PROVE  /\ QueueOK(QU!PutAfter(r, At(h, l[h], n - 1), x), [l EXCEPT ![h] = InsertAt(l[h], n, x)])
         /\ QueueOK(QU!PutBefore(r, At(h, l[h], n), x), [l EXCEPT ![h] = InsertAt(l[h], n, x)])
<1>1. PICK s, L : s = l[h] /\ L = Len(s)
  BY Zenon
<1>2. Line(s, Elements) /\ Follows(r, h, s) /\ r \in Rings
  BY <1>1 DEF QueueOK
<1>3. PICK g : Round(g, r, h, s, L)
  BY <1>1, <1>2, RoundIs
<1>4. /\ L \in Nat /\ n \in 1 .. L + 1 /\ n - 1 \in 0 .. L /\ n - 1 \in 0 .. L + 1 /\ n \in 0 .. L + 1
      /\ (n - 1) + 1 = n
  BY <1>1, <1>3 DEF Round
<1>5. PICK a, b : a = At(h, s, n - 1) /\ b = At(h, s, n)
  OBVIOUS
<1>6. a = g[n - 1] /\ b = g[n] /\ a \in QU!Links /\ b \in QU!Links /\ a \in Cycle(h, s) /\ b \in Cycle(h, s)
  BY <1>3, <1>4, <1>5, SMTT(30) DEF Round
<1>7. r.next[a] = b /\ r.prev[b] = a
  <2>1. r.next[g[n - 1]] = g[(n - 1) + 1] /\ r.prev[g[(n - 1) + 1]] = g[n - 1]
    BY <1>3, <1>4 DEF Round
  <2> QED
    BY <2>1, <1>4, <1>6
<1>8. x \in QU!Links /\ x # a /\ x # b
  BY <1>1, <1>6, QUParameters DEF Cycle
<1>9. Between(QU!PutAfter(r, a, x), r, a, x, b) /\ Between(QU!PutBefore(r, b, x), r, a, x, b)
  BY <1>2, <1>6, <1>7, <1>8, PutAfterIs, PutBeforeIs
<1>10. PICK q, p : q = QU!PutAfter(r, a, x) /\ p = QU!PutBefore(r, b, x)
  OBVIOUS
<1>11. /\ Between(q, r, At(h, l[h], n - 1), x, At(h, l[h], n))
       /\ Between(p, r, At(h, l[h], n - 1), x, At(h, l[h], n))
  BY <1>1, <1>5, <1>9, <1>10
<1>12. QueueOK(q, [l EXCEPT ![h] = InsertAt(l[h], n, x)])
  BY <1>11, InsertOK
<1>13. QueueOK(p, [l EXCEPT ![h] = InsertAt(l[h], n, x)])
  BY <1>11, InsertOK
<1> QED
  BY <1>1, <1>5, <1>10, <1>12, <1>13

(* Two lines share out their elements anew. *)
LEMMA TwoChange ==
  ASSUME NEW r, NEW l, QueueOK(r, l), NEW h \in Heads, NEW n \in Heads, h # n, NEW q \in Rings,
         NEW t, NEW u, Line(t, Elements), Line(u, Elements), Follows(q, h, t), Follows(q, n, u),
         ToSet(t) \cup ToSet(u) = ToSet(l[h]) \cup ToSet(l[n]), ToSet(t) \cap ToSet(u) = {},
         \A y \in QU!Links : y \notin Cycle(h, l[h]) /\ y \notin Cycle(n, l[n]) =>
           q.next[y] = r.next[y] /\ q.prev[y] = r.prev[y]
  PROVE  QueueOK(q, [l EXCEPT ![h] = t, ![n] = u])
<1>1. PICK m : m = [l EXCEPT ![h] = t, ![n] = u]
  BY Zenon
<1>2. l \in [Heads -> Seq(Elements)] /\ t \in Seq(Elements) /\ u \in Seq(Elements)
  BY DEF QueueOK, Line
<1>3. /\ m \in [Heads -> Seq(Elements)] /\ m[h] = t /\ m[n] = u
      /\ \A g \in Heads : g # h /\ g # n => m[g] = l[g]
  BY <1>1, <1>2, Zenon
<1>4. ASSUME NEW g \in Heads PROVE Line(m[g], Elements) /\ Follows(q, g, m[g])
  <2>1. CASE g = h \/ g = n
    BY <2>1, <1>3
  <2>2. CASE g # h /\ g # n
    <3>1. Line(l[g], Elements) /\ Follows(r, g, l[g])
      BY DEF QueueOK
    <3>2. /\ Cycle(g, l[g]) \cap Cycle(h, l[h]) = {} /\ Cycle(g, l[g]) \subseteq QU!Links
          /\ Cycle(g, l[g]) \cap Cycle(n, l[n]) = {}
      BY <2>2, CyclesApart
    <3>3. \A y \in Cycle(g, l[g]) : q.next[y] = r.next[y] /\ q.prev[y] = r.prev[y]
      BY <3>2
    <3>4. Follows(q, g, l[g])
      BY <3>1, <3>3, FollowsStays
    <3> QED
      BY <3>1, <3>4, <2>2, <1>3
  <2> QED
    BY <2>1, <2>2
<1>5. ASSUME NEW f \in Heads, NEW g \in Heads, f # g PROVE ToSet(m[f]) \cap ToSet(m[g]) = {}
  <2>1. /\ ToSet(l[f]) \cap ToSet(l[g]) = {}
        /\ f # h => ToSet(l[f]) \cap ToSet(l[h]) = {}
        /\ f # n => ToSet(l[f]) \cap ToSet(l[n]) = {}
        /\ g # h => ToSet(l[g]) \cap ToSet(l[h]) = {}
        /\ g # n => ToSet(l[g]) \cap ToSet(l[n]) = {}
    BY <1>5 DEF QueueOK
  <2>2. CASE f \in {h, n} /\ g \in {h, n}
    BY <2>2, <1>3, <1>5
  <2>3. CASE f \in {h, n} /\ g \notin {h, n}
    <3>1. ToSet(m[f]) \subseteq ToSet(l[h]) \cup ToSet(l[n]) /\ m[g] = l[g]
      BY <2>3, <1>3
    <3>2. g # h /\ g # n
      BY <2>3
    <3> QED
      BY <3>1, <3>2, <2>1
  <2>4. CASE f \notin {h, n} /\ g \in {h, n}
    <3>1. ToSet(m[g]) \subseteq ToSet(l[h]) \cup ToSet(l[n]) /\ m[f] = l[f]
      BY <2>4, <1>3
    <3>2. f # h /\ f # n
      BY <2>4
    <3> QED
      BY <3>1, <3>2, <2>1
  <2>5. CASE f \notin {h, n} /\ g \notin {h, n}
    BY <2>1, <2>5, <1>3, Zenon
  <2> QED
    BY <2>2, <2>3, <2>4, <2>5
<1>6. ASSUME NEW x \in Elements, \A g \in Heads : x \notin ToSet(m[g])
      PROVE  q.prev[x] = NULL /\ q.next[x] = NULL
  <2>1. \A g \in Heads : x \notin ToSet(l[g])
    <3>1. x \notin ToSet(t) /\ x \notin ToSet(u)
      BY <1>3, <1>6
    <3>2. x \notin ToSet(l[h]) /\ x \notin ToSet(l[n])
      BY <3>1
    <3> QED
      BY <3>2, <1>3, <1>6
  <2>2. r.prev[x] = NULL /\ r.next[x] = NULL
    BY <2>1 DEF QueueOK
  <2>3. x \in QU!Links /\ x \notin Cycle(h, l[h]) /\ x \notin Cycle(n, l[n])
    BY <2>1, QUParameters DEF Cycle
  <2> QED
    BY <2>2, <2>3
<1>7. QueueOK(q, m)
  BY <1>3, <1>4, <1>5, <1>6, Zenon DEF QueueOK
<1> QED
  BY <1>1, <1>7

(* What lies behind the first m and up to the n-th. *)
PartIs(s, m, n) ==
  /\ Line(SubSeq(s, m + 1, n), Elements)
  /\ ToSet(SubSeq(s, m + 1, n)) = {s[j] : j \in m + 1 .. n}

LEMMA EveryPart ==
  ASSUME NEW s, Line(s, Elements), NEW m \in Nat, NEW n \in Nat, m <= n, n <= Len(s)
  PROVE  PartIs(s, m, n)
<1>1. PICK S : S = Elements
  OBVIOUS
<1>2. Line(s, S)
  BY <1>1
<1>3. Line(SubSeq(s, m + 1, n), S) /\ ToSet(SubSeq(s, m + 1, n)) = {s[j] : j \in m + 1 .. n}
  BY <1>2, PartOfLine
<1> QED
  BY <1>1, <1>3 DEF PartIs

LEMMA SplitOK ==
  ASSUME NEW r, NEW l, QueueOK(r, l), NEW h \in Heads, NEW n \in Heads, h # n, l[n] = << >>,
         NEW i \in 1 .. Len(l[h])
  PROVE  QueueOK(QU!Cut(r, h, l[h][i], n),
                 [l EXCEPT ![h] = SubSeq(l[h], 1, i - 1), ![n] = SubSeq(l[h], i, Len(l[h]))])
<1>1. PICK s, L, t, u : s = l[h] /\ L = Len(s) /\ t = SubSeq(s, 1, i - 1) /\ u = SubSeq(s, i, L)
  BY Zenon
<1>2. Line(s, Elements) /\ Follows(r, h, s) /\ r \in Rings
  BY <1>1 DEF QueueOK
<1>3. PICK g : Round(g, r, h, s, L)
  BY <1>1, <1>2, RoundIs
<1>4. /\ L \in Nat /\ i \in 1 .. L /\ L \in 1 .. L /\ i - 1 \in 0 .. L /\ L \in 0 .. L
      /\ i - 1 \in 0 .. L + 1 /\ L \in 0 .. L + 1 /\ i \in 0 .. L + 1 /\ (i - 1) + 1 = i /\ i - 1 # L
      /\ i - 1 \in Nat /\ i \in Nat
  BY <1>1, <1>3 DEF Round
<1>5. PICK a, b, x : a = g[L] /\ b = g[i - 1] /\ x = g[i]
  OBVIOUS
<1>6. /\ a \in QU!Links /\ b \in QU!Links /\ x \in QU!Links /\ a # b /\ a # h /\ x # h
      /\ a = s[L] /\ x = s[i] /\ b = At(h, s, i - 1)
      /\ a \in Cycle(h, s) /\ b \in Cycle(h, s) /\ x \in Cycle(h, s)
  <2>1. a # b
    BY <1>3, <1>4, <1>5 DEF Round
  <2> QED
    BY <2>1, <1>3, <1>4, <1>5, Zenon DEF Round
<1>7. r.prev[h] = a /\ r.prev[x] = b
  <2>1. r.prev[g[L + 1]] = g[L] /\ r.prev[g[(i - 1) + 1]] = g[i - 1] /\ g[L + 1] = h
    BY <1>3, <1>4 DEF Round
  <2> QED
    BY <2>1, <1>4, <1>5
<1>8. h \in QU!Links /\ n \in QU!Links /\ n \notin Cycle(h, s)
  <2>1. ToSet(s) \subseteq Elements
    BY <1>2, LineParts
  <2> QED
    BY <2>1, QUParameters DEF Cycle
<1>9. PICK q : q = QU!Cut(r, h, x, n)
  OBVIOUS
<1>10. n # h /\ n # x /\ n # a /\ n # b
  BY <1>6, <1>8
<1>11. Divided(q, r, h, x, n, a, b)
  <2>1. Divided(QU!Cut(r, h, x, n), r, h, x, n, a, b)
    BY <1>2, <1>6, <1>7, <1>8, <1>10, CutIs
  <2> QED
    BY <2>1, <1>9
<1>12. Follows(q, h, t) /\ Follows(q, n, u)
  <2>1. Divided(q, r, h, s[i], n, s[Len(s)], At(h, s, i - 1))
    BY <1>1, <1>6, <1>11
  <2>2. Follows(q, h, SubSeq(s, 1, i - 1)) /\ Follows(q, n, SubSeq(s, i, Len(s)))
    BY <2>1, <1>1, <1>2, SplitFollows
  <2> QED
    BY <2>2, <1>1
<1>13. PICK z, m : z = 0 /\ m = i - 1
  OBVIOUS
<1>14. z \in Nat /\ m \in Nat /\ z <= m /\ m <= L /\ L <= Len(s) /\ m <= Len(s) /\ z + 1 = 1 /\ m + 1 = i
  BY <1>1, <1>4, <1>13
<1>15. Line(t, Elements) /\ ToSet(t) = {s[j] : j \in 1 .. i - 1}
  <2>1. PartIs(s, z, m)
    BY <1>2, <1>14, EveryPart
  <2> QED
    BY <2>1, <1>1, <1>13, <1>14, Zenon DEF PartIs
<1>16. Line(u, Elements) /\ ToSet(u) = {s[j] : j \in i .. L}
  <2>1. PartIs(s, m, L)
    BY <1>2, <1>4, <1>14, EveryPart
  <2> QED
    BY <2>1, <1>1, <1>13, <1>14 DEF PartIs
<1>17. ToSet(t) \cup ToSet(u) = ToSet(s) /\ ToSet(t) \cap ToSet(u) = {}
  <2>1. ToSet(s) = {s[j] : j \in 1 .. L} /\ \A j, k \in 1 .. L : s[j] = s[k] => j = k
    <3>1. /\ \A j, k \in 1 .. Len(s) : s[j] = s[k] => j = k
          /\ ToSet(s) = {s[j] : j \in 1 .. Len(s)}
      BY <1>2, LineParts
    <3> QED
      BY <3>1, <1>1
  <2>2. /\ \A j \in 1 .. i - 1 : j \in 1 .. L /\ j \notin i .. L
        /\ \A j \in i .. L : j \in 1 .. L /\ j \notin 1 .. i - 1
        /\ \A j \in 1 .. L : j \in 1 .. i - 1 \/ j \in i .. L
    BY <1>4
  <2> QED
    BY <2>1, <2>2, <1>15, <1>16
<1>18. q \in Rings /\ \A y \in QU!Links : y \notin Cycle(h, s) /\ y # n =>
         q.next[y] = r.next[y] /\ q.prev[y] = r.prev[y]
  BY <1>6, <1>11 DEF Divided, Cycle
<1>19. QueueOK(q, [l EXCEPT ![h] = t, ![n] = u])
  <2>1. ToSet(l[n]) = {} /\ n \in Cycle(n, l[n])
    BY EmptyLine DEF Cycle
  <2>2. ToSet(t) \cup ToSet(u) = ToSet(l[h]) \cup ToSet(l[n])
    BY <2>1, <1>1, <1>17
  <2>3. \A y \in QU!Links : y \notin Cycle(h, l[h]) /\ y \notin Cycle(n, l[n]) =>
          q.next[y] = r.next[y] /\ q.prev[y] = r.prev[y]
    BY <2>1, <1>1, <1>18
  <2> QED
    BY <2>2, <2>3, <1>12, <1>15, <1>16, <1>17, <1>18, TwoChange, Zenon
<1> QED
  BY <1>1, <1>6, <1>9, <1>19

LEMMA AddOK ==
  ASSUME NEW r, NEW l, QueueOK(r, l), NEW h \in Heads, NEW n \in Heads, h # n
  PROVE  QueueOK(Added(r, h, n), [l EXCEPT ![h] = l[h] \o l[n], ![n] = << >>])
<1>1. PICK s, u, t, q, L, M : /\ s = l[h] /\ u = l[n] /\ t = s \o u /\ q = Added(r, h, n)
                              /\ L = Len(s) /\ M = Len(u)
  BY Zenon
<1>2. /\ Line(s, Elements) /\ Follows(r, h, s) /\ Line(u, Elements) /\ Follows(r, n, u) /\ r \in Rings
      /\ ToSet(s) \cap ToSet(u) = {} /\ l \in [Heads -> Seq(Elements)]
  BY <1>1 DEF QueueOK
<1>3. PICK g : Round(g, r, h, s, L)
  BY <1>1, <1>2, RoundIs
<1>4. PICK e : Round(e, r, n, u, M)
  BY <1>1, <1>2, RoundIs
<1>5. L \in Nat /\ M \in Nat /\ L \in 0 .. L /\ L \in 0 .. L + 1 /\ 0 \in 0 .. M /\ M \in 0 .. M
  BY <1>3, <1>4 DEF Round
<1>6. PICK a : a = g[L]
  OBVIOUS
<1>7. /\ a \in QU!Links /\ a \in Cycle(h, s) /\ a = At(h, s, L) /\ r.prev[h] = a /\ r.next[a] = h
      /\ h \in QU!Links /\ n \in QU!Links
  BY <1>3, <1>5, <1>6, QUParameters DEF Round
<1>8. Cycle(h, s) \cap Cycle(n, u) = {}
  BY <1>1, CyclesApart, Zenon
<1>9. n # a /\ n # h
  BY <1>7, <1>8 DEF Cycle
<1>10. CASE M = 0
  <2>1. u = << >>
    BY <1>1, <1>2, <1>10, EmptySeq, Zenon DEF Line
  <2>2. r.next[n] = n /\ r.prev[n] = n
    <3>1. e[0] = n /\ e[1] = n /\ 0 + 1 = 1
      BY <1>4, <1>10 DEF Round
    <3>2. r.next[e[0]] = e[0 + 1] /\ r.prev[e[0 + 1]] = e[0]
      BY <1>4, <1>5 DEF Round
    <3> QED
      BY <3>1, <3>2
  <2>3. SameLinks(q, r)
    <3>1. SameLinks(Added(r, h, n), r)
      BY <2>2, <1>2, <1>7, <1>9, JoinNothing
    <3> QED
      BY <3>1, <1>1
  <2>4. t = s
    BY <2>1, <1>1, <1>2 DEF Line
  <2>5. [l EXCEPT ![h] = t, ![n] = << >>] = l
    BY <2>1, <2>4, <1>1, <1>2
  <2>6. \A k \in Heads : Line(l[k], Elements) /\ Follows(q, k, l[k])
    <3> SUFFICES ASSUME NEW k \in Heads PROVE Line(l[k], Elements) /\ Follows(q, k, l[k])
      OBVIOUS
    <3>1. Line(l[k], Elements) /\ Follows(r, k, l[k])
      BY DEF QueueOK
    <3>2. Cycle(k, l[k]) \subseteq QU!Links
      <4>1. ToSet(l[k]) \subseteq Elements
        BY <3>1, LineParts
      <4> QED
        BY <4>1, QUParameters DEF Cycle
    <3>3. \A y \in Cycle(k, l[k]) : q.next[y] = r.next[y] /\ q.prev[y] = r.prev[y]
      BY <3>2, <2>3 DEF SameLinks
    <3> QED
      BY <3>1, <3>3, FollowsStays
  <2>7. \A x \in Elements : q.next[x] = r.next[x] /\ q.prev[x] = r.prev[x]
    BY <2>3, QUParameters DEF SameLinks
  <2>8. QueueOK(q, l)
    BY <2>3, <2>6, <2>7, Zenon DEF QueueOK, SameLinks
  <2> QED
    BY <2>5, <2>8, <1>1, Zenon
<1>11. CASE M # 0
  <2>1. 1 \in 1 .. M /\ M \in 1 .. M /\ 0 + 1 = 1 /\ 1 \in 0 .. M + 1 /\ M \in 0 .. M + 1
    BY <1>5, <1>11
  <2>2. PICK c, d : c = e[1] /\ d = e[M]
    OBVIOUS
  <2>3. /\ c = u[1] /\ d = u[M] /\ c \in QU!Links /\ d \in QU!Links /\ c \in ToSet(u) /\ d \in ToSet(u)
        /\ n # c /\ n # d
    BY <2>1, <2>2, <1>4 DEF Round
  <2>4. r.next[n] = c /\ r.prev[n] = d
    <3>1. r.next[e[0]] = e[0 + 1] /\ r.prev[e[M + 1]] = e[M] /\ e[0] = n /\ e[M + 1] = n
      BY <1>4, <1>5 DEF Round
    <3> QED
      BY <3>1, <2>1, <2>2
  <2>5. h # c /\ h # d /\ a # c /\ a # d
    BY <2>3, <1>7, <1>8 DEF Cycle
  <2>6. Joined(q, r, h, n, a, c, d)
    <3>1. Joined(Added(r, h, n), r, h, n, a, c, d)
      BY <2>3, <2>4, <2>5, <1>2, <1>7, <1>9, JoinIs
    <3> QED
      BY <3>1, <1>1
  <2>7. Follows(q, h, t) /\ Follows(q, n, << >>)
    <3>1. Joined(q, r, h, n, At(h, s, Len(s)), u[1], u[Len(u)]) /\ Len(u) # 0
      BY <2>3, <2>6, <1>1, <1>7, <1>11
    <3>2. Follows(q, h, s \o u) /\ Follows(q, n, << >>)
      BY <3>1, <1>2, JoinFollows
    <3> QED
      BY <3>2, <1>1
  <2>8. Line(t, Elements) /\ ToSet(t) = ToSet(s) \cup ToSet(u)
    <3>1. Line(s \o u, Elements) /\ ToSet(s \o u) = ToSet(s) \cup ToSet(u)
      BY <1>2, JoinLines
    <3> QED
      BY <3>1, <1>1
  <2>9. Line(<< >>, Elements) /\ ToSet(<< >>) = {}
    BY EmptyLine
  <2>10. /\ ToSet(t) \cup ToSet(<< >>) = ToSet(l[h]) \cup ToSet(l[n]) /\ ToSet(t) \cap ToSet(<< >>) = {}
    BY <2>8, <2>9, <1>1
  <2>11. \A y \in QU!Links : y \notin Cycle(h, l[h]) /\ y \notin Cycle(n, l[n]) =>
           q.next[y] = r.next[y] /\ q.prev[y] = r.prev[y]
    BY <2>3, <2>6, <1>1, <1>7 DEF Joined, Cycle
  <2>12. q \in Rings
    BY <2>6 DEF Joined
  <2>13. QueueOK(q, [l EXCEPT ![h] = t, ![n] = << >>])
    BY <2>7, <2>8, <2>9, <2>10, <2>11, <2>12, TwoChange, Zenon
  <2> QED
    BY <2>13, <1>1
<1> QED
  BY <1>10, <1>11

LEMMA LengthBound ==
  ASSUME NEW s, Line(s, Elements)
  PROVE  Cardinality(Elements) \in Nat /\ Len(s) \in Nat /\ Len(s) <= Cardinality(Elements)
<1>1. IsFiniteSet(Elements)
  BY QUParameters
<1>2. ToSet(s) \subseteq Elements /\ Len(s) \in Nat
  BY LineParts
<1>3. Cardinality(ToSet(s)) = Len(s)
  BY LineSize
<1>4. Cardinality(ToSet(s)) <= Cardinality(Elements)
  BY <1>1, <1>2, FS_Subset
<1>5. Cardinality(Elements) \in Nat
  BY <1>1, FS_CardinalityType
<1> QED
  BY <1>2, <1>3, <1>4, <1>5

LEMMA LeastInQueue ==
  ASSUME NEW S \in SUBSET Nat, S # {}
  PROVE  QU!Min(S) \in S /\ \A y \in S : QU!Min(S) <= y
<1>1. \E x \in S : \A y \in S : x <= y
  BY LeastOf
<1> QED
  BY <1>1, Zenon DEF QU!Min

(* The loop of queue_sort stops behind the last of the first k that does   *)
(* not come after x, or at the head.                                       *)
Stops(r, h, u, k, x) == \E d \in 0 .. k :
  /\ QU!StepBack(r, h, At(h, u, k), x) = At(h, u, d)
  /\ d # 0 => Rank[u[d]] <= Rank[x]
  /\ \A e \in d + 1 .. k : ~(Rank[u[e]] <= Rank[x])

LEMMA StepBackIs ==
  ASSUME NEW h \in Heads, NEW u, Line(u, Elements), NEW r \in Rings, Follows(r, h, u),
         NEW k \in 0 .. Len(u), NEW x \in Elements
  PROVE  Stops(r, h, u, k, x)
<1>1. PICK L, V, p, M, f : /\ L = Len(u) /\ V = Cycle(h, u) /\ p = At(h, u, k)
                           /\ M = 2 * Cardinality(Elements) /\ f = r.prev
  OBVIOUS
<1>2. PICK g : Round(g, r, h, u, L)
  BY <1>1, RoundIs
<1>3. L \in Nat /\ k \in 0 .. L
  BY <1>1, <1>2 DEF Round
<1>4. p \in V /\ p = g[k]
  <2>1. k \in 0 .. L + 1
    BY <1>3
  <2> QED
    BY <2>1, <1>1, <1>2 DEF Round
<1>5. \A v \in V : f[v] \in V
  <2> SUFFICES ASSUME NEW v \in V PROVE f[v] \in V
    OBVIOUS
  <2>1. \E i \in 0 .. L : v = g[i + 1]
    <3>1. CASE v = h
      <4>1. L \in 0 .. L /\ g[L + 1] = h
        BY <1>2, <1>3 DEF Round
      <4> QED
        BY <4>1, <3>1
    <3>2. CASE v # h
      <4>1. v \in ToSet(u)
        BY <3>2, <1>1 DEF Cycle
      <4>2. PICK i \in 1 .. L : v = u[i]
        BY <4>1, <1>1, LineParts
      <4>3. i - 1 \in 0 .. L /\ (i - 1) + 1 = i /\ g[i] = u[i]
        BY <1>2, <1>3 DEF Round
      <4> QED
        BY <4>2, <4>3
    <3> QED
      BY <3>1, <3>2
  <2>2. PICK i \in 0 .. L : v = g[i + 1]
    BY <2>1
  <2>3. f[v] = g[i] /\ i \in 0 .. L + 1
    BY <2>2, <1>1, <1>2, <1>3 DEF Round
  <2> QED
    BY <2>3, <1>1, <1>2 DEF Round
<1>6. PICK back : back = QU!Steps(f, p)
  OBVIOUS
<1>7. M \in Nat /\ back \in [0 .. M -> V] /\ back[0] = p /\ \A n \in 0 .. M - 1 : back[n + 1] = f[back[n]]
  <2>1. /\ M \in Nat /\ QU!Steps(f, p) \in [0 .. M -> V] /\ QU!Steps(f, p)[0] = p
        /\ \A n \in 0 .. M - 1 : QU!Steps(f, p)[n + 1] = f[QU!Steps(f, p)[n]]
    BY <1>1, <1>4, <1>5, StepsAre, SMTT(30)
  <2> QED
    BY <2>1, <1>6
<1>8. k <= M
  <2>1. L <= Cardinality(Elements) /\ Cardinality(Elements) \in Nat
    BY <1>1, LengthBound
  <2> QED
    BY <2>1, <1>1, <1>3
<1>9. PICK D : D = {n \in 0 .. k : back[n] = g[k - n]}
  BY Zenon
<1>10. 0 .. k \subseteq D
  <2>1. 0 \in D
    BY <1>3, <1>4, <1>7, <1>9
  <2>2. ASSUME NEW n \in 0 .. k, n \in D /\ n < k PROVE n + 1 \in D
    <3>1. /\ n \in 0 .. M - 1 /\ n + 1 \in 0 .. k /\ k - (n + 1) \in 0 .. L
          /\ (k - (n + 1)) + 1 = k - n /\ back[n] = g[k - n]
      BY <2>2, <1>3, <1>7, <1>8, <1>9
    <3>2. f[g[(k - (n + 1)) + 1]] = g[k - (n + 1)]
      BY <3>1, <1>1, <1>2, Zenon DEF Round
    <3>3. back[n + 1] = g[k - (n + 1)]
      BY <3>1, <3>2, <1>7
    <3> QED
      BY <3>1, <3>3, <1>9
  <2>3. k \in Nat
    BY <1>3
  <2> QED
    BY <2>1, <2>2, <2>3, UpTo, Zenon
<1>11. \A n \in 0 .. k : back[n] = g[k - n]
  BY <1>9, <1>10
<1>12. PICK ends : ends = {n \in 0 .. M : back[n] = h \/ Rank[back[n]] <= Rank[x]}
  BY Zenon
<1>13. QU!StepBack(r, h, p, x) = back[QU!Min(ends)]
  <2>1. DOMAIN back = 0 .. M
    BY <1>7
  <2> QED
    BY <2>1, <1>1, <1>6, <1>12, Zenon DEF QU!StepBack
<1>14. k \in ends
  <2>1. k \in 0 .. M /\ k - k = 0 /\ k \in 0 .. k
    BY <1>3, <1>7, <1>8
  <2>2. back[k] = g[0] /\ g[0] = h
    BY <2>1, <1>2, <1>11 DEF Round
  <2> QED
    BY <2>1, <2>2, <1>12
<1>15. PICK m : m = QU!Min(ends)
  OBVIOUS
<1>16. m \in ends /\ \A n \in ends : m <= n
  <2>1. ends \in SUBSET Nat
    BY <1>12
  <2> QED
    BY <2>1, <1>14, <1>15, LeastInQueue
<1>17. m \in 0 .. k /\ m \in 0 .. M
  BY <1>3, <1>12, <1>14, <1>16
<1>18. PICK d : d = k - m
  OBVIOUS
<1>19. d \in 0 .. k /\ d \in 0 .. L /\ d \in 0 .. L + 1 /\ back[m] = g[d]
  BY <1>3, <1>11, <1>17, <1>18
<1>20. QU!StepBack(r, h, p, x) = At(h, u, d)
  <2>1. g[d] = At(h, u, d)
    BY <1>2, <1>19 DEF Round
  <2> QED
    BY <2>1, <1>13, <1>15, <1>19
<1>21. d # 0 => Rank[u[d]] <= Rank[x]
  <2> SUFFICES ASSUME d # 0 PROVE Rank[u[d]] <= Rank[x]
    OBVIOUS
  <2>1. d \in 1 .. L
    BY <1>19
  <2>2. g[d] = u[d] /\ g[d] # h
    BY <2>1, <1>2 DEF Round
  <2> QED
    BY <2>2, <1>12, <1>16, <1>19
<1>22. ASSUME NEW e \in d + 1 .. k PROVE ~(Rank[u[e]] <= Rank[x])
  <2>1. k - e \in 0 .. k /\ k - e \in 0 .. M /\ ~(m <= k - e) /\ e \in 1 .. L /\ k - (k - e) = e
    BY <1>3, <1>8, <1>7, <1>17, <1>18, <1>19
  <2>2. k - e \notin ends
    BY <2>1, <1>16
  <2>3. back[k - e] = g[e]
    BY <2>1, <1>11
  <2>4. g[e] = u[e]
    BY <2>1, <1>2 DEF Round
  <2> QED
    BY <2>1, <2>2, <2>3, <2>4, <1>12
<1> QED
  BY <1>1, <1>19, <1>20, <1>21, <1>22 DEF Stops

(* queue_sort after some rounds: t has the first k of h's line in order,   *)
(* and the rest as it was; q is the next one.                              *)
Sorting(l, h, v, t, k) ==
  /\ QueueOK(v.ring, [l EXCEPT ![h] = t])
  /\ Line(t, Elements) /\ Len(t) = Len(l[h]) /\ ToSet(t) = ToSet(l[h])
  /\ k \in 1 .. Len(l[h]) /\ v.q = At(h, t, k + 1)
  /\ \A j \in 1 .. Len(l[h]) : j > k => t[j] = l[h][j]
  /\ \A i, j \in 1 .. k : i < j => QU!Goes(l[h], t[i], t[j])

LEMMA SortRoundIs ==
  ASSUME NEW r, NEW l, QueueOK(r, l), NEW h \in Heads, NEW v, NEW t, NEW k, Sorting(l, h, v, t, k),
         k < Len(l[h])
  PROVE  \E t2 : Sorting(l, h, QU!SortRound(v, h), t2, k + 1)
<1>1. PICK s, L, x, out, u, l1, l2 :
        /\ s = l[h] /\ L = Len(s) /\ x = v.q /\ out = QU!TakeOut(v.ring, x)
        /\ u = RemoveAt(t, k + 1) /\ l1 = [l EXCEPT ![h] = t] /\ l2 = [l EXCEPT ![h] = u]
  BY Zenon
<1>2. l \in [Heads -> Seq(Elements)] /\ Line(s, Elements)
  BY <1>1 DEF QueueOK
<1>3. /\ L \in Nat /\ (\A i, j \in 1 .. L : s[i] = s[j] => i = j) /\ DOMAIN s = 1 .. L
      /\ ToSet(s) = {s[i] : i \in 1 .. L} /\ ToSet(s) \subseteq Elements
  BY <1>1, <1>2, LineParts
<1>4. /\ QueueOK(v.ring, l1) /\ Line(t, Elements) /\ Len(t) = L /\ ToSet(t) = ToSet(s) /\ k \in 1 .. L
      /\ x = At(h, t, k + 1) /\ (\A j \in 1 .. L : j > k => t[j] = s[j])
      /\ \A i, j \in 1 .. k : i < j => QU!Goes(s, t[i], t[j])
  BY <1>1 DEF Sorting
<1>5. /\ k + 1 \in 1 .. L /\ k \in 0 .. L /\ k \in 1 .. L /\ k + 1 \in 0 .. L + 1 /\ k \in 0 .. L + 1
      /\ (k + 1) - 1 = k /\ k + 1 > k /\ k \in Nat /\ L - 1 \in Nat /\ k \in 1 .. L - 1
      /\ k + 1 \in 0 .. L
  BY <1>1, <1>3, <1>4
<1>6. l1 \in [Heads -> Seq(Elements)] /\ l1[h] = t /\ l2 = [l1 EXCEPT ![h] = u]
  <2>1. t \in Seq(Elements)
    BY <1>4 DEF Line
  <2> QED
    BY <2>1, <1>1, <1>2, Zenon
<1>7. v.ring \in Rings /\ Follows(v.ring, h, t)
  BY <1>4, <1>6 DEF QueueOK
<1>8. PICK g : Round(g, v.ring, h, t, L)
  BY <1>4, <1>7, RoundIs
<1>9. x = t[k + 1] /\ x = s[k + 1] /\ x = g[k + 1] /\ x \in Elements /\ x \in ToSet(s)
  <2>1. x = g[k + 1] /\ g[k + 1] = t[k + 1]
    BY <1>4, <1>5, <1>8 DEF Round
  <2> QED
    BY <2>1, <1>3, <1>4, <1>5
<1>10. /\ v.ring.prev[x] = g[k] /\ g[k] = t[k] /\ v.ring.next[x] = At(h, t, (k + 1) + 1)
  <2>1. v.ring.prev[g[k + 1]] = g[k] /\ v.ring.next[g[k + 1]] = g[(k + 1) + 1] /\ g[k] = t[k]
    BY <1>5, <1>8 DEF Round
  <2>2. (k + 1) + 1 \in 0 .. L + 1
    BY <1>3, <1>5
  <2>3. g[(k + 1) + 1] = At(h, t, (k + 1) + 1)
    BY <2>2, <1>8 DEF Round
  <2> QED
    BY <2>1, <2>3, <1>9
<1>11. /\ Line(u, Elements) /\ Len(u) = L - 1 /\ ToSet(u) = ToSet(s) \ {x}
       /\ \A p \in 1 .. L - 1 : u[p] = IF p < k + 1 THEN t[p] ELSE t[p + 1]
  <2>1. k + 1 \in 1 .. Len(t) /\ L = Len(t) /\ Line(t, Elements)
    BY <1>4, <1>5
  <2>2. PICK n : n = k + 1
    OBVIOUS
  <2>3. /\ Line(RemoveAt(t, n), Elements) /\ Len(RemoveAt(t, n)) = L - 1
        /\ ToSet(RemoveAt(t, n)) = ToSet(t) \ {t[n]}
        /\ \A p \in 1 .. L - 1 : RemoveAt(t, n)[p] = IF p < n THEN t[p] ELSE t[p + 1]
    <3>1. n \in 1 .. Len(t) /\ L = Len(t) /\ Line(t, Elements)
      BY <2>1, <2>2
    <3> QED
      BY <3>1, RemovedLine, SMTT(60)
  <2> QED
    BY <2>2, <2>3, <1>1, <1>4, <1>9
<1>12. QueueOK(out, l2)
  <2>1. PICK n : n = k + 1
    OBVIOUS
  <2>2. n \in 1 .. Len(l1[h]) /\ QueueOK(v.ring, l1)
    BY <2>1, <1>4, <1>5, <1>6
  <2>3. QueueOK(QU!TakeOut(v.ring, l1[h][n]), [l1 EXCEPT ![h] = RemoveAt(l1[h], n)])
    BY <2>2, RemoveOK
  <2> QED
    BY <2>1, <2>3, <1>1, <1>6, <1>9, Zenon
<1>13. l2 \in [Heads -> Seq(Elements)] /\ l2[h] = u /\ out \in Rings /\ Follows(out, h, u)
  <2>1. u \in Seq(Elements)
    BY <1>11 DEF Line
  <2>2. l2 \in [Heads -> Seq(Elements)] /\ l2[h] = u
    BY <2>1, <1>1, <1>2
  <2> QED
    BY <2>2, <1>12 DEF QueueOK
<1>14. PICK d \in 0 .. k : /\ QU!StepBack(out, h, At(h, u, k), x) = At(h, u, d)
                           /\ d # 0 => Rank[u[d]] <= Rank[x]
                           /\ \A e \in d + 1 .. k : ~(Rank[u[e]] <= Rank[x])
  <2>1. k \in 0 .. Len(u) /\ Line(u, Elements) /\ out \in Rings /\ Follows(out, h, u) /\ x \in Elements
    BY <1>5, <1>9, <1>11, <1>13
  <2>2. Stops(out, h, u, k, x)
    BY <2>1, StepBackIs
  <2> QED
    BY <2>2 DEF Stops
<1>15. At(h, u, k) = v.ring.prev[x]
  <2>1. k \in 1 .. Len(u) /\ u[k] = t[k]
    BY <1>5, <1>11
  <2> QED
    BY <2>1, <1>10 DEF At
<1>16. PICK t2, l3, n, r2 : /\ t2 = InsertAt(u, d + 1, x) /\ l3 = [l EXCEPT ![h] = t2] /\ n = d + 1
                            /\ r2 = QU!PutAfter(out, At(h, u, d), x)
  BY Zenon
<1>17. QU!SortRound(v, h).ring = r2 /\ QU!SortRound(v, h).q = At(h, t, (k + 1) + 1)
  BY <1>1, <1>10, <1>14, <1>15, <1>16 DEF QU!SortRound
<1>18. n \in 1 .. L /\ n \in 1 .. Len(u) + 1 /\ n - 1 = d /\ d \in Nat /\ d <= k
  BY <1>3, <1>5, <1>11, <1>16
<1>19. /\ Line(t2, Elements) /\ Len(t2) = L /\ ToSet(t2) = ToSet(s)
       /\ \A p \in 1 .. L : t2[p] = IF p < n THEN u[p] ELSE IF p = n THEN x ELSE u[p - 1]
  <2>1. n \in 1 .. Len(u) + 1 /\ x \in Elements /\ x \notin ToSet(u) /\ Line(u, Elements)
    BY <1>9, <1>11, <1>18
  <2>2. Grown(InsertAt(u, n, x), u, Elements, n, x)
    BY <2>1, InsertedLine
  <2>3. Len(u) + 1 = L
    BY <1>3, <1>11
  <2> QED
    BY <2>2, <2>3, <1>9, <1>11, <1>16, Zenon DEF Grown
<1>20. QueueOK(r2, l3)
  <2>1. \A e \in Heads : x \notin ToSet(l2[e])
    <3> SUFFICES ASSUME NEW e \in Heads PROVE x \notin ToSet(l2[e])
      OBVIOUS
    <3>1. CASE e = h
      BY <3>1, <1>11, <1>13
    <3>2. CASE e # h
      <4>1. l2[e] = l[e]
        BY <3>2, <1>1, <1>2
      <4>2. ToSet(l[e]) \cap ToSet(l[h]) = {}
        BY <3>2 DEF QueueOK
      <4> QED
        BY <4>1, <4>2, <1>1, <1>9
    <3> QED
      BY <3>1, <3>2
  <2>2. n \in 1 .. Len(l2[h]) + 1 /\ x \in Elements
    BY <1>9, <1>13, <1>18
  <2>3. QueueOK(QU!PutAfter(out, At(h, l2[h], n - 1), x), [l2 EXCEPT ![h] = InsertAt(l2[h], n, x)])
    BY <2>1, <2>2, <1>12, PutOK
  <2>4. QU!PutAfter(out, At(h, l2[h], n - 1), x) = r2
    BY <1>13, <1>16, <1>18
  <2>5. [l2 EXCEPT ![h] = InsertAt(l2[h], n, x)] = l3
    BY <1>1, <1>2, <1>13, <1>16, Zenon
  <2> QED
    BY <2>3, <2>4, <2>5, Zenon
<1>21. ASSUME NEW p \in 1 .. L
       PROVE  t2[p] = IF p < n THEN t[p] ELSE IF p = n THEN x ELSE IF p <= k + 1 THEN t[p - 1] ELSE t[p]
  <2>1. t2[p] = IF p < n THEN u[p] ELSE IF p = n THEN x ELSE u[p - 1]
    BY <1>19
  <2>2. p < n => p \in 1 .. L - 1 /\ p < k + 1
    BY <1>3, <1>5, <1>16, <1>18
  <2>3. ~(p < n) /\ p # n => /\ p - 1 \in 1 .. L - 1 /\ (p - 1) + 1 = p
                             /\ (p <= k + 1 <=> p - 1 < k + 1)
    BY <1>3, <1>5, <1>16, <1>18
  <2> QED
    BY <2>1, <2>2, <2>3, <1>11
<1>22. \A j \in 1 .. L : j > k + 1 => t2[j] = s[j]
  <2> SUFFICES ASSUME NEW j \in 1 .. L, j > k + 1 PROVE t2[j] = s[j]
    OBVIOUS
  <2>1. ~(j < n) /\ j # n /\ ~(j <= k + 1) /\ j > k
    BY <1>5, <1>16, <1>18
  <2> QED
    BY <2>1, <1>4, <1>21
<1>23. At(h, t2, (k + 1) + 1) = At(h, t, (k + 1) + 1)
  <2>1. CASE (k + 1) + 1 \in 1 .. L
    <3>1. (k + 1) + 1 > k + 1 /\ (k + 1) + 1 > k
      BY <1>5
    <3>2. t2[(k + 1) + 1] = s[(k + 1) + 1] /\ t[(k + 1) + 1] = s[(k + 1) + 1]
      BY <2>1, <3>1, <1>4, <1>22
    <3> QED
      BY <2>1, <3>2, <1>4, <1>19 DEF At
  <2>2. CASE (k + 1) + 1 \notin 1 .. L
    BY <2>2, <1>4, <1>19 DEF At
  <2> QED
    BY <2>1, <2>2
<1>24. ASSUME NEW i \in 1 .. k PROVE \E a \in 1 .. k : t[i] = s[a]
  <2>1. /\ t[i] \in ToSet(s) /\ i \in 1 .. L /\ (\A e, f \in 1 .. L : t[e] = t[f] => e = f)
    <3>1. /\ (\A e, f \in 1 .. L : t[e] = t[f] => e = f) /\ ToSet(t) = {t[e] : e \in 1 .. L}
      BY <1>4, LineParts
    <3>2. i \in 1 .. L
      BY <1>3, <1>5
    <3>3. t[i] \in ToSet(t)
      BY <3>1, <3>2
    <3> QED
      BY <3>1, <3>2, <3>3, <1>4
  <2>2. PICK a \in 1 .. L : t[i] = s[a]
    BY <2>1, <1>3
  <2>3. ASSUME a > k PROVE FALSE
    <3>1. t[a] = s[a]
      BY <2>3, <1>4
    <3>2. a = i
      BY <3>1, <2>1, <2>2
    <3> QED
      BY <3>2, <2>3, <1>5
  <2>4. a \in 1 .. k
    BY <2>3, <1>3, <1>5
  <2> QED
    BY <2>2, <2>4
<1>25. \A e \in 1 .. k : u[e] = t[e] /\ u[e] \in Elements
  <2> SUFFICES ASSUME NEW e \in 1 .. k PROVE u[e] = t[e] /\ u[e] \in Elements
    OBVIOUS
  <2>1. e \in 1 .. L - 1 /\ e < k + 1
    BY <1>3, <1>5
  <2>2. PICK a \in 1 .. k : t[e] = s[a]
    BY <1>24
  <2>3. a \in 1 .. L
    BY <1>3, <1>5
  <2> QED
    BY <2>1, <2>2, <2>3, <1>3, <1>11
<1>26. \A y, z \in Elements : QU!Goes(s, y, z) => Rank[y] <= Rank[z]
  <2> SUFFICES ASSUME NEW y \in Elements, NEW z \in Elements, QU!Goes(s, y, z) PROVE Rank[y] <= Rank[z]
    OBVIOUS
  <2>1. Rank[y] < Rank[z] \/ Rank[y] = Rank[z]
    BY DEF QU!Goes
  <2>2. Rank[y] \in Int /\ Rank[z] \in Int
    BY QUParameters
  <2> QED
    BY <2>1, <2>2
(* Those before x go before it, those behind after it.                     *)
<1>27. ASSUME NEW e \in 1 .. d PROVE QU!Goes(s, t[e], x)
  <2>1. e \in 1 .. k /\ d \in 1 .. k /\ d # 0 /\ (e = d \/ e < d)
    BY <1>5, <1>18
  <2>2. Rank[u[d]] <= Rank[x] /\ Rank[u[d]] \in Int /\ Rank[t[e]] \in Int /\ Rank[x] \in Int
    BY <2>1, <1>9, <1>14, <1>25, QUParameters
  <2>3. Rank[t[e]] <= Rank[u[d]]
    <3>1. CASE e = d
      BY <3>1, <2>1, <2>2, <1>25
    <3>2. CASE e < d
      <4>1. QU!Goes(s, t[e], t[d])
        BY <3>2, <2>1, <1>4
      <4> QED
        BY <4>1, <2>1, <1>25, <1>26
    <3> QED
      BY <3>1, <3>2, <2>1
  <2>4. Rank[t[e]] <= Rank[x]
    BY <2>2, <2>3
  <2>5. PICK a \in 1 .. k : t[e] = s[a]
    BY <2>1, <1>24
  <2>6. a \in 1 .. L /\ a < k + 1 /\ x = s[k + 1]
    BY <1>3, <1>5, <1>9
  <2>7. Rank[t[e]] < Rank[x] \/ Rank[t[e]] = Rank[x]
    BY <2>2, <2>4
  <2> QED
    BY <2>5, <2>6, <2>7, <1>3, <1>5 DEF QU!Goes
<1>28. ASSUME NEW e \in d + 1 .. k PROVE QU!Goes(s, x, t[e])
  <2>1. e \in 1 .. k
    BY <1>18, <1>5
  <2>2. Rank[u[e]] \in Int /\ Rank[x] \in Int /\ u[e] = t[e] /\ ~(Rank[u[e]] <= Rank[x])
    BY <2>1, <1>9, <1>14, <1>25, QUParameters
  <2>3. Rank[x] < Rank[t[e]]
    BY <2>2
  <2>4. PICK a \in 1 .. k : t[e] = s[a]
    BY <2>1, <1>24
  <2>5. a \in 1 .. L /\ x = s[k + 1]
    BY <1>3, <1>5, <1>9
  <2> QED
    BY <2>3, <2>4, <2>5, <1>3, <1>5 DEF QU!Goes
<1>29. ASSUME NEW i \in 1 .. k + 1, NEW j \in 1 .. k + 1, i < j PROVE QU!Goes(s, t2[i], t2[j])
  <2>1. i \in 1 .. L /\ j \in 1 .. L /\ i \in Int /\ j \in Int /\ i <= k + 1 /\ j <= k + 1 /\ 1 <= i /\ i < j
    BY <1>3, <1>5, <1>29
  <2>2. n = d + 1 /\ d \in Nat /\ n \in Int /\ d <= k /\ k \in Nat
    BY <1>5, <1>16, <1>18
  <2>3. CASE j < n
    <3>1. i < n /\ i \in 1 .. k /\ j \in 1 .. k
      BY <2>1, <2>2, <2>3
    <3>2. t2[i] = t[i] /\ t2[j] = t[j]
      BY <3>1, <2>1, <2>3, <1>21
    <3> QED
      BY <3>1, <3>2, <1>4, <2>1
  <2>4. CASE i < n /\ j = n
    <3>1. i \in 1 .. d /\ ~(j < n)
      BY <2>1, <2>2, <2>4
    <3>2. t2[i] = t[i]
      BY <2>1, <2>4, <1>21
    <3>3. t2[j] = x
      BY <3>1, <2>1, <2>4, <1>21
    <3> QED
      BY <3>1, <3>2, <3>3, <1>27
  <2>5. CASE i < n /\ j > n
    <3>1. ~(j < n) /\ j # n /\ i \in 1 .. k /\ j - 1 \in 1 .. k /\ i < j - 1
      BY <2>1, <2>2, <2>5
    <3>2. t2[i] = t[i]
      BY <2>1, <2>5, <1>21
    <3>3. t2[j] = t[j - 1]
      BY <3>1, <2>1, <1>21
    <3> QED
      BY <3>1, <3>2, <3>3, <1>4
  <2>6. CASE i = n
    <3>1. ~(j < n) /\ j # n /\ ~(i < n) /\ j - 1 \in d + 1 .. k
      BY <2>1, <2>2, <2>6
    <3>2. t2[i] = x
      BY <3>1, <2>1, <2>6, <1>21
    <3>3. t2[j] = t[j - 1]
      BY <3>1, <2>1, <1>21
    <3> QED
      BY <3>1, <3>2, <3>3, <1>28
  <2>7. CASE i > n
    <3>1. ~(j < n) /\ j # n /\ ~(i < n) /\ i # n /\ i - 1 \in 1 .. k /\ j - 1 \in 1 .. k /\ i - 1 < j - 1
      BY <2>1, <2>2, <2>7
    <3>2. t2[i] = t[i - 1]
      BY <3>1, <2>1, <1>21
    <3>3. t2[j] = t[j - 1]
      BY <3>1, <2>1, <1>21
    <3> QED
      BY <3>1, <3>2, <3>3, <1>4
  <2>8. j < n \/ (i < n /\ j = n) \/ (i < n /\ j > n) \/ i = n \/ i > n
    BY <2>1, <2>2
  <2> QED
    BY <2>3, <2>4, <2>5, <2>6, <2>7, <2>8
<1>30. Sorting(l, h, QU!SortRound(v, h), t2, k + 1)
  BY <1>1, <1>5, <1>16, <1>17, <1>19, <1>20, <1>22, <1>23, <1>29 DEF Sorting
<1> QED
  BY <1>30

(* queue_sort from beginning to end. *)
SortsTo(r, l, h, t) ==
  /\ QueueOK(QU!Sorted(r, h), [l EXCEPT ![h] = t])
  /\ Line(t, Elements) /\ Len(t) = Len(l[h]) /\ ToSet(t) = ToSet(l[h])
  /\ \A i, j \in 1 .. Len(l[h]) : i < j => QU!Goes(l[h], t[i], t[j])

LEMMA SortedIs ==
  ASSUME NEW r, NEW l, QueueOK(r, l), NEW h \in Heads
  PROVE  \E t : SortsTo(r, l, h, t)
<1>1. PICK s, L, N, v0 : /\ s = l[h] /\ L = Len(s) /\ N = Cardinality(Elements)
                         /\ v0 = [ring |-> r, q |-> r.next[r.next[h]]]
  BY Zenon
<1>2. l \in [Heads -> Seq(Elements)] /\ Line(s, Elements) /\ r \in Rings /\ Follows(r, h, s)
  BY <1>1 DEF QueueOK
<1>3. L \in Nat /\ N \in Nat /\ L <= N
  BY <1>1, <1>2, LengthBound
<1>4. PICK g : Round(g, r, h, s, L)
  BY <1>1, <1>2, RoundIs
<1>5. r.next[h] = g[1] /\ r.prev[h] = g[L]
  <2>1. PICK z : z = 0
    OBVIOUS
  <2>2. z \in 0 .. L /\ L \in 0 .. L /\ z + 1 = 1
    BY <2>1, <1>3
  <2>3. r.next[g[z]] = g[z + 1] /\ r.prev[g[L + 1]] = g[L]
    BY <2>2, <1>4 DEF Round
  <2> QED
    BY <2>1, <2>2, <2>3, <1>4 DEF Round
<1>6. [l EXCEPT ![h] = s] = l
  BY <1>1, <1>2
<1>7. CASE L \in {0, 1}
  <2>1. g[1] = g[L]
    BY <1>4, <1>7 DEF Round
  <2>2. QU!Sorted(r, h) = r
    BY <2>1, <1>5 DEF QU!Sorted
  <2>3. \A i, j \in 1 .. L : ~(i < j)
    BY <1>7
  <2>4. SortsTo(r, l, h, s)
    BY <2>2, <2>3, <1>1, <1>2, <1>6, Zenon DEF SortsTo
  <2> QED
    BY <2>4
<1>8. CASE L \notin {0, 1}
  <2>1. L >= 2 /\ 1 \in 1 .. L /\ L \in 1 .. L /\ 1 # L /\ 1 \in 0 .. L /\ 2 \in 0 .. L + 1 /\ 1 + 1 = 2
    BY <1>3, <1>8
  <2>2. r.next[h] # r.prev[h]
    <3>1. 1 \in 0 .. L /\ L \in 0 .. L
      BY <2>1
    <3>2. g[1] # g[L]
      BY <3>1, <2>1, <1>4 DEF Round
    <3> QED
      BY <3>2, <1>5
  <2>3. v0.q = At(h, s, 2)
    <3>1. r.next[g[1]] = g[1 + 1] /\ g[2] = At(h, s, 2)
      BY <2>1, <1>4 DEF Round
    <3> QED
      BY <3>1, <2>1, <1>1, <1>5
  <2>4. PICK one : one = 1
    OBVIOUS
  <2>5. Sorting(l, h, v0, s, one)
    <3>1. v0.ring = r
      BY <1>1
    <3>2. one \in 1 .. L /\ one + 1 = 2 /\ \A i, j \in 1 .. one : ~(i < j)
      BY <2>1, <2>4
    <3>3. v0.q = At(h, s, one + 1)
      BY <3>2, <2>3
    <3> QED
      BY <3>1, <3>2, <3>3, <1>1, <1>2, <1>6, Zenon DEF Sorting
  <2>6. PICK V : V = {v \in [ring : Rings, q : QU!Links] : \E t, k : Sorting(l, h, v, t, k)}
    BY Zenon
  <2>7. ASSUME NEW v, NEW t, NEW k, Sorting(l, h, v, t, k)
        PROVE  v.ring \in Rings /\ v.q \in QU!Links /\ k \in 1 .. L /\ (v.q = h <=> k = L)
    <3>1. /\ QueueOK(v.ring, [l EXCEPT ![h] = t]) /\ Line(t, Elements) /\ Len(t) = L /\ k \in 1 .. L
          /\ v.q = At(h, t, k + 1)
      BY <2>7, <1>1 DEF Sorting
    <3>2. Placed(h, t, L)
      BY <3>1, PlacesAre
    <3>3. k + 1 \in 0 .. L + 1 /\ (k # L => k + 1 \in 1 .. L) /\ (k = L => k + 1 = L + 1)
      BY <3>1, <1>3
    <3>4. v.q \in QU!Links
      BY <3>1, <3>2, <3>3 DEF Placed
    <3>5. k = L => v.q = h
      BY <3>1, <3>2, <3>3 DEF Placed
    <3>6. k # L => v.q # h
      BY <3>1, <3>2, <3>3 DEF Placed
    <3>7. v.ring \in Rings
      BY <3>1 DEF QueueOK
    <3> QED
      BY <3>1, <3>4, <3>5, <3>6, <3>7
  <2>8. v0 \in V
    <3>1. v0.ring \in Rings /\ v0.q \in QU!Links
      BY <2>5, <2>7, SMTT(30)
    <3>2. v0 \in [ring : Rings, q : QU!Links]
      BY <3>1, <1>1
    <3> QED
      BY <3>2, <2>5, <2>6
  <2>9. ASSUME NEW v, NEW t, NEW k, Sorting(l, h, v, t, k), v.q # h
        PROVE  \E t2 : Sorting(l, h, QU!SortRound(v, h), t2, k + 1)
    <3>1. k \in 1 .. L /\ k # L
      BY <2>7, <2>9
    <3>2. k < Len(l[h])
      BY <3>1, <1>1, <1>3
    <3> QED
      BY <3>2, <2>9, SortRoundIs
  <2>10. ASSUME NEW v \in V, v.q # h PROVE QU!SortRound(v, h) \in V
    <3>1. PICK t, k : Sorting(l, h, v, t, k)
      BY <2>6
    <3>2. PICK t2 : Sorting(l, h, QU!SortRound(v, h), t2, k + 1)
      BY <3>1, <2>9, <2>10
    <3>3. QU!SortRound(v, h).ring \in Rings /\ QU!SortRound(v, h).q \in QU!Links
      BY <3>2, <2>7
    <3>4. QU!SortRound(v, h) \in [ring : Rings, q : QU!Links]
      BY <3>3 DEF QU!SortRound
    <3> QED
      BY <3>2, <3>4, <2>6
  <2>11. PICK step : step = [v \in V |-> IF v.q = h THEN v ELSE QU!SortRound(v, h)]
    BY Zenon
  <2>12. step \in [V -> V]
    BY <2>10, <2>11
  <2>13. PICK f \in [1 .. N + 1 -> V] : f[1] = v0 /\ \A n \in 1 .. N : f[n + 1] = step[f[n]]
    <3>1. PICK M : M = N
      OBVIOUS
    <3>2. v0 \in V /\ step \in [V -> V] /\ M \in Nat
      BY <3>1, <2>8, <2>12, <1>3
    <3>3. \E f \in [1 .. M + 1 -> V] : f[1] = v0 /\ \A n \in 1 .. M : f[n + 1] = step[f[n]]
      BY <3>2, Iterated
    <3> QED
      BY <3>1, <3>3, Zenon
  <2> DEFINE G(e) == [n \in 0 .. N |-> IF n = 0 THEN v0
                        ELSE IF e[n - 1].q = h THEN e[n - 1] ELSE QU!SortRound(e[n - 1], h)]
  <2>14. PICK e : e = [n \in 0 .. N |-> f[n + 1]]
    BY Zenon
  <2>15. e = G(e)
    <3>1. ASSUME NEW n \in 0 .. N PROVE e[n] = G(e)[n]
      <4>1. CASE n = 0
        BY <4>1, <2>13, <2>14
      <4>2. CASE n # 0
        <5>1. n \in 1 .. N /\ n - 1 \in 0 .. N /\ (n - 1) + 1 = n
          BY <4>2, <1>3
        <5>2. n \in 1 .. N + 1 /\ f[n + 1] = step[f[n]]
          BY <5>1, <2>13, <1>3
        <5>3. e[n] = step[f[n]] /\ f[n] \in V /\ e[n - 1] = f[n]
          BY <5>1, <5>2, <2>13, <2>14
        <5> QED
          BY <5>3, <4>2, <2>11
      <4> QED
        BY <4>1, <4>2
    <3> QED
      BY <3>1, <2>14
  <2>16. PICK c : c = CHOOSE b : b = G(b)
    OBVIOUS
  <2>17. c = G(c)
    <3> HIDE DEF G
    <3> QED
      BY <2>15, <2>16
  <2>18. QU!Sorted(r, h) = c[N].ring
    <3>1. QU!Cardinality(Elements) = N
      BY <1>1, SameInQueue
    <3> QED
      BY <3>1, <2>2, <2>16, <1>1 DEF QU!Sorted
  <2>19. /\ c[0] = v0
         /\ \A n \in 0 .. N : n < N => c[n + 1] = IF c[n].q = h THEN c[n] ELSE QU!SortRound(c[n], h)
    <3>1. \A n \in 0 .. N : n < N => n + 1 \in 0 .. N /\ n + 1 # 0 /\ (n + 1) - 1 = n
      BY <1>3
    <3>2. c[0] = v0
      BY <2>17, <1>3
    <3>3. ASSUME NEW n \in 0 .. N, n < N
          PROVE  c[n + 1] = IF c[n].q = h THEN c[n] ELSE QU!SortRound(c[n], h)
      <4>1. c[n + 1] = G(c)[n + 1]
        BY <2>17, Zenon
      <4> QED
        BY <4>1, <3>1, <3>3
    <3> QED
      BY <3>2, <3>3
  <2> HIDE DEF G
  <2>20. PICK D : D = {n \in 0 .. N : \E t, k : Sorting(l, h, c[n], t, k) /\ (k = L \/ k = n + 1)}
    BY Zenon
  <2>21. 0 .. N \subseteq D
    <3>1. 0 \in D
      <4>1. PICK z : z = 0
        OBVIOUS
      <4>2. z \in 0 .. N /\ one = z + 1 /\ c[z] = v0
        BY <4>1, <2>4, <2>19, <1>3
      <4>3. z \in D
        BY <4>2, <2>5, <2>20
      <4> QED
        BY <4>1, <4>3
    <3>2. ASSUME NEW n \in 0 .. N, n \in D /\ n < N PROVE n + 1 \in D
      <4>1. PICK t, k : Sorting(l, h, c[n], t, k) /\ (k = L \/ k = n + 1)
        BY <3>2, <2>20
      <4>2. n + 1 \in 0 .. N
        BY <3>2, <1>3
      <4>3. PICK m, p : m = n + 1 /\ p = k + 1
        OBVIOUS
      <4>4. c[m] = IF c[n].q = h THEN c[n] ELSE QU!SortRound(c[n], h)
        BY <4>3, <3>2, <2>19
      <4>5. CASE c[n].q = h
        <5>1. k = L
          BY <4>1, <4>5, <2>7
        <5>2. m \in D
          BY <5>1, <4>1, <4>2, <4>3, <4>4, <4>5, <2>20
        <5> QED
          BY <5>2, <4>3
      <4>6. CASE c[n].q # h
        <5>1. k # L
          BY <4>1, <4>6, <2>7
        <5>2. p = m + 1
          BY <5>1, <4>1, <4>3
        <5>3. \E t2 : Sorting(l, h, QU!SortRound(c[n], h), t2, p)
          BY <4>1, <4>3, <4>6, <2>9
        <5>4. m \in D
          BY <5>2, <5>3, <4>2, <4>3, <4>4, <4>6, <2>20
        <5> QED
          BY <5>4, <4>3
      <4> QED
        BY <4>5, <4>6
    <3> QED
      BY <3>1, <3>2, <1>3, UpTo
  <2>22. PICK t, k : Sorting(l, h, c[N], t, k) /\ (k = L \/ k = N + 1)
    <3>1. N \in D
      BY <2>21, <1>3
    <3> QED
      BY <3>1, <2>20
  <2>23. k = L
    <3>1. k \in 1 .. L
      BY <2>7, <2>22
    <3> QED
      BY <3>1, <2>22, <1>3
  <2>24. SortsTo(r, l, h, t)
    BY <2>18, <2>22, <2>23, <1>1 DEF Sorting, SortsTo
  <2> QED
    BY <2>24
<1> QED
  BY <1>7, <1>8

(* There is one sequence in the order of rank that keeps equals as they    *)
(* were.                                                                   *)
LEMMA OrderIs ==
  ASSUME NEW s, Line(s, Elements), NEW t, Line(t, Elements), Len(t) = Len(s), ToSet(t) = ToSet(s),
         \A i, j \in 1 .. Len(s) : i < j => QU!Goes(s, t[i], t[j])
  PROVE  QU!InRankOrder(s) = t
<1>1. PICK S, L : S = ToSet(s) /\ L = Len(s)
  OBVIOUS
<1>2. /\ L \in Nat /\ (\A i, j \in 1 .. L : s[i] = s[j] => i = j) /\ DOMAIN s = 1 .. L
      /\ S = {s[i] : i \in 1 .. L} /\ S \subseteq Elements
  BY <1>1, LineParts
<1>3. /\ DOMAIN t = 1 .. L /\ t \in [1 .. L -> Elements] /\ S = {t[i] : i \in 1 .. L}
      /\ \A i, j \in 1 .. L : t[i] = t[j] => i = j
  <2>1. /\ DOMAIN t = 1 .. Len(t) /\ t \in [1 .. Len(t) -> Elements] /\ ToSet(t) = {t[i] : i \in 1 .. Len(t)}
        /\ \A i, j \in 1 .. Len(t) : t[i] = t[j] => i = j
    BY LineParts
  <2> QED
    BY <2>1, <1>1, Zenon
<1>4. PICK T : T = {f \in [1 .. L -> S] : \A i, j \in 1 .. L : i # j => f[i] # f[j]}
  BY Zenon
<1>5. QU!SetToSeqs(QU!ToSet(s)) = T
  <2>1. Cardinality(S) = L
    BY <1>1, LineSize
  <2>2. SetToSeqs(S) = T
    BY <2>1, <1>4 DEF SetToSeqs
  <2>3. QU!SetToSeqs(S) = T
    BY <2>2, SameInQueue
  <2> QED
    BY <2>3, <1>1, SameInQueue
<1>6. t \in T
  <2>1. t \in [1 .. L -> S]
    BY <1>3
  <2> QED
    BY <2>1, <1>3, <1>4
<1> DEFINE P(f) == \A i, j \in DOMAIN f : i < j => QU!Goes(s, f[i], f[j])
<1>7. P(t)
  BY <1>1, <1>3
<1>8. ASSUME NEW x, NEW y, QU!Goes(s, x, y), QU!Goes(s, y, x) PROVE FALSE
  <2>1. PICK i, j \in 1 .. L : s[i] = x /\ s[j] = y /\ (Rank[x] < Rank[y] \/ (Rank[x] = Rank[y] /\ i < j))
    BY <1>2, <1>8 DEF QU!Goes
  <2>2. PICK a, b \in 1 .. L : s[a] = y /\ s[b] = x /\ (Rank[y] < Rank[x] \/ (Rank[y] = Rank[x] /\ a < b))
    BY <1>2, <1>8 DEF QU!Goes
  <2>3. a = j /\ b = i
    BY <2>1, <2>2, <1>2
  <2>4. Rank[x] \in Int /\ Rank[y] \in Int /\ i \in Int /\ j \in Int
    <3>1. x \in Elements /\ y \in Elements
      BY <2>1, <1>2
    <3> QED
      BY <3>1, QUParameters
  <2>5. ~(Rank[x] < Rank[y]) /\ ~(Rank[y] < Rank[x])
    BY <2>1, <2>2, <2>4
  <2> QED
    BY <2>1, <2>2, <2>3, <2>4, <2>5
<1>9. ASSUME NEW f \in T, P(f) PROVE f = t
  <2>1. /\ f \in [1 .. L -> S] /\ (\A i, j \in 1 .. L : i # j => f[i] # f[j])
        /\ \A i, j \in 1 .. L : i < j => QU!Goes(s, f[i], f[j])
    BY <1>4, <1>9
  <2>2. PICK U : U = {i \in 1 .. L : f[i] # t[i]}
    BY Zenon
  <2>3. ASSUME U # {} PROVE FALSE
    <3>1. U \in SUBSET Nat
      BY <2>2, <1>2
    <3>2. PICK m \in U : \A i \in U : m <= i
      BY <3>1, <2>3, LeastOf
    <3>3. m \in 1 .. L /\ f[m] # t[m] /\ \A i \in 1 .. L : i < m => f[i] = t[i]
      BY <3>2, <2>2, <1>2
    <3>4. t[m] \in S /\ f[m] \in S
      BY <3>3, <2>1, <1>3
    (* Each comes later in the other. *)
    <3>5. PICK a \in 1 .. L : t[a] = f[m]
      BY <3>4, <1>3
    <3>6. a > m
      <4>1. a # m
        BY <3>3, <3>5
      <4>2. ~(a < m)
        BY <3>3, <3>5, <4>1, <2>1
      <4> QED
        BY <4>1, <4>2, <3>3
    <3>7. QU!Goes(s, t[m], f[m])
      <4>1. m < a
        BY <3>3, <3>6
      <4>2. QU!Goes(s, t[m], t[a])
        BY <4>1, <3>3, <1>1
      <4> QED
        BY <4>2, <3>5
    <3>8. PICK b \in 1 .. L : f[b] = t[m]
      <4>1. Line(f, S) /\ Len(f) = L /\ ToSet(f) = {f[i] : i \in 1 .. L}
        <5>1. f \in Seq(S) /\ DOMAIN f = 1 .. L /\ Len(f) = L
          BY <2>1, <1>2
        <5>2. IsInjective(f)
          BY <5>1, <2>1 DEF IsInjective
        <5> QED
          BY <5>1, <5>2 DEF Line, ToSet
      <4>2. Cardinality(ToSet(f)) = Cardinality(S) /\ IsFiniteSet(S)
        BY <4>1, <1>1, LineSize, Zenon
      <4>3. ToSet(f) \subseteq S
        BY <4>1, <2>1
      <4>4. ToSet(f) = S
        BY <4>2, <4>3, FS_Subset
      <4> QED
        BY <4>1, <4>4, <3>4
    <3>9. b > m
      <4>1. b # m
        BY <3>3, <3>8
      <4>2. ~(b < m)
        BY <3>3, <3>8, <4>1, <1>3
      <4> QED
        BY <4>1, <4>2, <3>3
    <3>10. QU!Goes(s, f[m], t[m])
      <4>1. m < b
        BY <3>3, <3>9
      <4>2. QU!Goes(s, f[m], f[b])
        BY <4>1, <3>3, <2>1
      <4> QED
        BY <4>2, <3>8
    <3> QED
      BY <3>7, <3>10, <1>8
  <2>4. \A i \in 1 .. L : f[i] = t[i]
    BY <2>2, <2>3
  <2>5. f = [i \in 1 .. L |-> f[i]] /\ t = [i \in 1 .. L |-> t[i]]
    BY <2>1, <1>3
  <2>6. [i \in 1 .. L |-> f[i]] = [i \in 1 .. L |-> t[i]]
    BY <2>4
  <2> QED
    BY <2>5, <2>6
<1>10. QU!InRankOrder(s) = CHOOSE f \in T : P(f)
  BY <1>5 DEF QU!InRankOrder
<1> HIDE DEF P
<1> QED
  BY <1>6, <1>7, <1>9, <1>10

LEMMA SortOK ==
  ASSUME NEW r, NEW l, QueueOK(r, l), NEW h \in Heads
  PROVE  QueueOK(QU!Sorted(r, h), [l EXCEPT ![h] = QU!InRankOrder(l[h])])
<1>1. PICK t : SortsTo(r, l, h, t)
  BY SortedIs
<1>2. Line(l[h], Elements)
  BY DEF QueueOK
<1>3. PICK s : s = l[h]
  OBVIOUS
<1>4. /\ Line(s, Elements) /\ Line(t, Elements) /\ Len(t) = Len(s) /\ ToSet(t) = ToSet(s)
      /\ \A i, j \in 1 .. Len(s) : i < j => QU!Goes(s, t[i], t[j])
  BY <1>1, <1>2, <1>3 DEF SortsTo
<1>5. QU!InRankOrder(s) = t
  BY <1>4, OrderIs
<1> QED
  BY <1>1, <1>3, <1>5 DEF SortsTo

(* queue_middle: the first that is half way when the other is at the end.  *)
LEMMA MiddleIs ==
  ASSUME NEW r, NEW h \in Heads, NEW s, Line(s, Elements), Follows(r, h, s)
  PROVE  QU!Middle(r, h) = IF s = << >> THEN h ELSE s[(Len(s) \div 2) + 1]
<1>1. PICK L, N, M, V, f : /\ L = Len(s) /\ N = Cardinality(Elements) /\ M = 2 * N /\ V = Cycle(h, s)
                           /\ f = r.next
  BY Zenon
<1>2. L \in Nat /\ N \in Nat /\ L <= N /\ M \in Nat
  BY <1>1, LengthBound
<1>3. PICK g : Round(g, r, h, s, L)
  BY <1>1, RoundIs
<1>4. s = << >> <=> L = 0
  <2>1. s \in Seq(Elements)
    BY DEF Line
  <2> QED
    BY <2>1, <1>1
<1>5. f[h] = g[1] /\ r.prev[h] = g[L]
  <2>1. PICK z : z = 0
    OBVIOUS
  <2>2. z \in 0 .. L /\ L \in 0 .. L /\ z + 1 = 1
    BY <2>1, <1>2
  <2>3. r.next[g[z]] = g[z + 1] /\ r.prev[g[L + 1]] = g[L]
    BY <2>2, <1>3, SMTT(30) DEF Round
  <2> QED
    BY <2>1, <2>2, <2>3, <1>1, <1>3 DEF Round
<1>6. CASE L = 0
  <2>1. g[1] = g[L] /\ g[1] = h
    <3>1. L + 1 = 1
      BY <1>6
    <3> QED
      BY <3>1, <1>3, <1>6 DEF Round
  <2> QED
    BY <2>1, <1>1, <1>4, <1>5, <1>6, Zenon DEF QU!Middle
<1>7. CASE L = 1
  <2>1. g[1] = g[L] /\ g[1] = s[1] /\ (L \div 2) + 1 = 1
    BY <1>3, <1>7 DEF Round
  <2>2. QU!Middle(r, h) = s[1]
    <3>1. r.next[h] = r.prev[h] /\ r.next[h] = s[1]
      BY <2>1, <1>1, <1>5, Zenon
    <3> QED
      BY <3>1, Zenon DEF QU!Middle
  <2>3. s # << >>
    BY <1>4, <1>7
  <2> QED
    BY <2>1, <2>2, <2>3, <1>1
<1>8. CASE L \notin {0, 1}
  <2>1. L >= 2 /\ 1 \in 0 .. L /\ L \in 0 .. L /\ 1 \in 0 .. L + 1 /\ M >= L + L
    BY <1>1, <1>2, <1>8
  <2>2. f[h] # r.prev[h]
    BY <2>1, <1>3, <1>5 DEF Round
  <2>3. PICK x : x = f[h]
    OBVIOUS
  <2>4. x \in V /\ x = g[1]
    BY <2>1, <2>3, <1>1, <1>3, <1>5 DEF Round
  <2>5. \A v \in V : f[v] \in V
    <3> SUFFICES ASSUME NEW v \in V PROVE f[v] \in V
      OBVIOUS
    <3>1. \E i \in 0 .. L : v = g[i]
      <4>1. CASE v = h
        <5>1. 0 \in 0 .. L /\ g[0] = h
          BY <1>2, <1>3 DEF Round
        <5> QED
          BY <5>1, <4>1
      <4>2. CASE v # h
        <5>1. v \in ToSet(s)
          BY <4>2, <1>1 DEF Cycle
        <5>2. PICK i \in 1 .. L : v = s[i]
          BY <5>1, <1>1, LineParts
        <5>3. i \in 0 .. L /\ g[i] = s[i]
          BY <1>2, <1>3 DEF Round
        <5> QED
          BY <5>2, <5>3
      <4> QED
        BY <4>1, <4>2
    <3>2. PICK i \in 0 .. L : v = g[i]
      BY <3>1
    <3>3. f[v] = g[i + 1] /\ i + 1 \in 0 .. L + 1
      BY <3>2, <1>1, <1>2, <1>3 DEF Round
    <3> QED
      BY <3>3, <1>1, <1>3 DEF Round
  <2>6. PICK step : step = QU!Steps(f, x)
    OBVIOUS
  <2>7. step \in [0 .. M -> V] /\ step[0] = x /\ \A n \in 0 .. M - 1 : step[n + 1] = f[step[n]]
    <3>1. /\ M \in Nat /\ QU!Steps(f, x) \in [0 .. M -> V] /\ QU!Steps(f, x)[0] = x
          /\ \A n \in 0 .. M - 1 : QU!Steps(f, x)[n + 1] = f[QU!Steps(f, x)[n]]
      BY <2>4, <2>5, <1>1, StepsAre
    <3> QED
      BY <3>1, <2>6
  (* The first L steps go down the line and end at the head. *)
  <2>8. PICK D : D = {n \in 0 .. L : step[n] = g[n + 1]}
    BY Zenon
  <2>9. 0 .. L \subseteq D
    <3>1. 0 \in D
      <4>1. 0 \in 0 .. L /\ 0 + 1 = 1
        BY <1>2
      <4> QED
        BY <4>1, <2>4, <2>7, <2>8
    <3>2. ASSUME NEW n \in 0 .. L, n \in D /\ n < L PROVE n + 1 \in D
      <4>1. n \in 0 .. M - 1 /\ n + 1 \in 0 .. L /\ step[n] = g[n + 1]
        BY <3>2, <2>1, <2>8, <1>2
      <4>2. PICK m : m = n + 1
        OBVIOUS
      <4>3. f[g[m]] = g[m + 1]
        BY <4>1, <4>2, <1>1, <1>3 DEF Round
      <4>4. m \in D
        BY <4>1, <4>2, <4>3, <2>7, <2>8
      <4> QED
        BY <4>2, <4>4
    <3> QED
      BY <3>1, <3>2, <1>2, UpTo
  <2>10. \A n \in 0 .. L : step[n] = g[n + 1]
    BY <2>8, <2>9
  <2>11. PICK ends : ends = {n \in 0 .. N : r.prev[h] \in {f[step[2 * n]], f[f[step[2 * n]]]}}
    <3> DEFINE e == {n \in 0 .. N : r.prev[h] \in {f[step[2 * n]], f[f[step[2 * n]]]}}
    <3>1. e = e
      OBVIOUS
    <3> QED
      BY <3>1, Zenon
  <2>12. QU!Middle(r, h) = f[step[QU!Min(ends)]]
    <3>1. 0 .. QU!Cardinality(Elements) = 0 .. N
      BY <1>1, SameInQueue
    <3>2. f = r.next /\ r.next[h] # r.prev[h] /\ step = QU!Steps(r.next, r.next[h])
      BY <2>2, <2>3, <2>6, <1>1
    <3>3. ends = {n \in 0 .. QU!Cardinality(Elements) : r.prev[h] \in {r.next[step[2 * n]], r.next[r.next[step[2 * n]]]}}
      BY <3>1, <3>2, <2>11, Zenon
    <3>4. QU!Middle(r, h) = r.next[step[QU!Min(ends)]]
      BY <3>2, <3>3, Zenon DEF QU!Middle
    <3> QED
      BY <3>2, <3>4
  <2>13. ASSUME NEW n \in 0 .. N, 2 * n + 1 <= L
         PROVE  n \in ends <=> L \in {2 * n + 2, 2 * n + 3}
    <3>1. PICK a : a = 2 * n
      OBVIOUS
    <3>2. a \in 0 .. L /\ a + 1 \in 0 .. L /\ a + 1 <= L /\ a \in Int
      BY <3>1, <2>13, <1>2
    <3>3. PICK b, c, d : b = a + 1 /\ c = b + 1 /\ d = c + 1
      OBVIOUS
    <3>4. step[a] = g[b] /\ f[g[b]] = g[c]
      BY <3>2, <3>3, <2>10, <1>1, <1>3 DEF Round
    <3>5. CASE b = L
      <4>1. c = L + 1 /\ g[c] = h /\ f[g[c]] = g[1]
        BY <3>3, <3>5, <1>1, <1>3, <1>5 DEF Round
      <4>2. 1 \in 0 .. L /\ L \in 0 .. L /\ 0 \in 0 .. L /\ L # 1 /\ L # 0 /\ g[0] = h
        BY <2>1, <1>2, <1>3 DEF Round
      <4>3. g[L] # h /\ g[L] # g[1]
        BY <4>2, <1>3 DEF Round
      <4>4. n \notin ends
        BY <4>1, <4>3, <3>1, <3>4, <2>11, <1>5
      <4>5. L \notin {2 * n + 2, 2 * n + 3}
        BY <3>1, <3>2, <3>3, <3>5
      <4> QED
        BY <4>4, <4>5
    <3>6. CASE b # L
      <4>1. c \in 0 .. L /\ c \in 1 .. L /\ d \in 1 .. L + 1 /\ L \in 1 .. L + 1 /\ c \in 1 .. L + 1
        BY <3>2, <3>3, <3>6, <2>1, <1>2
      <4>2. f[g[c]] = g[d]
        BY <4>1, <3>3, <1>1, <1>3, Zenon DEF Round
      <4>3. (g[L] = g[c] <=> L = c) /\ (g[L] = g[d] <=> L = d)
        BY <4>1, <1>3 DEF Round
      <4>4. n \in ends <=> L = c \/ L = d
        BY <4>2, <4>3, <3>1, <3>4, <2>11, <1>5
      <4>5. c = 2 * n + 2 /\ d = 2 * n + 3
        BY <3>1, <3>2, <3>3
      <4> QED
        BY <4>4, <4>5
    <3> QED
      BY <3>5, <3>6
  <2>14. PICK m : m = (L \div 2) - 1
    OBVIOUS
  <2>15. /\ m \in 0 .. N /\ 2 * m + 1 <= L /\ L \in {2 * m + 2, 2 * m + 3} /\ m \in 0 .. L
         /\ m + 1 = L \div 2 /\ m + 1 \in 0 .. L /\ (m + 1) + 1 \in 1 .. L
    BY <2>1, <2>14, <1>2
  <2>16. m \in ends
    BY <2>13, <2>15
  <2>17. ASSUME NEW n \in ends, n < m PROVE FALSE
    <3>1. n \in 0 .. N
      BY <2>11
    <3>2. 2 * n + 1 <= L /\ L \notin {2 * n + 2, 2 * n + 3}
      BY <3>1, <2>15, <2>17, <1>2
    <3> QED
      BY <3>1, <3>2, <2>13
  <2>18. QU!Min(ends) = m
    <3>1. ends \in SUBSET Nat
      BY <2>11, <1>2
    <3>2. QU!Min(ends) \in ends /\ QU!Min(ends) <= m
      BY <3>1, <2>16, LeastInQueue
    <3>3. PICK z : z = QU!Min(ends)
      OBVIOUS
    <3>4. z \in Nat /\ z <= m /\ ~(z < m)
      BY <3>1, <3>2, <3>3, <2>17, Zenon
    <3> QED
      BY <3>3, <3>4, <2>15
  <2>19. f[step[m]] = s[(m + 1) + 1]
    <3>1. PICK p, q : p = m + 1 /\ q = p + 1
      OBVIOUS
    <3>2. step[m] = g[p] /\ f[g[p]] = g[q] /\ g[q] = s[q]
      BY <3>1, <2>10, <2>15, <1>1, <1>3 DEF Round
    <3> QED
      BY <3>1, <3>2
  <2> QED
    BY <2>12, <2>15, <2>18, <2>19, <1>1, <1>4, <1>8
<1> QED
  BY <1>6, <1>7, <1>8

LEMMA LooseIs ==
  ASSUME NEW x \in QU!Loose
  PROVE  x \in Elements /\ \A g \in Heads : x \notin ToSet(line[g])
BY SameInQueue DEF QU!Loose, QU!Held

LEMMA BecomesIs ==
  ASSUME NEW q \in Rings, QU!Becomes(q)
  PROVE  QU!ring' = q
<1>1. prv' = q.prev /\ nxt' = q.next
  BY DEF QU!Becomes
<1>2. QU!ring' = [prev |-> prv', next |-> nxt']
  BY DEF QU!ring
<1>3. q = [prev |-> q.prev, next |-> q.next]
  BY DEF Rings
<1> QED
  BY <1>1, <1>2, <1>3

LEMMA QueueInvInit == QU!QInit => QueueInv
<1> SUFFICES ASSUME QU!QInit PROVE QueueInv
  OBVIOUS
<1>1. /\ prv = [x \in QU!Links |-> IF x \in Heads THEN x ELSE NULL] /\ nxt = prv
      /\ line = [h \in Heads |-> << >>]
  BY DEF QU!QInit
<1>2. PICK r : r = QU!ring
  OBVIOUS
<1>3. r.prev = prv /\ r.next = prv /\ r = [prev |-> prv, next |-> prv]
  BY <1>1, <1>2 DEF QU!ring
<1>4. r \in Rings
  <2>1. prv \in [QU!Links -> Ends]
    BY <1>1, QUParameters DEF Ends
  <2> QED
    BY <2>1, <1>3 DEF Rings
<1>5. PICK z : z = << >>
  OBVIOUS
<1>6. z \in Seq(Elements) /\ Len(z) = 0 /\ DOMAIN z = {} /\ ToSet(z) = {}
  BY <1>5 DEF ToSet
<1>7. \A h \in Heads : line[h] = z
  BY <1>1, <1>5
<1>8. line \in [Heads -> Seq(Elements)]
  BY <1>1, <1>5, <1>6
<1>9. Line(z, Elements)
  BY <1>6 DEF Line, IsInjective
<1>10. ASSUME NEW h \in Heads PROVE Follows(r, h, z)
  <2>1. r.next[h] = h /\ r.prev[h] = h
    BY <1>1, <1>3, QUParameters
  <2>2. \A i : At(h, z, i) = h
    BY <1>6 DEF At
  <2> QED
    BY <2>1, <2>2 DEF Follows
<1>11. \A x \in Elements : r.prev[x] = NULL /\ r.next[x] = NULL
  BY <1>1, <1>3, QUParameters
<1>12. \A h, g \in Heads : ToSet(line[h]) \cap ToSet(line[g]) = {}
  BY <1>6, <1>7
<1>13. \A h \in Heads : Line(line[h], Elements) /\ Follows(r, h, line[h])
  BY <1>7, <1>9, <1>10
<1> QED
  BY <1>2, <1>4, <1>8, <1>11, <1>12, <1>13 DEF QueueInv, QueueOK

(* Every operation turns the ring into another that is as it should be.    *)
LEMMA TurnsInto ==
  ASSUME NEW q, NEW l, QueueOK(q, l), QU!Becomes(q), line' = l
  PROVE  QueueInv'
<1>1. q \in Rings
  BY DEF QueueOK
<1>2. QU!ring' = q
  BY <1>1, BecomesIs
<1>3. QueueInv' = QueueOK(QU!ring', line')
  BY DEF QueueInv
<1> QED
  BY <1>2, <1>3

LEMMA QueueInvNext == QueueInv /\ [QU!QNext]_queue_vars => QueueInv'
<1> SUFFICES ASSUME QueueInv, [QU!QNext]_queue_vars PROVE QueueInv'
  OBVIOUS
<1>1. CASE UNCHANGED queue_vars
  <2>1. QU!ring' = QU!ring /\ line' = line
    BY <1>1 DEF queue_vars, QU!ring
  <2>2. QueueInv' = QueueOK(QU!ring', line')
    BY DEF QueueInv
  <2> QED
    BY <2>1, <2>2 DEF QueueInv
<1>2. CASE QU!QNext
  <2>1. PICK r : r = QU!ring
    OBVIOUS
  <2>2. QueueOK(r, line)
    BY <2>1 DEF QueueInv
  <2>3. \A h \in Heads : DOMAIN line[h] = 1 .. Len(line[h]) /\ Len(line[h]) \in Nat
    <3> SUFFICES ASSUME NEW h \in Heads PROVE DOMAIN line[h] = 1 .. Len(line[h]) /\ Len(line[h]) \in Nat
      OBVIOUS
    <3>1. Line(line[h], Elements)
      BY <2>2 DEF QueueOK
    <3> QED
      BY <3>1, LineParts
  <2>4. ASSUME NEW h \in Heads, NEW x \in Elements, QU!QueueInsertHead(h, x) PROVE QueueInv'
    <3>1. PICK n : n = 1
      OBVIOUS
    <3>2. n \in 1 .. Len(line[h]) + 1 /\ n - 1 \notin 1 .. Len(line[h])
      BY <3>1, <2>3
    <3>3. \A g \in Heads : x \notin ToSet(line[g])
      BY <2>4, LooseIs DEF QU!QueueInsertHead
    <3>4. QueueOK(QU!PutAfter(r, At(h, line[h], n - 1), x), [line EXCEPT ![h] = InsertAt(line[h], n, x)])
      BY <3>2, <3>3, <2>2, PutOK
    <3>5. At(h, line[h], n - 1) = h
      BY <3>2 DEF At
    <3>6. /\ QU!Becomes(QU!PutAfter(r, h, x)) /\ line' = [line EXCEPT ![h] = InsertAt(line[h], n, x)]
      BY <3>1, <2>1, <2>4, SameInQueue, Zenon DEF QU!QueueInsertHead
    <3> QED
      BY <3>4, <3>5, <3>6, TurnsInto, Zenon
  <2>5. ASSUME NEW h \in Heads, NEW x \in Elements, QU!QueueInsertTail(h, x) PROVE QueueInv'
    <3>1. PICK n : n = Len(line[h]) + 1
      OBVIOUS
    <3>2. n \in 1 .. Len(line[h]) + 1 /\ n \notin 1 .. Len(line[h])
      BY <3>1, <2>3
    <3>3. \A g \in Heads : x \notin ToSet(line[g])
      BY <2>5, LooseIs DEF QU!QueueInsertTail
    <3>4. QueueOK(QU!PutBefore(r, At(h, line[h], n), x), [line EXCEPT ![h] = InsertAt(line[h], n, x)])
      BY <3>2, <3>3, <2>2, PutOK
    <3>5. At(h, line[h], n) = h
      BY <3>2 DEF At
    <3>6. /\ QU!Becomes(QU!PutBefore(r, h, x)) /\ line' = [line EXCEPT ![h] = InsertAt(line[h], n, x)]
      BY <3>1, <2>1, <2>5, SameInQueue, Zenon DEF QU!QueueInsertTail
    <3> QED
      BY <3>4, <3>5, <3>6, TurnsInto, Zenon
  <2>6. ASSUME NEW h \in Heads, NEW n \in DOMAIN line[h], NEW x \in Elements, QU!QueueInsertBefore(h, n, x)
        PROVE  QueueInv'
    <3>1. n \in 1 .. Len(line[h]) + 1 /\ n \in 1 .. Len(line[h])
      BY <2>3
    <3>2. \A g \in Heads : x \notin ToSet(line[g])
      BY <2>6, LooseIs DEF QU!QueueInsertBefore
    <3>3. QueueOK(QU!PutBefore(r, At(h, line[h], n), x), [line EXCEPT ![h] = InsertAt(line[h], n, x)])
      BY <3>1, <3>2, <2>2, PutOK
    <3>4. At(h, line[h], n) = line[h][n]
      BY <3>1 DEF At
    <3>5. /\ QU!Becomes(QU!PutBefore(r, line[h][n], x)) /\ line' = [line EXCEPT ![h] = InsertAt(line[h], n, x)]
      BY <2>1, <2>6, SameInQueue, Zenon DEF QU!QueueInsertBefore
    <3> QED
      BY <3>3, <3>4, <3>5, TurnsInto, Zenon
  <2>7. ASSUME NEW h \in Heads, NEW i \in DOMAIN line[h], NEW x \in Elements, QU!QueueInsertAfter(h, i, x)
        PROVE  QueueInv'
    <3>1. PICK n : n = i + 1
      OBVIOUS
    <3>2. n \in 1 .. Len(line[h]) + 1 /\ i \in 1 .. Len(line[h]) /\ n - 1 = i
      BY <3>1, <2>3
    <3>3. \A g \in Heads : x \notin ToSet(line[g])
      BY <2>7, LooseIs DEF QU!QueueInsertAfter
    <3>4. QueueOK(QU!PutAfter(r, At(h, line[h], n - 1), x), [line EXCEPT ![h] = InsertAt(line[h], n, x)])
      BY <3>2, <3>3, <2>2, PutOK
    <3>5. At(h, line[h], n - 1) = line[h][i]
      BY <3>2 DEF At
    <3>6. /\ QU!Becomes(QU!PutAfter(r, line[h][i], x)) /\ line' = [line EXCEPT ![h] = InsertAt(line[h], n, x)]
      BY <3>1, <2>1, <2>7, SameInQueue, Zenon DEF QU!QueueInsertAfter
    <3> QED
      BY <3>4, <3>5, <3>6, TurnsInto, Zenon
  <2>8. ASSUME NEW h \in Heads, NEW n \in DOMAIN line[h], QU!QueueRemove(h, n) PROVE QueueInv'
    <3>1. n \in 1 .. Len(line[h])
      BY <2>3
    <3>2. QueueOK(QU!TakeOut(r, line[h][n]), [line EXCEPT ![h] = RemoveAt(line[h], n)])
      BY <3>1, <2>2, RemoveOK
    <3>3. /\ QU!Becomes(QU!TakeOut(r, line[h][n])) /\ line' = [line EXCEPT ![h] = RemoveAt(line[h], n)]
      BY <2>1, <2>8, SameInQueue, Zenon DEF QU!QueueRemove
    <3> QED
      BY <3>2, <3>3, TurnsInto, Zenon
  <2>9. ASSUME NEW h \in Heads, NEW n \in Heads, QU!QueueAdd(h, n) PROVE QueueInv'
    <3>1. h # n
      BY <2>9 DEF QU!QueueAdd
    <3>2. QueueOK(Added(r, h, n), [line EXCEPT ![h] = line[h] \o line[n], ![n] = << >>])
      BY <3>1, <2>2, AddOK, Zenon
    <3>3. QU!Becomes(Added(r, h, n)) /\ line' = [line EXCEPT ![h] = line[h] \o line[n], ![n] = << >>]
      BY <2>1, <2>9 DEF QU!QueueAdd, Added
    <3> QED
      BY <3>2, <3>3, TurnsInto, Zenon
  <2>10. ASSUME NEW h \in Heads, NEW n \in Heads, NEW i \in DOMAIN line[h], QU!QueueSplit(h, i, n)
         PROVE  QueueInv'
    <3>1. h # n /\ line[n] = << >> /\ i \in 1 .. Len(line[h])
      BY <2>3, <2>10 DEF QU!QueueSplit
    <3>2. PICK q, l : /\ q = QU!Cut(r, h, line[h][i], n)
                      /\ l = [line EXCEPT ![h] = SubSeq(line[h], 1, i - 1),
                                          ![n] = SubSeq(line[h], i, Len(line[h]))]
      BY Zenon
    <3>3. QueueOK(q, l)
      BY <3>1, <3>2, <2>2, SplitOK, Zenon
    <3>4. QU!Becomes(q) /\ line' = l
      BY <3>2, <2>1, <2>10 DEF QU!QueueSplit
    <3> QED
      BY <3>3, <3>4, TurnsInto
  <2>11. ASSUME NEW h \in Heads, QU!QueueSort(h) PROVE QueueInv'
    <3>1. QueueOK(QU!Sorted(r, h), [line EXCEPT ![h] = QU!InRankOrder(line[h])])
      BY <2>2, SortOK
    <3>2. QU!Becomes(QU!Sorted(r, h)) /\ line' = [line EXCEPT ![h] = QU!InRankOrder(line[h])]
      BY <2>1, <2>11 DEF QU!QueueSort
    <3> QED
      BY <3>1, <3>2, TurnsInto, Zenon
  <2> QED
    BY <1>2, <2>4, <2>5, <2>6, <2>7, <2>8, <2>9, <2>10, <2>11 DEF QU!QNext
<1> QED
  BY <1>1, <1>2

LEMMA RingsProved == QueueInv => QU!RingsAreLines /\ QU!MiddleInMiddle
<1> SUFFICES ASSUME QueueInv PROVE QU!RingsAreLines /\ QU!MiddleInMiddle
  OBVIOUS
<1>1. QueueOK(QU!ring, line) /\ QU!ring.next = nxt /\ QU!ring.prev = prv
  BY DEF QueueInv, QU!ring
<1>2. ASSUME NEW h \in Heads PROVE Line(line[h], Elements) /\ Follows(QU!ring, h, line[h])
  BY <1>1 DEF QueueOK
<1>3. ASSUME NEW h \in Heads, NEW i \in 0 .. Len(line[h])
      PROVE  LET at(j) == IF j \in DOMAIN line[h] THEN line[h][j] ELSE h
             IN  nxt[at(i)] = at(i + 1) /\ prv[at(i + 1)] = at(i)
  <2>1. DOMAIN line[h] = 1 .. Len(line[h])
    BY <1>2, LineParts
  <2>2. \A j : At(h, line[h], j) = IF j \in DOMAIN line[h] THEN line[h][j] ELSE h
    BY <2>1 DEF At
  <2>3. nxt[At(h, line[h], i)] = At(h, line[h], i + 1) /\ prv[At(h, line[h], i + 1)] = At(h, line[h], i)
    BY <1>1, <1>2 DEF Follows
  <2> QED
    BY <2>2, <2>3
<1>4. ASSUME NEW x \in QU!Loose PROVE prv[x] = NULL /\ nxt[x] = NULL
  <2>1. x \in Elements /\ \A g \in Heads : x \notin ToSet(line[g])
    BY LooseIs
  <2> QED
    BY <2>1, <1>1 DEF QueueOK
<1>5. QU!RingsAreLines
  BY <1>3, <1>4 DEF QU!RingsAreLines
<1>6. ASSUME NEW h \in Heads
      PROVE  QU!Middle(QU!ring, h) = IF line[h] = << >> THEN h ELSE line[h][(Len(line[h]) \div 2) + 1]
  BY <1>2, MiddleIs
<1>7. QU!MiddleInMiddle
  BY <1>6 DEF QU!MiddleInMiddle
<1> QED
  BY <1>5, <1>7

(* Forwards and backwards every ring is exactly the sequence its           *)
(* operations promise - queue_add_queue, queue_split and the sort of       *)
(* queue_sort among them -, a link in no queue is linked nowhere, and      *)
(* queue_middle finds the middle.                                          *)
THEOREM QueuesAreExact == PoolsSpec => []QueuesExact
<1>1. PoolsInit => QueueInv
  BY QueueInvInit DEF PoolsInit
<1>2. [PoolsNext]_pools_vars => [QU!QNext]_queue_vars
  BY DEF PoolsNext, HLPools, Pools, Queues, Hashes, Days, pools_vars, queue_vars
<1>3. QueueInv /\ [PoolsNext]_pools_vars => QueueInv'
  BY <1>2, QueueInvNext
<1>4. QueueInv => QueuesExact
  BY RingsProved DEF QueuesExact
<1> QED
  BY <1>1, <1>3, <1>4, PTL DEF PoolsSpec


-----------------------------------------------------------------------------
(* The calendar: years that begin in March, as the formula counts them.    *)
Before(y) == 365 * y + y \div 4 - y \div 100 + y \div 400     \* days before year y
Start(m)  == (367 * m) \div 12 - 30                           \* and before its month m
Leap(y)   == IF CA!LeapYear(y) THEN 1 ELSE 0

MarchMonth(d) == IF d.mon >= 3 THEN d.mon - 2 ELSE d.mon + 10
MarchYear(d)  == IF d.mon >= 3 THEN d.year ELSE d.year - 1

LEMMA YearGrows ==
  ASSUME NEW y \in Nat
  PROVE  Before(y + 1) = Before(y) + 365 + Leap(y + 1) /\ Before(y) \in Int
<1>1. PICK z : z = y + 1
  OBVIOUS
<1>2. z \in Nat
  BY <1>1
<1>3. z \div 4 = y \div 4 + (IF z % 4 = 0 THEN 1 ELSE 0)
  BY <1>1
<1>4. z \div 100 = y \div 100 + (IF z % 100 = 0 THEN 1 ELSE 0)
  BY <1>1
<1>5. z \div 400 = y \div 400 + (IF z % 400 = 0 THEN 1 ELSE 0)
  BY <1>1
<1>6. /\ z % 100 = 0 => z % 4 = 0
      /\ z % 400 = 0 => z % 100 = 0
  BY <1>2
<1>7. /\ y \div 4 \in Int /\ y \div 100 \in Int /\ y \div 400 \in Int
  OBVIOUS
<1>8. Leap(z) = IF z % 4 = 0 /\ (z % 100 # 0 \/ z % 400 = 0) THEN 1 ELSE 0
  BY DEF Leap, CA!LeapYear
<1> QED
  BY <1>1, <1>3, <1>4, <1>5, <1>6, <1>7, <1>8 DEF Before

LEMMA MonthTable ==
  /\ Start(1) = 0 /\ Start(2) = 31 /\ Start(3) = 61 /\ Start(4) = 92 /\ Start(5) = 122
  /\ Start(6) = 153 /\ Start(7) = 184 /\ Start(8) = 214 /\ Start(9) = 245 /\ Start(10) = 275
  /\ Start(11) = 306 /\ Start(12) = 337
BY DEF Start

(* The empirical formula finds the month of a day of the year. *)
LEMMA MonthIs ==
  ASSUME NEW m \in 1 .. 12, NEW e \in 0 .. 365, Start(m) <= e, m = 12 \/ e < Start(m + 1)
  PROVE  ((e + 31) * 10) \div 306 = m
<1>1. CASE m = 1
  BY <1>1, MonthTable
<1>2. CASE m = 2
  BY <1>2, MonthTable
<1>3. CASE m = 3
  BY <1>3, MonthTable
<1>4. CASE m = 4
  BY <1>4, MonthTable
<1>5. CASE m = 5
  BY <1>5, MonthTable
<1>6. CASE m = 6
  BY <1>6, MonthTable
<1>7. CASE m = 7
  BY <1>7, MonthTable
<1>8. CASE m = 8
  BY <1>8, MonthTable
<1>9. CASE m = 9
  BY <1>9, MonthTable
<1>10. CASE m = 10
  BY <1>10, MonthTable
<1>11. CASE m = 11
  BY <1>11, MonthTable
<1>12. CASE m = 12
  BY <1>12, MonthTable
<1>13. m \in {1, 2, 3, 4, 5, 6, 7, 8, 9, 10, 11, 12}
  OBVIOUS
<1> QED
  BY <1>1, <1>2, <1>3, <1>4, <1>5, <1>6, <1>7, <1>8, <1>9, <1>10, <1>11, <1>12, <1>13

Guess(x) == ((x + 2) * 400) \div (365 * 400 + 100 - 4 + 1)

(* Gauss' formula finds the year, or the next. *)
LEMMA YearIs ==
  ASSUME NEW y \in Nat, NEW e \in 0 .. 365, NEW x, x = Before(y) + e
  PROVE  Guess(x) = y \/ Guess(x) = y + 1
<1>1. PICK a, b, c : a = y \div 4 /\ b = y \div 100 /\ c = y \div 400
  OBVIOUS
<1>2. /\ a \in Nat /\ b \in Nat /\ c \in Nat
      /\ 4 * a <= y /\ y <= 4 * a + 3 /\ 100 * b <= y /\ y <= 100 * b + 99
      /\ 400 * c <= y /\ y <= 400 * c + 399
  BY <1>1
<1>3. PICK z : z = (x + 2) * 400
  OBVIOUS
<1>4. z = 400 * (365 * y + a - b + c + e + 2)
  BY <1>1, <1>2, <1>3 DEF Before
<1>5. z \in Int /\ 146097 * y <= z /\ z < 146097 * (y + 2)
  BY <1>2, <1>4
<1>6. z \div 146097 = y \/ z \div 146097 = y + 1
  BY <1>5
<1>7. 365 * 400 + 100 - 4 + 1 = 146097
  OBVIOUS
<1> QED
  BY <1>3, <1>6, <1>7 DEF Guess

(* March month of the month of a date. *)
March(mon) == IF mon >= 3 THEN mon - 2 ELSE mon + 10

LEMMA MonthDaysAre ==
  ASSUME NEW mon \in 1 .. 12, NEW y
  PROVE  /\ March(mon) \in 1 .. 12 /\ (March(mon) = 12 <=> mon = 2)
         /\ mon # 2 => /\ CA!MonthDays(y, mon) \in {30, 31}
                       /\ Start(March(mon) + 1) = Start(March(mon)) + CA!MonthDays(y, mon)
         /\ CA!MonthDays(y, 2) = 28 + Leap(y)
         /\ Start(March(mon)) \in Nat /\ (Start(March(mon)) >= 306 <=> mon < 3)
<1>1. CASE mon = 1
  BY <1>1, MonthTable DEF March, CA!MonthDays, Leap
<1>2. CASE mon = 2
  BY <1>2, MonthTable DEF March, CA!MonthDays, Leap
<1>3. CASE mon = 3
  BY <1>3, MonthTable DEF March, CA!MonthDays, Leap
<1>4. CASE mon = 4
  BY <1>4, MonthTable DEF March, CA!MonthDays, Leap
<1>5. CASE mon = 5
  BY <1>5, MonthTable DEF March, CA!MonthDays, Leap
<1>6. CASE mon = 6
  BY <1>6, MonthTable DEF March, CA!MonthDays, Leap
<1>7. CASE mon = 7
  BY <1>7, MonthTable DEF March, CA!MonthDays, Leap
<1>8. CASE mon = 8
  BY <1>8, MonthTable DEF March, CA!MonthDays, Leap
<1>9. CASE mon = 9
  BY <1>9, MonthTable DEF March, CA!MonthDays, Leap
<1>10. CASE mon = 10
  BY <1>10, MonthTable DEF March, CA!MonthDays, Leap
<1>11. CASE mon = 11
  BY <1>11, MonthTable DEF March, CA!MonthDays, Leap
<1>12. CASE mon = 12
  BY <1>12, MonthTable DEF March, CA!MonthDays, Leap
<1>13. CA!MonthDays(y, 2) = 28 + Leap(y)
  BY DEF CA!MonthDays, Leap
<1>14. mon \in {1, 2, 3, 4, 5, 6, 7, 8, 9, 10, 11, 12}
  OBVIOUS
<1> QED
  BY <1>1, <1>2, <1>3, <1>4, <1>5, <1>6, <1>7, <1>8, <1>9, <1>10, <1>11, <1>12, <1>13, <1>14

Epoch == 719468                          \* days from March 1, 1 BC to January 1, 1970

LEMMA EpochIs == ASSUME NEW d \in Nat PROVE d - (31 + 28) + 719527 = d + Epoch
BY SMT DEF Epoch

(* time_gmtime, of a day of a year that begins in March. *)
LEMMA GmtimeIs ==
  ASSUME NEW y \in Nat, NEW e \in Nat, e < 365 + Leap(y + 1),
         NEW d \in Nat, d + Epoch = Before(y) + e,
         NEW m, m = ((e + 31) * 10) \div 306
  PROVE  CA!Gmtime(d) = [year |-> IF e >= 306 THEN y + 1 ELSE y,
                         mon  |-> IF e >= 306 THEN m - 10 ELSE m + 2,
                         mday |-> e - Start(m) + 1,
                         wday |-> (4 + d) % 7]
<1>1. Leap(y + 1) \in {0, 1} /\ Before(y) \in Int /\ Before(y + 1) = Before(y) + 365 + Leap(y + 1)
  BY YearGrows DEF Leap
<1>2. e \in 0 .. 365
  BY <1>1
<1>3. PICK days : days = d + Epoch
  OBVIOUS
<1>4. days = Before(y) + e
  BY <1>3
<1>5. PICK g : g = Guess(days)
  OBVIOUS
<1>6. g = y \/ g = y + 1
  BY <1>2, <1>4, <1>5, YearIs, Zenon
<1>7. CA!YearDay(days, g) = days - Before(g)
  BY DEF CA!YearDay, Before
<1>8. PICK k, yday, year :
        /\ k = CA!YearDay(days, g)
        /\ yday = (IF k < 0 THEN 365 + Leap(g) + k ELSE k)
        /\ year = (IF k < 0 THEN g - 1 ELSE g)
  BY Zenon
<1>9. yday = e /\ year = y
  <2>1. k = days - Before(g)
    BY <1>7, <1>8
  <2>2. CASE g = y
    <3>1. k = e
      BY <2>1, <2>2, <1>1, <1>4
    <3> QED
      BY <3>1, <2>2, <1>8
  <2>3. CASE g = y + 1
    <3>1. k = e - (365 + Leap(y + 1)) /\ k < 0
      BY <2>1, <2>3, <1>1, <1>4
    <3>2. yday = 365 + Leap(y + 1) + k /\ year = (y + 1) - 1
      BY <3>1, <2>3, <1>8
    <3> QED
      BY <3>1, <3>2, <1>1
  <2> QED
    BY <2>2, <2>3, <1>6
<1>10. CA!Gmtime(d) = [year |-> IF yday >= 306 THEN year + 1 ELSE year,
                       mon  |-> IF yday >= 306 THEN m - 10 ELSE m + 2,
                       mday |-> yday - ((367 * m) \div 12 - 30) + 1,
                       wday |-> (4 + d) % 7]
  <2>1. days = d - (31 + 28) + 719527
    BY <1>3, EpochIs, SMT
  <2> QED
    BY <2>1, <1>5, <1>8, <1>9, SMT DEF CA!Gmtime, Leap, Guess
<1> QED
  BY <1>9, <1>10 DEF Start

Date == [year : Nat \ {0}, mon : 1 .. 12, mday : 1 .. 31, wday : Int]

(* The date's place among the days since March 1 of its year, and since    *)
(* March 1, 1 BC.                                                          *)
DateInv ==
  /\ day \in Nat /\ date \in Date
  /\ date.mday <= CA!MonthDays(date.year, date.mon)
  /\ date.wday = (4 + day) % 7
  /\ day + Epoch = Before(MarchYear(date)) + Start(MarchMonth(date)) + date.mday - 1

LEMMA DateInvInit == CA!CalInit => DateInv
<1> SUFFICES ASSUME CA!CalInit PROVE DateInv
  OBVIOUS
<1>1. day = 0 /\ date = [year |-> 1970, mon |-> 1, mday |-> 1, wday |-> 4]
  BY DEF CA!CalInit
<1>2. /\ date.year = 1970 /\ date.mon = 1 /\ date.mday = 1 /\ date.wday = 4
      /\ day \in Nat /\ date \in Date
  BY <1>1, SMT DEF Date
<1>3. CA!MonthDays(1970, 1) = 31
  BY SMT DEF CA!MonthDays
<1>4. MarchYear(date) = 1969 /\ MarchMonth(date) = 11
  BY <1>2, SMT DEF MarchYear, MarchMonth
<1>5. Before(1969) + Start(11) + 1 - 1 = Epoch
  BY MonthTable, SMT DEF Before, Epoch
<1>6. 0 + Epoch = Epoch
  BY SMT DEF Epoch
<1> QED
  BY <1>1, <1>2, <1>3, <1>4, <1>5, <1>6, SMT DEF DateInv

(* Where a date lies in its year from March. *)
LEMMA DateParts ==
  ASSUME DateInv, NEW m, m = March(date.mon), NEW y, y = MarchYear(date)
  PROVE  /\ m \in 1 .. 12 /\ MarchMonth(date) = m /\ y \in Nat
         /\ date.year \in Nat /\ date.mon \in 1 .. 12 /\ date.mday \in 1 .. 31 /\ date \in Date
         /\ date.mon < 3 => date.year = y + 1
         /\ date.mon >= 3 => date.year = y
         /\ date.mon >= 3 => date.mon = m + 2
         /\ date.mon < 3 => date.mon = m - 10
         /\ (m = 12 <=> date.mon = 2) /\ Start(m) \in Nat /\ (Start(m) >= 306 <=> date.mon < 3)
<1>1. /\ date.year \in Nat \ {0} /\ date.mon \in 1 .. 12 /\ date.mday \in 1 .. 31 /\ date \in Date
  BY DEF DateInv, Date
<1>2. /\ m \in 1 .. 12 /\ (m = 12 <=> date.mon = 2)
      /\ Start(m) \in Nat /\ (Start(m) >= 306 <=> date.mon < 3)
  BY <1>1, MonthDaysAre
<1>3. MarchMonth(date) = m
  BY DEF MarchMonth, March
<1> QED
  BY <1>1, <1>2, <1>3 DEF MarchYear, March

LEMMA DateProves == DateInv => DateRight
<1> SUFFICES ASSUME DateInv PROVE CA!DateRight
  BY DEF DateRight
<1>1. PICK m, y, n, e : /\ m = March(date.mon) /\ y = MarchYear(date) /\ n = date.mday
                        /\ e = Start(m) + n - 1
  OBVIOUS
<1>2. /\ m \in 1 .. 12 /\ MarchMonth(date) = m /\ y \in Nat
      /\ date.year \in Nat /\ date.mon \in 1 .. 12 /\ n \in 1 .. 31 /\ date \in Date
      /\ (date.mon < 3 => date.year = y + 1) /\ (date.mon >= 3 => date.year = y)
      /\ (date.mon >= 3 => date.mon = m + 2) /\ (date.mon < 3 => date.mon = m - 10)
      /\ (m = 12 <=> date.mon = 2) /\ Start(m) \in Nat /\ (Start(m) >= 306 <=> date.mon < 3)
  BY <1>1, DateParts
<1>3. /\ n <= CA!MonthDays(date.year, date.mon) /\ date.wday = (4 + day) % 7 /\ day \in Nat
      /\ day + Epoch = Before(y) + Start(m) + n - 1
  BY <1>1, <1>2 DEF DateInv
<1>4. /\ e \in Nat /\ Start(m) <= e /\ Leap(y + 1) \in {0, 1}
  BY <1>1, <1>2 DEF Leap
<1>5. e < 365 + Leap(y + 1) /\ (m = 12 \/ e < Start(m + 1)) /\ (e >= 306 <=> date.mon < 3)
  <2>1. CASE date.mon = 2
    <3>1. CA!MonthDays(date.year, date.mon) = 28 + Leap(y + 1)
      BY <2>1, <1>2, MonthDaysAre
    <3>2. Start(m) = 337 /\ m = 12
      BY <2>1, <1>2, MonthTable
    <3> QED
      BY <3>1, <3>2, <2>1, <1>1, <1>2, <1>3, <1>4
  <2>2. CASE date.mon # 2
    <3>1. /\ Start(m + 1) = Start(m) + CA!MonthDays(date.year, date.mon)
          /\ CA!MonthDays(date.year, date.mon) \in {30, 31}
      BY <2>2, <1>1, <1>2, MonthDaysAre
    <3>2. e < Start(m + 1)
      BY <3>1, <1>1, <1>2, <1>3
    <3>3. /\ Start(m + 1) <= 337 /\ (date.mon >= 3 => Start(m + 1) <= 306)
      <4>1. m \in {1, 2, 3, 4, 5, 6, 7, 8, 9, 10, 11}
        BY <2>2, <1>2
      <4>2. date.mon >= 3 => m <= 10
        BY <1>2
      <4>3. CASE m = 11
        BY <4>2, <4>3, MonthTable
      <4>4. CASE m # 11
        <5>1. Start(m + 1) <= 306
          BY <4>1, <4>4, MonthTable
        <5> QED
          BY <5>1, <3>1, <1>2
      <4> QED
        BY <4>3, <4>4
    <3>4. date.mon >= 3 => e < 306
      BY <3>2, <3>3, <1>4, <3>1, <1>2
    <3>5. date.mon < 3 => e >= 306
      BY <1>2, <1>4, SMTT(30)
    <3> QED
      BY <3>1, <3>2, <3>3, <3>4, <3>5, <1>2, <1>4
  <2> QED
    BY <2>1, <2>2
<1>6. m = ((e + 31) * 10) \div 306
  <2>1. e \in 0 .. 365
    BY <1>4, <1>5
  <2> QED
    BY <2>1, <1>2, <1>4, <1>5, MonthIs, SMTT(30)
<1>7. day + Epoch = Before(y) + e
  BY <1>1, <1>2, <1>3, YearGrows, SMT DEF Epoch
<1>8. CA!Gmtime(day) = [year |-> IF e >= 306 THEN y + 1 ELSE y,
                        mon  |-> IF e >= 306 THEN m - 10 ELSE m + 2,
                        mday |-> e - Start(m) + 1,
                        wday |-> (4 + day) % 7]
  BY <1>2, <1>3, <1>4, <1>5, <1>6, <1>7, GmtimeIs
<1>9. e - Start(m) + 1 = n
  BY <1>1, <1>2
<1>10. /\ date.year = (IF e >= 306 THEN y + 1 ELSE y)
       /\ date.mon = (IF e >= 306 THEN m - 10 ELSE m + 2)
  BY <1>2, <1>5
<1>11. date = [year |-> date.year, mon |-> date.mon, mday |-> date.mday, wday |-> date.wday]
  BY <1>2 DEF Date
<1>12. CA!Gmtime(day) = [year |-> date.year, mon |-> date.mon, mday |-> date.mday, wday |-> date.wday]
  BY <1>1, <1>3, <1>8, <1>9, <1>10
<1> QED
  BY <1>11, <1>12 DEF CA!DateRight

LEMMA NextWeekday ==
  ASSUME NEW d \in Nat
  PROVE  (((4 + d) % 7) + 1) % 7 = (4 + (d + 1)) % 7
BY SMT

LEMMA DateInvNext == DateInv /\ [CA!NextDay]_cal_vars => DateInv'
<1> SUFFICES ASSUME DateInv, [CA!NextDay]_cal_vars PROVE DateInv'
  OBVIOUS
<1>1. CASE UNCHANGED cal_vars
  BY <1>1 DEF cal_vars, DateInv, Date, MarchYear, MarchMonth, Before, Start, Epoch, CA!MonthDays,
     CA!LeapYear
<1>2. CASE CA!NextDay
  <2>1. PICK m, y, n, mon, yr, D : /\ m = March(mon) /\ y = MarchYear(date) /\ n = date.mday
                                   /\ mon = date.mon /\ yr = date.year
                                   /\ D = CA!MonthDays(yr, mon)
    OBVIOUS
  <2>2. /\ m \in 1 .. 12 /\ MarchMonth(date) = m /\ y \in Nat
        /\ yr \in Nat /\ mon \in 1 .. 12 /\ n \in 1 .. 31
        /\ (mon < 3 => yr = y + 1) /\ (mon >= 3 => yr = y)
        /\ (mon >= 3 => mon = m + 2) /\ (mon < 3 => mon = m - 10)
        /\ (m = 12 <=> mon = 2) /\ Start(m) \in Nat
    BY <2>1, DateParts
  <2>3. /\ n <= D /\ date.wday = (4 + day) % 7 /\ day \in Nat
        /\ day + Epoch = Before(y) + Start(m) + n - 1
    BY <2>1, <2>2 DEF DateInv
  <2>4. /\ (mon # 2 => D \in {30, 31} /\ Start(m + 1) = Start(m) + D)
        /\ (mon = 2 => D = 28 + Leap(yr)) /\ Leap(yr) \in {0, 1}
    BY <2>1, <2>2, MonthDaysAre DEF Leap
  <2>5. yr # 0
    BY <2>1 DEF DateInv, Date
  <2>6. PICK n2, mon2, yr2 :
          /\ n2 = (IF n = D THEN 1 ELSE n + 1)
          /\ mon2 = (IF n # D THEN mon ELSE IF mon = 12 THEN 1 ELSE mon + 1)
          /\ yr2 = (IF n = D /\ mon = 12 THEN yr + 1 ELSE yr)
    OBVIOUS
  <2>7. /\ day' = day + 1
        /\ date' = [mday |-> n2, mon |-> mon2, year |-> yr2, wday |-> (date.wday + 1) % 7]
    BY <1>2, <2>1, <2>6 DEF CA!NextDay
  <2>8. n2 \in 1 .. 31 /\ mon2 \in 1 .. 12 /\ yr2 \in Nat \ {0}
    BY <2>2, <2>3, <2>4, <2>5, <2>6
  <2>9. date'.mday = n2 /\ date'.mon = mon2 /\ date'.year = yr2 /\ date'.wday = (date.wday + 1) % 7
    BY <2>7
  <2>10. date'.wday = (4 + day') % 7 /\ date'.wday \in Int /\ day' \in Nat
    BY <2>3, <2>7, <2>9, NextWeekday
  <2>11. date' \in Date
    BY <2>7, <2>8, <2>9, <2>10 DEF Date
  <2>12. n2 <= CA!MonthDays(yr2, mon2)
    <3>1. CASE n = D
      <4>1. CA!MonthDays(yr2, mon2) \in {28, 29, 30, 31}
        BY <2>8, SMT DEF CA!MonthDays
      <4> QED
        BY <3>1, <4>1, <2>6
    <3>2. CASE n # D
      BY <3>2, <2>1, <2>2, <2>3, <2>4, <2>6
    <3> QED
      BY <3>1, <3>2
  <2>13. PICK m2, y2 : m2 = March(mon2) /\ y2 = (IF mon2 >= 3 THEN yr2 ELSE yr2 - 1)
    OBVIOUS
  <2>14. Before(y2) + Start(m2) + n2 - 1 = Before(y) + Start(m) + n
    <3>1. Before(y) \in Int /\ Before(y + 1) = Before(y) + 365 + Leap(y + 1)
      BY <2>2, YearGrows
    <3>2. CASE n # D
      <4>1. m2 = m /\ y2 = y /\ n2 = n + 1
        BY <3>2, <2>1, <2>2, <2>6, <2>13
      <4> QED
        BY <4>1, <3>1, <2>2
    <3>3. CASE n = D /\ mon = 2
      <4>1. m = 12 /\ m2 = 1 /\ y2 = y + 1 /\ n2 = 1 /\ yr = y + 1
        BY <3>3, <2>2, <2>6, <2>13 DEF March
      <4>2. n = 28 + Leap(y + 1)
        BY <4>1, <3>3, <2>4
      <4>3. Start(12) = 337 /\ Start(1) = 0
        BY MonthTable
      <4>4. Leap(y + 1) \in {0, 1}
        BY DEF Leap
      <4> QED
        BY <4>1, <4>2, <4>3, <4>4, <3>1
    <3>4. CASE n = D /\ mon # 2
      <4>1. m2 = m + 1
        <5>1. mon2 = IF mon = 12 THEN 1 ELSE mon + 1
          BY <3>4, <2>6
        <5> QED
          BY <5>1, <3>4, <2>1, <2>2, <2>13 DEF March
      <4>2. y2 = y /\ n2 = 1
        <5>1. CASE mon = 12
          BY <5>1, <3>4, <2>2, <2>6, <2>13
        <5>2. CASE mon # 12
          BY <5>2, <3>4, <2>2, <2>6, <2>13
        <5> QED
          BY <5>1, <5>2
      <4>3. D \in {30, 31} /\ Start(m + 1) = Start(m) + D
        BY <3>4, <2>4
      <4> QED
        BY <4>1, <4>2, <4>3, <3>1, <3>4, <2>2
    <3> QED
      BY <3>2, <3>3, <3>4
  <2>15. (day + 1) + Epoch = Before(y2) + Start(m2) + n2 - 1
    <3>1. PICK b : b = Before(y) + Start(m)
      OBVIOUS
    <3>2. b \in Int
      BY <3>1, <2>2, YearGrows
    <3>3. day + Epoch = b + n - 1
      BY <3>1, <2>3
    <3>4. (day + 1) + Epoch = b + n
      BY <3>2, <3>3, <2>2, <2>3, SMT DEF Epoch
    <3> QED
      BY <3>1, <3>4, <2>14
  <2>16. MarchMonth(date') = m2 /\ MarchYear(date') = y2
    BY <2>9, <2>13 DEF MarchMonth, MarchYear, March
  <2>17. /\ day' \in Nat /\ date' \in Date
         /\ date'.mday <= CA!MonthDays(date'.year, date'.mon)
         /\ date'.wday = (4 + day') % 7
         /\ day' + Epoch = Before(MarchYear(date')) + Start(MarchMonth(date')) + date'.mday - 1
    BY <2>7, <2>9, <2>10, <2>11, <2>12, <2>15, <2>16
  <2> QED
    BY <2>17 DEF DateInv
<1> QED
  BY <1>1, <1>2

(* For any number of days: the formula of time_gmtime gives the date that  *)
(* the calendar counts to (the 32-bit time it is given ends with day       *)
(* 49710).                                                                 *)
THEOREM DatesAreRight == PoolsSpec => []DateRight
<1>1. PoolsInit => DateInv
  BY DateInvInit DEF PoolsInit
<1>2. [PoolsNext]_pools_vars => [CA!NextDay]_cal_vars
  BY DEF PoolsNext, HLPools, Pools, Queues, Hashes, Days, pools_vars, cal_vars
<1>3. DateInv /\ [PoolsNext]_pools_vars => DateInv'
  BY <1>2, DateInvNext
<1> QED
  BY <1>1, <1>3, DateProves, PTL DEF PoolsSpec

=============================================================================
