-------------------------- MODULE AgedCountsProofs --------------------------
(* What counting, ageing and the passing of the window do to the number of  *)
(* occurrences, for every length of the window.                             *)
EXTENDS AgedCounts, FiniteSetTheorems, FunctionTheorems, TLAPS

LEMMA OccurrencesMembers ==
    ASSUME NEW counts, NEW ages, NEW a, NEW n
    PROVE  <<a, n>> \in Occurrences(counts, ages) <=> a \in ages /\ n \in 1 .. counts[a]
BY DEF Occurrences

LEMMA OccurrencesArePairs ==
    ASSUME NEW counts, NEW ages, NEW p \in Occurrences(counts, ages)
    PROVE  /\ p = <<p[1], p[2]>>
           /\ p[1] \in ages
           /\ p[2] \in 1 .. counts[p[1]]
BY DEF Occurrences

\* A count per age is finite, and so is their number.
LEMMA CountsAreFinite ==
    ASSUME NEW W \in Nat, NEW counts \in [AgesWithin(W) -> Nat], NEW ages \in SUBSET AgesWithin(W)
    PROVE  /\ IsFiniteSet(Occurrences(counts, ages))
           /\ CountWithin(counts, ages) \in Nat
<1>1. IsFiniteSet(AgesWithin(W))
  BY FS_Interval DEF AgesWithin
<1>2. IsFiniteSet(ages)
  BY <1>1, FS_Subset
<1> DEFINE Column == [a \in ages |-> {a} \X (1 .. counts[a])]
           Columns == {{a} \X (1 .. counts[a]) : a \in ages}
<1>3. IsFiniteSet(Columns)
  <2>1. Column \in Surjection(ages, Columns)
    BY Fun_IsSurj
  <2> QED
    BY <1>2, <2>1, FS_Surjection
<1>4. ASSUME NEW c \in Columns PROVE IsFiniteSet(c)
  <2>1. PICK a \in ages : c = {a} \X (1 .. counts[a])
    OBVIOUS
  <2>2. counts[a] \in Nat
    OBVIOUS
  <2>3. IsFiniteSet({a})
    BY FS_Singleton
  <2>4. IsFiniteSet(1 .. counts[a])
    BY <2>2, FS_Interval
  <2> QED
    BY <2>1, <2>3, <2>4, FS_Product
<1>5. IsFiniteSet(UNION Columns)
  BY <1>3, <1>4, FS_UNION
<1> QED
  BY <1>5, FS_CardinalityType DEF Occurrences, CountWithin

LEMMA NothingCounted ==
    ASSUME NEW W \in Nat, NEW counts \in [AgesWithin(W) -> Nat], NEW ages \in SUBSET AgesWithin(W),
           \A a \in ages : counts[a] = 0
    PROVE  CountWithin(counts, ages) = 0
<1>1. ASSUME NEW p \in Occurrences(counts, ages) PROVE FALSE
  BY OccurrencesArePairs
<1>2. Occurrences(counts, ages) = {}
  BY <1>1
<1> QED
  BY <1>2, FS_EmptySet DEF CountWithin

LEMMA CountsOfMoreAges ==
    ASSUME NEW W \in Nat, NEW counts \in [AgesWithin(W) -> Nat], NEW ages \in SUBSET AgesWithin(W),
           NEW some \in SUBSET ages
    PROVE  CountWithin(counts, some) <= CountWithin(counts, ages)
<1>1. Occurrences(counts, some) \subseteq Occurrences(counts, ages)
  BY DEF Occurrences
<1> QED
  BY <1>1, CountsAreFinite, FS_Subset DEF CountWithin

LEMMA CountsOfDisjointAges ==
    ASSUME NEW W \in Nat, NEW counts \in [AgesWithin(W) -> Nat],
           NEW A \in SUBSET AgesWithin(W), NEW B \in SUBSET AgesWithin(W), A \intersect B = {}
    PROVE  CountWithin(counts, A \union B) = CountWithin(counts, A) + CountWithin(counts, B)
<1> DEFINE OA == Occurrences(counts, A)
           OB == Occurrences(counts, B)
<1>1. Occurrences(counts, A \union B) = OA \union OB
  BY DEF Occurrences
<1>2. OA \intersect OB = {}
  BY DEF Occurrences
<1>3. IsFiniteSet(OA) /\ IsFiniteSet(OB)
  BY CountsAreFinite
<1>4. Cardinality(OA \union OB) = Cardinality(OA) + Cardinality(OB) - Cardinality(OA \intersect OB)
  BY <1>3, FS_Union
<1>5. Cardinality(OA \intersect OB) = 0
  BY <1>2, FS_EmptySet
<1>6. Cardinality(OA) \in Nat /\ Cardinality(OB) \in Nat
  BY <1>3, FS_CardinalityType
<1>7. Cardinality(OA \union OB) = Cardinality(OA) + Cardinality(OB)
  BY <1>4, <1>5, <1>6
<1> QED
  BY <1>1, <1>7 DEF CountWithin

\* The occurrences of an age can be counted one by one.
LEMMA OneMoreCounted ==
    ASSUME NEW W \in Nat, W # 0, NEW counts \in [AgesWithin(W) -> Nat],
           NEW ages \in SUBSET AgesWithin(W)
    PROVE  /\ CountNow(counts) \in [AgesWithin(W) -> Nat]
           /\ 0 \in ages => CountWithin(CountNow(counts), ages) = CountWithin(counts, ages) + 1
           /\ 0 \notin ages => CountWithin(CountNow(counts), ages) = CountWithin(counts, ages)
<1>1. 0 \in AgesWithin(W) /\ counts[0] \in Nat
  BY DEF AgesWithin
<1>2. CountNow(counts) \in [AgesWithin(W) -> Nat]
  BY <1>1 DEF CountNow
<1>3. ASSUME 0 \in ages
      PROVE  CountWithin(CountNow(counts), ages) = CountWithin(counts, ages) + 1
  <2> DEFINE O == Occurrences(counts, ages)
             new == <<0, counts[0] + 1>>
  <2>1. ASSUME NEW a \in ages, a # 0 PROVE CountNow(counts)[a] = counts[a]
    BY <2>1 DEF CountNow
  <2>2. CountNow(counts)[0] = counts[0] + 1
    BY <1>1 DEF CountNow
  <2>3. Occurrences(CountNow(counts), ages) = O \union {new}
    <3>1. ASSUME NEW p \in Occurrences(CountNow(counts), ages) PROVE p \in O \union {new}
      <4>1. p = <<p[1], p[2]>> /\ p[1] \in ages /\ p[2] \in 1 .. CountNow(counts)[p[1]]
        BY <3>1, OccurrencesArePairs
      <4>2. CASE p[1] # 0
        BY <2>1, <4>1, <4>2, OccurrencesMembers
      <4>3. CASE p[1] = 0
        <5>1. p[2] \in 1 .. counts[0] \/ p[2] = counts[0] + 1
          BY <1>1, <2>2, <4>1, <4>3
        <5> QED
          BY <1>3, <4>1, <4>3, <5>1, OccurrencesMembers
      <4> QED
        BY <4>2, <4>3
    <3>2. ASSUME NEW p \in O PROVE p \in Occurrences(CountNow(counts), ages)
      <4>1. p = <<p[1], p[2]>> /\ p[1] \in ages /\ p[2] \in 1 .. counts[p[1]]
        BY <3>2, OccurrencesArePairs
      <4>2. p[2] \in 1 .. CountNow(counts)[p[1]]
        BY <1>1, <2>1, <2>2, <4>1
      <4> QED
        BY <4>1, <4>2, OccurrencesMembers
    <3>3. new \in Occurrences(CountNow(counts), ages)
      BY <1>1, <1>3, <2>2, OccurrencesMembers
    <3> QED
      BY <3>1, <3>2, <3>3
  <2>4. new \notin O
    BY <1>1, OccurrencesMembers
  <2>5. IsFiniteSet(O)
    BY CountsAreFinite
  <2> QED
    BY <2>3, <2>4, <2>5, FS_AddElement DEF CountWithin
<1>4. ASSUME 0 \notin ages
      PROVE  CountWithin(CountNow(counts), ages) = CountWithin(counts, ages)
  <2>1. \A a \in ages : CountNow(counts)[a] = counts[a]
    BY <1>4 DEF CountNow
  <2>2. Occurrences(CountNow(counts), ages) = Occurrences(counts, ages)
    BY <2>1 DEF Occurrences
  <2> QED
    BY <2>2 DEF CountWithin
<1> QED
  BY <1>2, <1>3, <1>4

LEMMA AgedType ==
    ASSUME NEW W \in Nat, NEW counts \in [AgesWithin(W) -> Nat]
    PROVE  Aged(counts) \in [AgesWithin(W) -> Nat]
BY DEF Aged, AgesWithin

\* A tick moves every occurrence to the next age, and the oldest out of the window.
LEMMA EverythingAges ==
    ASSUME NEW W \in Nat, NEW counts \in [AgesWithin(W) -> Nat],
           NEW ages \in SUBSET AgesWithin(W), NEW older \in SUBSET AgesWithin(W)
    PROVE  /\ Aged(counts) \in [AgesWithin(W) -> Nat]
           /\ (\A a \in older : a # 0 => a - 1 \in ages)
                => CountWithin(Aged(counts), older) <= CountWithin(counts, ages)
           /\ (\A a \in ages : a + 1 \in older)
                => CountWithin(counts, ages) <= CountWithin(Aged(counts), older)
<1>1. ASSUME NEW a \in AgesWithin(W), a # 0 PROVE a - 1 \in AgesWithin(W) /\ a - 1 \in Nat
  BY <1>1 DEF AgesWithin
<1>2. /\ Aged(counts) \in [AgesWithin(W) -> Nat]
      /\ \A a \in AgesWithin(W) : a # 0 => Aged(counts)[a] = counts[a - 1]
      /\ \A a \in AgesWithin(W) : a = 0 => Aged(counts)[a] = 0
  BY <1>1 DEF Aged
<1> DEFINE O == Occurrences(counts, ages)
           P == Occurrences(Aged(counts), older)
<1>3. IsFiniteSet(O) /\ IsFiniteSet(P)
  BY <1>2, CountsAreFinite
<1>4. ASSUME \A a \in older : a # 0 => a - 1 \in ages
      PROVE  CountWithin(Aged(counts), older) <= CountWithin(counts, ages)
  <2> DEFINE f == [p \in P |-> <<p[1] - 1, p[2]>>]
  <2>1. ASSUME NEW p \in P
        PROVE  /\ p = <<p[1], p[2]>> /\ p[1] \in Nat /\ p[1] - 1 \in Nat
               /\ <<p[1] - 1, p[2]>> \in O
    <3>1. p = <<p[1], p[2]>> /\ p[1] \in older /\ p[2] \in 1 .. Aged(counts)[p[1]]
      BY <2>1, OccurrencesArePairs
    <3>2. p[1] # 0
      BY <1>2, <3>1
    <3>3. p[2] \in 1 .. counts[p[1] - 1] /\ p[1] - 1 \in ages
      BY <1>2, <1>4, <3>1, <3>2
    <3> QED
      BY <3>1, <3>3, OccurrencesMembers DEF AgesWithin
  <2>2. f \in [P -> O]
    BY <2>1
  <2>3. ASSUME NEW p \in P, NEW q \in P, f[p] = f[q] PROVE p = q
    <3>1. p[1] - 1 = q[1] - 1 /\ p[2] = q[2]
      BY <2>3
    <3>2. /\ p = <<p[1], p[2]>> /\ p[1] \in Nat
          /\ q = <<q[1], q[2]>> /\ q[1] \in Nat
      BY <2>1
    <3>3. p[1] = q[1]
      BY <3>1, <3>2
    <3> QED
      BY <3>1, <3>2, <3>3, Zenon
  <2>4. f \in Injection(P, O)
    BY <2>2, <2>3, Fun_IsInj
  <2> QED
    BY <1>3, <2>4, FS_Injection DEF CountWithin
<1>5. ASSUME \A a \in ages : a + 1 \in older
      PROVE  CountWithin(counts, ages) <= CountWithin(Aged(counts), older)
  <2> DEFINE f == [p \in O |-> <<p[1] + 1, p[2]>>]
  <2>1. ASSUME NEW p \in O
        PROVE  /\ p = <<p[1], p[2]>> /\ p[1] \in Nat
               /\ <<p[1] + 1, p[2]>> \in P
    <3>1. p = <<p[1], p[2]>> /\ p[1] \in ages /\ p[2] \in 1 .. counts[p[1]]
      BY <2>1, OccurrencesArePairs
    <3>2. p[1] \in Nat /\ p[1] + 1 \in older /\ p[1] + 1 # 0 /\ (p[1] + 1) - 1 = p[1]
      BY <1>5, <3>1 DEF AgesWithin
    <3>3. p[2] \in 1 .. Aged(counts)[p[1] + 1]
      BY <1>2, <3>1, <3>2
    <3> QED
      BY <3>1, <3>2, <3>3, OccurrencesMembers
  <2>2. f \in [O -> P]
    BY <2>1
  <2>3. ASSUME NEW p \in O, NEW q \in O, f[p] = f[q] PROVE p = q
    <3>1. p[1] + 1 = q[1] + 1 /\ p[2] = q[2]
      BY <2>3
    <3>2. /\ p = <<p[1], p[2]>> /\ p[1] \in Nat
          /\ q = <<q[1], q[2]>> /\ q[1] \in Nat
      BY <2>1
    <3>3. p[1] = q[1]
      BY <3>1, <3>2
    <3> QED
      BY <3>1, <3>2, <3>3, Zenon
  <2>4. f \in Injection(O, P)
    BY <2>2, <2>3, Fun_IsInj
  <2> QED
    BY <1>3, <2>4, FS_Injection DEF CountWithin
<1> QED
  BY <1>2, <1>4, <1>5
=============================================================================
