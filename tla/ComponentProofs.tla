-------------------------- MODULE ComponentProofs ---------------------------
(***************************************************************************)
(* Proofs about components that stand alone: the ladder of size classes    *)
(* and the layout of a span, for every configuration the header accepts;   *)
(* the entry points with the start and the exit of threads and the room    *)
(* behind every pointer, for any number of threads, blocks and request     *)
(* sizes; the circular array of a transfer cache, for every capacity; the  *)
(* object bitmap of a span, for every word width and capacity; and the     *)
(* intrusive list of spans, for any set of spans.                          *)
(***************************************************************************)
EXTENDS AmMalloc, TransferRing, Span, SpanList, FiniteSetTheorems, WellFoundedInduction, TLAPS

-----------------------------------------------------------------------------
(* Arithmetic *)

\* Induction over numbers, from the least number that is not in the set.
LEMMA Counting ==
    ASSUME NEW T \in SUBSET Nat, 0 \in T, \A n \in T : n + 1 \in T
    PROVE  T = Nat
<1> DEFINE R == {ss \in Nat \X Nat : ss[1] < ss[2]}
           U == Nat \ T
<1>1. IsWellFoundedOn(R, Nat)
  BY NatLessThanWellFounded, Zenon DEF OpToRel
<1> SUFFICES ASSUME U # {} PROVE FALSE
  BY Zenon
<1>2. PICK m \in U : \A y \in U : ~ (<<y, m>> \in R)
  <2>1. U \subseteq Nat
    BY Zenon
  <2> HIDE DEF R, U
  <2> QED BY <1>1, <2>1, WFMin, Zenon
<1>3. m \in Nat /\ m # 0 /\ m \notin T
  BY Zenon
<1>4. m - 1 \in Nat /\ m - 1 < m /\ m = (m - 1) + 1
  BY <1>3
<1>5. m - 1 \in T
  BY <1>2, <1>3, <1>4, Zenon
<1> QED BY <1>3, <1>4, <1>5, Zenon

\* Division with remainder: its bounds, and that they determine it.
LEMMA DivBounds ==
    ASSUME NEW a \in Nat, NEW m \in Nat \ {0}
    PROVE  a \div m \in Nat /\ (a \div m) * m <= a /\ a < (a \div m) * m + m
<1>1. a \div m \in Nat
  BY SMT
<1>2. a = m * (a \div m) + (a % m) /\ a % m \in 0 .. m - 1
  BY SMT
<1> DEFINE q == a \div m  r == a % m
<1> HIDE DEF q, r
<1>3. q * m = m * q
  BY <1>1 DEF q
<1> QED BY <1>1, <1>2, <1>3 DEF q, r

LEMMA TimesMonotone ==
    ASSUME NEW a \in Int, NEW b \in Int, a <= b, NEW m \in Nat
    PROVE  a * m <= b * m
  BY SMT

LEMMA DivUnique ==
    ASSUME NEW m \in Nat \ {0}, NEW q \in Nat, NEW a \in Nat, q * m <= a, a < q * m + m
    PROVE  a \div m = q /\ a % m = a - q * m
<1>1. PICK d : d = a \div m
  OBVIOUS
<1>2. d \in Nat /\ d * m <= a /\ a < d * m + m
  BY <1>1, DivBounds, Zenon
<1>3. ~ (d + 1 <= q)
  <2>1. SUFFICES ASSUME d + 1 <= q PROVE FALSE
    OBVIOUS
  <2>2. (d + 1) * m <= q * m
    BY <1>2, <2>1, TimesMonotone
  <2>3. (d + 1) * m = d * m + m
    BY <1>2
  <2> QED BY <1>2, <2>2, <2>3
<1>4. ~ (q + 1 <= d)
  <2>1. SUFFICES ASSUME q + 1 <= d PROVE FALSE
    OBVIOUS
  <2>2. (q + 1) * m <= d * m
    BY <1>2, <2>1, TimesMonotone
  <2>3. (q + 1) * m = q * m + m
    OBVIOUS
  <2> QED BY <1>2, <2>2, <2>3
<1>5. d = q
  BY <1>2, <1>3, <1>4
<1>6. a = m * (a \div m) + (a % m) /\ a % m \in 0 .. m - 1
  BY SMT
<1>7. a % m = a - q * m
  BY <1>6, <1>5, <1>1
<1> QED BY <1>1, <1>5, <1>7

-----------------------------------------------------------------------------
(* Powers of two and the width of a number *)

LEMMA Power ==
    ASSUME NEW w \in 0 .. MaxWidth
    PROVE  /\ 2^w \in Nat \ {0}
           /\ w > 0 => 2^w = 2 * 2^(w - 1)
<1>1. 2^w \in Nat
  BY PowersOfTwo, Zenon
<1>2. ASSUME w > 0 PROVE 2^w = 2 * 2^(w - 1)
  <2>1. 1 \in 0 .. w
    BY <1>2 DEF MaxWidth
  <2> QED BY <2>1, PowersOfTwo, Zenon
<1>3. 2^w # 0
  <2> DEFINE T == {n \in Nat : n <= MaxWidth => 2^n # 0}
  <2>1. 0 \in T
    BY PowersOfTwo
  <2>2. ASSUME NEW n \in T PROVE n + 1 \in T
    <3>1. SUFFICES ASSUME n + 1 <= MaxWidth PROVE 2^(n + 1) # 0
      OBVIOUS
    <3>2. n \in 0 .. MaxWidth /\ n + 1 \in 0 .. MaxWidth /\ 1 \in 0 .. n + 1 /\ (n + 1) - 1 = n
      BY <3>1 DEF MaxWidth
    <3>3. 2^(n + 1) = 2 * 2^n /\ 2^n \in Nat
      BY <3>2, PowersOfTwo
    <3>4. 2^n # 0
      BY <3>2
    <3> QED BY <3>3, <3>4
  <2> HIDE DEF T
  <2>3. T = Nat
    <3>1. T \in SUBSET Nat
      BY Zenon DEF T
    <3> QED BY <2>1, <2>2, <3>1, Counting, Zenon
  <2> QED BY <2>3 DEF T, MaxWidth
<1> QED BY <1>1, <1>2, <1>3

LEMMA PowerLess ==
    ASSUME NEW v \in 0 .. MaxWidth, NEW w \in 0 .. MaxWidth, v < w
    PROVE  2 * 2^v <= 2^w
<1>1. v + 1 \in 0 .. w /\ v + 1 \in 0 .. MaxWidth /\ w - (v + 1) \in 0 .. MaxWidth
      /\ v + 1 > 0 /\ (v + 1) - 1 = v
  BY DEF MaxWidth
<1>2. 2^w = 2^(v + 1) * 2^(w - (v + 1))
  BY <1>1, PowersOfTwo, Zenon
<1>3. 2^(v + 1) = 2 * 2^v /\ 2^(v + 1) \in Nat /\ 2^(w - (v + 1)) \in Nat \ {0}
  BY <1>1, Power
<1>4. ASSUME NEW x \in Nat, NEW y \in Nat \ {0} PROVE x <= x * y
  BY <1>4
<1> QED BY <1>2, <1>3, <1>4

\* bit_width is one more than the exponent of the highest power below.
LEMMA BitWidth ==
    ASSUME NEW n \in Nat, NEW w \in 1 .. MaxWidth, 2^(w - 1) <= n, n < 2^w
    PROVE  bit_width(n) = w
<1> DEFINE P(x) == n < 2^x /\ (x > 0 => n >= 2^(x - 1))
<1>1. w \in 0 .. MaxWidth /\ P(w)
  BY DEF MaxWidth
<1>2. ASSUME NEW x \in 0 .. MaxWidth, P(x) PROVE x = w
  <2>1. w - 1 \in 0 .. MaxWidth /\ w \in 0 .. MaxWidth
    BY DEF MaxWidth
  <2>2. CASE x < w
    <3>1. 2^x <= 2^(w - 1)
      <4>1. CASE x = w - 1
        BY <4>1, <1>2, Power
      <4>2. CASE x < w - 1
        BY <4>2, <2>1, PowerLess, Power
      <4> QED BY <2>2, <4>1, <4>2, <2>1
    <3> QED BY <3>1, <1>2, <2>1, Power
  <2>3. CASE w < x
    <3>1. x - 1 \in 0 .. MaxWidth /\ n >= 2^(x - 1)
      BY <2>3, <1>2, <2>1 DEF MaxWidth
    <3>2. 2^w <= 2^(x - 1)
      <4>1. CASE w = x - 1
        BY <4>1, <2>1, Power
      <4>2. CASE w < x - 1
        BY <4>2, <3>1, <2>1, PowerLess, Power
      <4> QED BY <2>3, <4>1, <4>2, <2>1
    <3> QED BY <3>1, <3>2, <2>1, Power
  <2> QED BY <2>2, <2>3, <2>1
<1>3. bit_width(n) = CHOOSE x \in 0 .. MaxWidth : P(x)
  BY Zenon DEF bit_width
<1> HIDE DEF P
<1> QED BY <1>1, <1>2, <1>3, Zenon

\* Every number above zero lies between two powers.
LEMMA Between ==
    ASSUME NEW max \in 0 .. MaxWidth, NEW n \in Nat \ {0}, n < 2^max
    PROVE  \E w \in 1 .. max : 2^(w - 1) <= n /\ n < 2^w
<1> SUFFICES ASSUME ~ \E w \in 1 .. max : 2^(w - 1) <= n /\ n < 2^w PROVE FALSE
  OBVIOUS
<1> DEFINE T == {w \in Nat : w <= max => 2^w <= n}
<1>1. 0 \in T
  BY PowersOfTwo
<1>2. ASSUME NEW w \in T PROVE w + 1 \in T
  <2>1. SUFFICES ASSUME w + 1 <= max PROVE 2^(w + 1) <= n
    OBVIOUS
  <2>2. w + 1 \in 1 .. max /\ (w + 1) - 1 = w /\ w <= max /\ w + 1 \in 0 .. MaxWidth
    BY <2>1 DEF MaxWidth
  <2>3. 2^w <= n
    BY <2>2
  <2>4. ~ (n < 2^(w + 1))
    BY <2>2, <2>3
  <2> QED BY <2>4, <2>2, Power
<1>3. T = Nat
  <2>1. T \in SUBSET Nat
    BY Zenon
  <2> HIDE DEF T
  <2> QED BY <1>1, <1>2, <2>1, Counting, Zenon
<1>4. max \in T
  BY <1>3 DEF MaxWidth
<1> QED BY <1>4, Power

-----------------------------------------------------------------------------
(* The ladder of size classes *)

\* The constants of a configuration that passes the header's assertions: the
\* linear region ends at 2^kLinearMsb and ALIGNMENT divides the first step.
LEMMA Ladder ==
    /\ ALIGNMENT \in Nat \ {0} /\ kStepShift \in Nat
    /\ kLinearMsb \in 1 .. MaxWidth - 1 /\ kStepShift < kLinearMsb
    /\ kSmallLinearLimit = 2^kLinearMsb
    /\ kStepsPerGroup \in Nat \ {0}
    /\ kLinearBucketCount \in Nat \ {0} /\ kLinearBucketCount * ALIGNMENT = kSmallLinearLimit
    /\ 2^(kLinearMsb - kStepShift) % ALIGNMENT = 0
    /\ \E max \in 0 .. MaxWidth : MAX_TC_SIZE = 2^max /\ kLinearMsb < max
<1>1. PICK limit \in 0 .. MaxWidth, max \in 0 .. MaxWidth :
         /\ kSmallLinearLimit = 2^limit /\ MAX_TC_SIZE = 2^max
         /\ kStepShift < limit /\ limit < max
  BY SizeAssumption, Zenon
<1>2. ALIGNMENT \in Nat \ {0} /\ kStepShift \in Nat
  BY SizeAssumption
<1>3. limit + 1 \in 1 .. MaxWidth /\ limit + 1 \in 0 .. MaxWidth /\ (limit + 1) - 1 = limit
      /\ limit \in 1 .. MaxWidth - 1
  BY <1>1, <1>2 DEF MaxWidth
<1>4. 2^limit \in Nat \ {0} /\ 2^limit < 2^(limit + 1)
  <2>1. 2^limit \in Nat \ {0} /\ 2^(limit + 1) = 2 * 2^limit
    BY <1>3, Power
  <2> QED BY <2>1
<1>5. bit_width(2^limit) = limit + 1
  BY <1>3, <1>4, BitWidth
<1>6. kLinearMsb = limit
  BY <1>5, <1>1, <1>3 DEF kLinearMsb
<1>7. kStepShift \in 0 .. MaxWidth /\ kStepShift \in 0 .. limit /\ limit - kStepShift \in 0 .. MaxWidth
  BY <1>1, <1>2 DEF MaxWidth
<1>8. /\ kStepsPerGroup \in Nat \ {0} /\ 2^(limit - kStepShift) \in Nat \ {0}
      /\ 2^limit = kStepsPerGroup * 2^(limit - kStepShift)
  BY <1>7, Power, PowersOfTwo, Zenon DEF kStepsPerGroup
<1>9. kLinearBucketCount \in Nat \ {0} /\ kLinearBucketCount * ALIGNMENT = kSmallLinearLimit
  <2>1. PICK x, a : x = kSmallLinearLimit /\ a = ALIGNMENT
    OBVIOUS
  <2>2. x \in Nat \ {0} /\ a \in Nat \ {0} /\ x % a = 0
    BY <2>1, <1>1, <1>2, <1>4, SizeAssumption
  <2>3. x \div a \in Nat /\ x = a * (x \div a)
    BY <2>2
  <2>4. PICK q : q = x \div a
    OBVIOUS
  <2>5. q \in Nat /\ x = a * q
    BY <2>3, <2>4
  <2>6. q \in Nat \ {0} /\ q * a = x
    BY <2>2, <2>5
  <2> QED BY <2>1, <2>4, <2>6 DEF kLinearBucketCount
<1>10. kSmallLinearLimit \div kStepsPerGroup = 2^(limit - kStepShift)
  <2>1. PICK s, u, x : s = kStepsPerGroup /\ u = 2^(limit - kStepShift) /\ x = 2^limit
    OBVIOUS
  <2>2. s \in Nat \ {0} /\ u \in Nat /\ x = u * s /\ x \in Nat /\ x < u * s + s
    BY <2>1, <1>8
  <2>3. x \div s = u
    BY <2>2, DivUnique
  <2> QED BY <2>1, <2>3, <1>1
<1>11. 2^(kLinearMsb - kStepShift) % ALIGNMENT = 0
  BY <1>10, <1>6, SizeAssumption
<1> QED BY <1>1, <1>2, <1>3, <1>6, <1>8, <1>9, <1>11

\* Group w holds the sizes above 2^w and up to 2^(w + 1) in steps of
\* 2^(w - kStepShift).
GroupStep(w) == 2^(w - kStepShift)
Groups == kLinearMsb .. MaxWidth - 1
Steps == 0 .. kStepsPerGroup - 1
At(w, j) == kLinearBucketCount + (w - kLinearMsb) * kStepsPerGroup + j

LEMMA Group ==
    ASSUME NEW w \in Groups
    PROVE  /\ w \in 0 .. MaxWidth /\ w + 1 \in 1 .. MaxWidth /\ w - kStepShift \in 0 .. MaxWidth
           /\ GroupStep(w) \in Nat \ {0} /\ 2^w = kStepsPerGroup * GroupStep(w)
           /\ 2^(w + 1) = 2 * 2^w
           /\ w > kLinearMsb => w - 1 \in Groups /\ GroupStep(w) = 2 * GroupStep(w - 1)
<1>1. /\ w \in 0 .. MaxWidth /\ w + 1 \in 1 .. MaxWidth /\ w - kStepShift \in 0 .. MaxWidth
      /\ kStepShift \in 0 .. w /\ w - kStepShift > 0 /\ (w - kStepShift) - 1 = (w - 1) - kStepShift
      /\ w + 1 \in 0 .. MaxWidth /\ (w + 1) - 1 = w /\ w + 1 > 0
      /\ w > kLinearMsb => w - 1 \in Groups
  BY Ladder DEF Groups, MaxWidth
<1>2. GroupStep(w) \in Nat \ {0} /\ GroupStep(w) = 2 * 2^((w - kStepShift) - 1)
  BY <1>1, Power DEF GroupStep
<1>3. 2^w = kStepsPerGroup * GroupStep(w)
  BY <1>1, PowersOfTwo, Zenon DEF GroupStep, kStepsPerGroup
<1>4. 2^(w + 1) = 2 * 2^w
  BY <1>1, Power
<1> QED BY <1>1, <1>2, <1>3, <1>4 DEF GroupStep

\* What CalculateSize returns in a group.
LEMMA SizeInGroup ==
    ASSUME NEW w \in Groups, NEW j \in Steps
    PROVE  /\ At(w, j) \in Nat /\ At(w, j) >= kLinearBucketCount
           /\ CalculateSize(At(w, j)) = (kStepsPerGroup + j + 1) * GroupStep(w)
<1>1. PICK s, g, u : s = kStepsPerGroup /\ g = w - kLinearMsb /\ u = GroupStep(w)
  OBVIOUS
<1>2. s \in Nat \ {0} /\ g \in Nat /\ j \in 0 .. s - 1 /\ u \in Nat \ {0} /\ 2^w = s * u
      /\ g + kLinearMsb = w /\ kLinearBucketCount \in Nat
  BY <1>1, Ladder, Group DEF Groups, Steps
<1>3. g * s \in Nat
  BY <1>2
<1>4. At(w, j) = kLinearBucketCount + g * s + j
  BY <1>1, Zenon DEF At
<1>5. At(w, j) \in Nat /\ At(w, j) >= kLinearBucketCount /\ At(w, j) - kLinearBucketCount = g * s + j
  BY <1>2, <1>3, <1>4
<1>6. (g * s + j) \div s = g /\ (g * s + j) % s = j
  <2>1. PICK a : a = g * s + j
    OBVIOUS
  <2>2. a \in Nat /\ g * s <= a /\ a < g * s + s /\ a - g * s = j
    BY <2>1, <1>2, <1>3
  <2>3. a \div s = g /\ a % s = a - g * s
    BY <2>2, <1>2, DivUnique
  <2> QED BY <2>1, <2>2, <2>3
<1>7. CalculateSize(At(w, j)) = 2^w + (j + 1) * u
  <2>1. ~ (At(w, j) < kLinearBucketCount)
    BY <1>5, <1>2
  <2> QED BY <2>1, <1>1, <1>2, <1>5, <1>6, Zenon DEF CalculateSize, GroupStep
<1>8. s * u + (j + 1) * u = (s + j + 1) * u
  BY <1>2
<1> QED BY <1>1, <1>2, <1>5, <1>7, <1>8

\* What CalculateIndex returns for the sizes of a step.
LEMMA IndexInGroup ==
    ASSUME NEW w \in Groups, NEW j \in Steps, NEW request \in Nat,
           (kStepsPerGroup + j) * GroupStep(w) < request,
           request <= (kStepsPerGroup + j + 1) * GroupStep(w)
    PROVE  kSmallLinearLimit < request /\ CalculateIndex(request) = At(w, j)
<1>1. PICK s, u, m, p : s = kStepsPerGroup /\ u = GroupStep(w) /\ m = request - 1 /\ p = 2^w
  OBVIOUS
<1>2. s \in Nat \ {0} /\ j \in 0 .. s - 1 /\ u \in Nat \ {0} /\ p = s * u /\ 2^(w + 1) = 2 * p
      /\ kLinearBucketCount \in Nat
  BY <1>1, Ladder, Group DEF Steps
<1>3. /\ (s + j) * u = s * u + j * u /\ (s + j + 1) * u = (s + j) * u + u
      /\ j * u \in Nat /\ (s + j) * u \in Nat /\ p \in Nat
  BY <1>2
<1>4. m \in Nat /\ (s + j) * u <= m /\ m < (s + j) * u + u
  BY <1>1, <1>2, <1>3
<1>5. p <= m /\ m < 2 * p
  <2>1. (s + j + 1) * u <= (2 * s) * u
    <3>1. s + j + 1 <= 2 * s /\ s + j + 1 \in Int /\ 2 * s \in Int /\ u \in Nat
      BY <1>2
    <3> QED BY <3>1, TimesMonotone
  <2>2. (2 * s) * u = 2 * p
    BY <1>2
  <2> QED BY <1>3, <1>4, <1>2, <2>1, <2>2
<1>6. bit_width(m) = w + 1 /\ (w + 1) - 1 = w
  <2>1. w + 1 \in 1 .. MaxWidth /\ (w + 1) - 1 = w
    BY Group DEF MaxWidth
  <2> QED BY <2>1, <1>1, <1>2, <1>4, <1>5, BitWidth
<1>7. m \div u = s + j
  <2>1. s + j \in Nat
    BY <1>2
  <2> QED BY <1>2, <1>4, <2>1, DivUnique
<1>8. (s + j) % s = j
  <2>1. PICK a : a = s + j
    OBVIOUS
  <2>2. a \in Nat /\ 1 * s <= a /\ a < 1 * s + s /\ a - 1 * s = j
    BY <2>1, <1>2
  <2> QED BY <2>1, <2>2, <1>2, DivUnique
<1>9. kSmallLinearLimit <= p /\ kSmallLinearLimit \in Nat
  <2>1. kLinearMsb \in 0 .. MaxWidth /\ kLinearMsb <= w /\ w \in 0 .. MaxWidth
    BY Ladder, Group DEF Groups, MaxWidth
  <2>2. 2^kLinearMsb \in Nat
    BY <2>1, Power
  <2>3. CASE kLinearMsb < w
    BY <2>1, <2>2, <2>3, PowerLess, Ladder, <1>1, <1>3
  <2>4. CASE kLinearMsb = w
    BY <2>2, <2>4, <1>1, Ladder
  <2> QED BY <2>1, <2>3, <2>4
<1>10. kSmallLinearLimit < request /\ request # 0 /\ ~ (request <= kSmallLinearLimit)
  BY <1>9, <1>5, <1>1, <1>3
<1>11. CalculateIndex(request) = At(w, j)
  BY <1>1, <1>6, <1>7, <1>8, <1>10, Zenon DEF CalculateIndex, At, GroupStep
<1> QED BY <1>10, <1>11

\* The groups leave no size out.
LEMMA GroupsCover ==
    ASSUME NEW max \in 0 .. MaxWidth, NEW request \in Nat,
           kSmallLinearLimit < request, request <= 2^max
    PROVE  \E w \in Groups, j \in Steps :
              /\ w < max
              /\ (kStepsPerGroup + j) * GroupStep(w) < request
              /\ request <= (kStepsPerGroup + j + 1) * GroupStep(w)
<1>1. PICK m : m = request - 1
  OBVIOUS
<1>2. kLinearMsb \in 0 .. MaxWidth /\ kSmallLinearLimit \in Nat \ {0} /\ 2^max \in Nat
  <2>1. kLinearMsb \in 0 .. MaxWidth
    BY Ladder DEF MaxWidth
  <2> QED BY <2>1, Ladder, Power
<1>3. m \in Nat \ {0} /\ m < 2^max /\ kSmallLinearLimit <= m
  BY <1>1, <1>2
<1>4. PICK x \in 1 .. max : 2^(x - 1) <= m /\ m < 2^x
  BY <1>3, Between
<1>5. PICK w : w = x - 1
  OBVIOUS
<1>6. w \in 0 .. MaxWidth /\ w < max /\ x = w + 1 /\ x \in 0 .. MaxWidth /\ 2^w <= m /\ m < 2^(w + 1)
  BY <1>4, <1>5 DEF MaxWidth
<1>7. kLinearMsb <= w
  <2>1. SUFFICES ASSUME w < kLinearMsb PROVE FALSE
    BY <1>6, <1>2 DEF MaxWidth
  <2>2. 2^(w + 1) <= 2^kLinearMsb
    <3>1. 2^(w + 1) = 2 * 2^w
      <4>1. (w + 1) - 1 = w /\ w + 1 > 0
        BY <1>6 DEF MaxWidth
      <4> QED BY <4>1, <1>6, Power
    <3> QED BY <3>1, <2>1, <1>2, <1>6, PowerLess
  <2>3. 2^(w + 1) \in Nat /\ 2^kLinearMsb = kSmallLinearLimit
    BY <1>6, Power, Ladder
  <2> QED BY <2>2, <2>3, <1>3, <1>6, <1>2
<1>8. w \in Groups
  BY <1>6, <1>7, Ladder DEF Groups, MaxWidth
<1>9. PICK s, u, q : s = kStepsPerGroup /\ u = GroupStep(w) /\ q = m \div u
  OBVIOUS
<1>10. s \in Nat \ {0} /\ u \in Nat \ {0} /\ s * u <= m /\ m < 2 * (s * u)
  BY <1>6, <1>8, <1>9, Group, Ladder
<1>11. q \in Nat /\ q * u <= m /\ m < q * u + u
  BY <1>3, <1>9, <1>10, DivBounds, SMTT(30)
<1>12. s <= q
  <2>1. SUFFICES ASSUME q + 1 <= s PROVE FALSE
    BY <1>10, <1>11
  <2>2. (q + 1) * u <= s * u
    BY <2>1, <1>10, <1>11, TimesMonotone
  <2>3. (q + 1) * u = q * u + u
    BY <1>10, <1>11
  <2> QED BY <2>2, <2>3, <1>3, <1>10, <1>11
<1>13. q < 2 * s
  <2>1. SUFFICES ASSUME 2 * s <= q PROVE FALSE
    BY <1>10, <1>11
  <2>2. (2 * s) * u <= q * u
    BY <2>1, <1>10, <1>11, TimesMonotone
  <2>3. (2 * s) * u = 2 * (s * u)
    BY <1>10
  <2> QED BY <2>2, <2>3, <1>3, <1>10, <1>11
<1>14. PICK j : j = q - s
  OBVIOUS
<1>15. j \in Steps /\ s + j = q /\ s + j + 1 = q + 1 /\ (q + 1) * u = q * u + u
  BY <1>9, <1>10, <1>11, <1>12, <1>13, <1>14 DEF Steps
<1>16. (s + j) * u < request /\ request <= (s + j + 1) * u
  <2>1. q * u \in Nat
    BY <1>10, <1>11
  <2> QED BY <1>1, <1>11, <1>15, <2>1, <1>10
<1> QED BY <1>6, <1>8, <1>9, <1>15, <1>16

\* The class below a step holds what the step starts from.
LEMMA SizeBelow ==
    ASSUME NEW w \in Groups, NEW j \in Steps
    PROVE  /\ At(w, j) - 1 \in Nat
           /\ CalculateSize(At(w, j) - 1) = (kStepsPerGroup + j) * GroupStep(w)
<1>1. PICK s, u : s = kStepsPerGroup /\ u = GroupStep(w)
  OBVIOUS
<1>2. s \in Nat \ {0} /\ u \in Nat \ {0} /\ j \in 0 .. s - 1 /\ kLinearBucketCount \in Nat \ {0}
      /\ At(w, j) \in Nat /\ At(w, j) >= kLinearBucketCount /\ w \in Int /\ kLinearMsb \in Int
  BY <1>1, Ladder, Group, SizeInGroup DEF Steps, Groups
<1>3. At(w, j) - 1 \in Nat
  BY <1>2
<1>4. CASE j > 0
  <2>1. j - 1 \in Steps /\ s + (j - 1) + 1 = s + j
    BY <1>1, <1>2, <1>4 DEF Steps
  <2>2. At(w, j) - 1 = At(w, j - 1)
    <3>1. PICK y : y = (w - kLinearMsb) * s
      OBVIOUS
    <3>2. y \in Int
      BY <3>1, <1>2
    <3> QED BY <3>1, <3>2, <1>1, <1>2 DEF At
  <2> QED BY <2>1, <2>2, <1>1, <1>3, SizeInGroup
<1>5. CASE j = 0 /\ w > kLinearMsb
  <2>1. w - 1 \in Groups /\ s - 1 \in Steps /\ u = 2 * GroupStep(w - 1)
        /\ GroupStep(w - 1) \in Nat /\ s + (s - 1) + 1 = 2 * s
    BY <1>1, <1>2, <1>5, Group DEF Steps
  <2>2. At(w, j) - 1 = At(w - 1, s - 1)
    <3>1. PICK g : g = w - kLinearMsb
      OBVIOUS
    <3>2. g \in Int /\ (w - 1) - kLinearMsb = g - 1 /\ (g - 1) * s = g * s - s /\ g * s \in Int
      BY <3>1, <1>2
    <3> QED BY <3>1, <3>2, <1>1, <1>2, <1>5 DEF At
  <2>3. CalculateSize(At(w - 1, s - 1)) = (2 * s) * GroupStep(w - 1)
    BY <2>1, <1>1, SizeInGroup
  <2>4. (2 * s) * GroupStep(w - 1) = (s + j) * u
    BY <2>1, <1>2, <1>5
  <2> QED BY <2>2, <2>3, <2>4, <1>1, <1>3
<1>6. CASE j = 0 /\ w = kLinearMsb
  <2>1. At(w, j) = kLinearBucketCount
    <3>1. (w - kLinearMsb) * s = 0
      BY <1>2, <1>6
    <3> QED BY <3>1, <1>1, <1>2, <1>6 DEF At
  <2>2. CalculateSize(kLinearBucketCount - 1) = kLinearBucketCount * ALIGNMENT
    <3>1. kLinearBucketCount - 1 < kLinearBucketCount /\ (kLinearBucketCount - 1) + 1 = kLinearBucketCount
      BY <1>2
    <3> QED BY <3>1, Zenon DEF CalculateSize
  <2>3. kLinearBucketCount * ALIGNMENT = s * u /\ s + j = s
    BY <1>1, <1>2, <1>6, Ladder, Group
  <2> QED BY <2>1, <2>2, <2>3, <1>1, <1>3
<1>7. j = 0 \/ j > 0
  BY <1>2
<1>8. w = kLinearMsb \/ w > kLinearMsb
  BY Ladder DEF Groups
<1> QED BY <1>4, <1>5, <1>6, <1>7, <1>8

\* CalculateSize is a right inverse of CalculateIndex and its result, a
\* multiple of ALIGNMENT, is the smallest class that holds the request.
Smallest(request, i) ==
    /\ i \in Nat
    /\ CalculateSize(i) \in Nat /\ request <= CalculateSize(i)
    /\ i > 0 => CalculateSize(i - 1) < request
    /\ CalculateSize(i) % ALIGNMENT = 0
    /\ CalculateIndex(CalculateSize(i)) = i

LEMMA Multiple ==
    ASSUME NEW a \in Nat \ {0}, NEW x \in Nat, NEW y \in Nat, x % a = 0
    PROVE  (x * y) % a = 0 /\ (y * x) % a = 0
<1>1. PICK q : q = x \div a
  OBVIOUS
<1>2. q \in Nat /\ x = a * q
  BY <1>1
<1>3. q * y \in Nat /\ x * y = (q * y) * a /\ x * y \in Nat /\ y * x = x * y
  BY <1>2
<1>4. PICK z, r : z = x * y /\ r = q * y
  OBVIOUS
<1>5. z \in Nat /\ r \in Nat /\ r * a <= z /\ z < r * a + a /\ z - r * a = 0
  BY <1>3, <1>4
<1>6. z % a = z - r * a
  BY <1>5, DivUnique
<1> QED BY <1>3, <1>4, <1>5, <1>6

LEMMA SmallestLinear ==
    ASSUME NEW request \in Nat, request <= kSmallLinearLimit
    PROVE  /\ CalculateIndex(request) < kLinearBucketCount
           /\ Smallest(request, CalculateIndex(request))
           /\ CalculateSize(CalculateIndex(request)) <= kSmallLinearLimit
<1>1. PICK i, a, n : i = CalculateIndex(request) /\ a = ALIGNMENT /\ n = kLinearBucketCount
  OBVIOUS
<1>2. a \in Nat \ {0} /\ n \in Nat \ {0} /\ n * a = kSmallLinearLimit
  BY <1>1, Ladder
<1>3. i \in Nat /\ request <= i * a + a /\ (i > 0 => i * a < request) /\ (request = 0 => i = 0)
  <2>1. CASE request = 0
    <3>1. i = 0
      BY <2>1, <1>1, Zenon DEF CalculateIndex
    <3> QED BY <2>1, <3>1, <1>2
  <2>2. CASE request # 0
    <3>1. i = (request - 1) \div a
      BY <2>2, <1>1, Zenon DEF CalculateIndex
    <3>2. request - 1 \in Nat
      BY <2>2
    <3>3. i \in Nat /\ i * a <= request - 1 /\ request - 1 < i * a + a
      BY <3>1, <3>2, <1>2, DivBounds
    <3>4. i * a \in Nat
      BY <3>3, <1>2
    <3> QED BY <3>3, <3>4, <2>2, <1>2
  <2> QED BY <2>1, <2>2
<1>4. i < n
  <2>1. SUFFICES ASSUME n <= i PROVE FALSE
    BY <1>2, <1>3
  <2>2. n * a <= i * a
    BY <2>1, <1>2, <1>3, TimesMonotone
  <2>3. i > 0 /\ i * a \in Nat
    BY <2>1, <1>2, <1>3
  <2> QED BY <2>2, <2>3, <1>2, <1>3
<1>5. CalculateSize(i) = (i + 1) * a /\ (i + 1) * a = i * a + a /\ (i + 1) * a \in Nat /\ i * a \in Nat
  <2>1. CalculateSize(i) = (i + 1) * a
    BY <1>1, <1>4, Zenon DEF CalculateSize
  <2> QED BY <2>1, <1>2, <1>3
<1>6. i > 0 => CalculateSize(i - 1) = i * a
  <2>1. SUFFICES ASSUME i > 0 PROVE CalculateSize(i - 1) = i * a
    OBVIOUS
  <2>2. i - 1 < n /\ (i - 1) + 1 = i
    BY <1>2, <1>3, <1>4
  <2> QED BY <2>2, <1>1, Zenon DEF CalculateSize
<1>7. (i + 1) * a <= n * a
  <2>1. i + 1 <= n /\ i + 1 \in Int
    BY <1>2, <1>3, <1>4
  <2> QED BY <2>1, <1>2, TimesMonotone
<1>8. (i + 1) * a % a = 0
  <2>1. a % a = 0
    BY <1>2
  <2> QED BY <2>1, <1>2, <1>3, Multiple
<1>9. CalculateIndex((i + 1) * a) = i
  <2>1. PICK z : z = (i + 1) * a
    OBVIOUS
  <2>2. z \in Nat /\ z = i * a + a /\ z # 0 /\ z <= kSmallLinearLimit /\ z - 1 \in Nat
        /\ i * a <= z - 1 /\ z - 1 < i * a + a
    BY <2>1, <1>2, <1>3, <1>5, <1>7
  <2>3. (z - 1) \div a = i
    BY <2>2, <1>2, <1>3, DivUnique
  <2> QED BY <2>1, <2>2, <2>3, <1>1, Zenon DEF CalculateIndex
<1>10. Smallest(request, i)
  BY <1>1, <1>3, <1>5, <1>6, <1>8, <1>9 DEF Smallest
<1> QED BY <1>1, <1>2, <1>4, <1>5, <1>7, <1>10

LEMMA SmallestInGroup ==
    ASSUME NEW w \in Groups, NEW j \in Steps, NEW request \in Nat,
           (kStepsPerGroup + j) * GroupStep(w) < request,
           request <= (kStepsPerGroup + j + 1) * GroupStep(w)
    PROVE  CalculateIndex(request) = At(w, j) /\ Smallest(request, At(w, j))
<1>1. PICK s, u, z : /\ s = kStepsPerGroup /\ u = GroupStep(w)
                     /\ z = (kStepsPerGroup + j + 1) * GroupStep(w)
  OBVIOUS
<1>2. s \in Nat \ {0} /\ u \in Nat \ {0} /\ j \in Nat /\ z \in Nat /\ (s + j) * u < z
  <2>1. s \in Nat \ {0} /\ u \in Nat \ {0} /\ j \in Nat
    BY <1>1, Ladder, Group DEF Steps
  <2>2. z = (s + j + 1) * u /\ (s + j + 1) * u = (s + j) * u + u /\ (s + j) * u \in Nat
    BY <2>1, <1>1
  <2> QED BY <2>1, <2>2
<1>3. CalculateIndex(request) = At(w, j)
  BY IndexInGroup, Zenon
<1>4. At(w, j) \in Nat /\ CalculateSize(At(w, j)) = z
  BY <1>1, SizeInGroup
<1>5. CalculateSize(At(w, j) - 1) < request
  BY SizeBelow
<1>6. CalculateIndex(z) = At(w, j)
  <2>1. z <= z
    BY <1>2
  <2> QED BY <2>1, <1>1, <1>2, IndexInGroup
<1>7. z % ALIGNMENT = 0
  <2>1. w - kLinearMsb \in 0 .. MaxWidth /\ kLinearMsb - kStepShift \in 0 .. MaxWidth
        /\ w - kStepShift \in 0 .. MaxWidth
        /\ kLinearMsb - kStepShift \in 0 .. w - kStepShift
        /\ (w - kStepShift) - (kLinearMsb - kStepShift) = w - kLinearMsb
    BY Ladder DEF Groups, MaxWidth
  <2>2. u = 2^(kLinearMsb - kStepShift) * 2^(w - kLinearMsb)
    BY <2>1, <1>1, PowersOfTwo, Zenon DEF GroupStep
  <2>3. 2^(kLinearMsb - kStepShift) \in Nat /\ 2^(w - kLinearMsb) \in Nat
    BY <2>1, Power
  <2>4. ALIGNMENT \in Nat \ {0} /\ 2^(kLinearMsb - kStepShift) % ALIGNMENT = 0
    BY Ladder
  <2>5. u % ALIGNMENT = 0
    BY <2>2, <2>3, <2>4, Multiple
  <2>6. s + j + 1 \in Nat
    BY <1>2
  <2>7. ((s + j + 1) * u) % ALIGNMENT = 0
    BY <2>4, <2>5, <2>6, <1>2, Multiple, Zenon
  <2> QED BY <2>7, <1>1, Zenon
<1>8. request <= z
  BY <1>1
<1> QED BY <1>2, <1>3, <1>4, <1>5, <1>6, <1>7, <1>8 DEF Smallest

\* The last class is MAX_TC_SIZE itself.
LEMMA LastClass ==
    ASSUME NEW max \in 0 .. MaxWidth, MAX_TC_SIZE = 2^max, kLinearMsb < max
    PROVE  /\ max - 1 \in Groups /\ kStepsPerGroup - 1 \in Steps
           /\ CalculateIndex(MAX_TC_SIZE) = At(max - 1, kStepsPerGroup - 1)
           /\ MAX_TC_SIZE \in Nat /\ kSmallLinearLimit < MAX_TC_SIZE
<1>1. PICK w, s, u : w = max - 1 /\ s = kStepsPerGroup /\ u = GroupStep(w)
  OBVIOUS
<1>2. w \in Groups /\ w + 1 = max
  BY <1>1, Ladder DEF Groups, MaxWidth
<1>3. s \in Nat \ {0} /\ u \in Nat \ {0} /\ MAX_TC_SIZE = 2 * (s * u)
  BY <1>1, <1>2, Ladder, Group
<1>4. s - 1 \in Steps
  BY <1>1, <1>3 DEF Steps
<1>5. MAX_TC_SIZE \in Nat /\ (s + (s - 1) + 1) * u = MAX_TC_SIZE
      /\ (s + (s - 1)) * u = MAX_TC_SIZE - u
  <2>1. s + (s - 1) + 1 = 2 * s /\ (2 * s) * u = 2 * (s * u) /\ s * u \in Nat
        /\ s + (s - 1) = 2 * s - 1 /\ (2 * s - 1) * u = 2 * (s * u) - u
    BY <1>3
  <2> QED BY <2>1, <1>3
<1>6. (s + (s - 1)) * u < MAX_TC_SIZE /\ MAX_TC_SIZE <= (s + (s - 1) + 1) * u
  BY <1>5, <1>3
<1> QED BY <1>1, <1>2, <1>4, <1>5, <1>6, IndexInGroup

LEMMA IndexBounded ==
    ASSUME NEW request \in Nat, request <= MAX_TC_SIZE
    PROVE  /\ Smallest(request, CalculateIndex(request))
           /\ CalculateIndex(request) \in 0 .. kNumSizeClasses - 1
           /\ CalculateSize(CalculateIndex(request)) <= MAX_TC_SIZE
<1>1. PICK max \in 0 .. MaxWidth : MAX_TC_SIZE = 2^max /\ kLinearMsb < max
  BY Ladder, Zenon
<1>2. /\ max - 1 \in Groups /\ kStepsPerGroup - 1 \in Steps
      /\ CalculateIndex(MAX_TC_SIZE) = At(max - 1, kStepsPerGroup - 1)
      /\ MAX_TC_SIZE \in Nat /\ kSmallLinearLimit < MAX_TC_SIZE
  BY <1>1, LastClass
<1>3. At(max - 1, kStepsPerGroup - 1) \in Nat
      /\ At(max - 1, kStepsPerGroup - 1) >= kLinearBucketCount
  BY <1>2, SizeInGroup
<1>4. kNumSizeClasses = At(max - 1, kStepsPerGroup - 1) + 1
  BY <1>2 DEF kNumSizeClasses
<1>5. kLinearBucketCount \in Nat /\ kSmallLinearLimit \in Nat
  <2>1. kLinearMsb \in 0 .. MaxWidth
    BY Ladder DEF MaxWidth
  <2> QED BY <2>1, Ladder, Power
<1>6. CASE request <= kSmallLinearLimit
  <2>1. /\ CalculateIndex(request) < kLinearBucketCount
        /\ Smallest(request, CalculateIndex(request))
        /\ CalculateSize(CalculateIndex(request)) <= kSmallLinearLimit
    BY <1>6, SmallestLinear
  <2>2. CalculateIndex(request) \in Nat /\ CalculateSize(CalculateIndex(request)) \in Nat
    BY <2>1, Zenon DEF Smallest
  <2> QED BY <2>1, <2>2, <1>2, <1>3, <1>4, <1>5
<1>7. CASE kSmallLinearLimit < request
  <2>1. PICK w \in Groups, j \in Steps :
              /\ w < max
              /\ (kStepsPerGroup + j) * GroupStep(w) < request
              /\ request <= (kStepsPerGroup + j + 1) * GroupStep(w)
    BY <1>1, <1>7, GroupsCover
  <2>2. CalculateIndex(request) = At(w, j) /\ Smallest(request, At(w, j))
    BY <2>1, SmallestInGroup
  <2>3. PICK s, u, l, b, top : /\ s = kStepsPerGroup /\ u = GroupStep(w) /\ l = kLinearMsb
                               /\ b = kLinearBucketCount /\ top = max - 1
    OBVIOUS
  <2>4. s \in Nat \ {0} /\ u \in Nat \ {0} /\ l \in Nat /\ b \in Nat /\ j \in 0 .. s - 1
        /\ w \in Nat /\ top \in Nat /\ w <= top /\ l <= w /\ 2^(w + 1) = 2 * (s * u)
    BY <2>1, <2>3, <1>1, Ladder, Group, SMTT(30) DEF Groups, Steps, MaxWidth
  <2>5. At(w, j) <= At(max - 1, kStepsPerGroup - 1)
    <3>1. (w - l) * s <= (top - l) * s
      BY <2>4, TimesMonotone
    <3>2. (w - l) * s \in Int /\ (top - l) * s \in Int
      BY <2>4
    <3>3. b + (w - l) * s + j <= b + (top - l) * s + (s - 1)
      BY <3>1, <3>2, <2>4
    <3> QED BY <3>3, <2>3, Zenon DEF At
  <2>6. CalculateSize(At(w, j)) <= MAX_TC_SIZE
    <3>1. CalculateSize(At(w, j)) = (s + j + 1) * u
      BY <2>3, SizeInGroup
    <3>2. (s + j + 1) * u <= (2 * s) * u
      <4>1. s + j + 1 <= 2 * s /\ s + j + 1 \in Int /\ 2 * s \in Int
        BY <2>4
      <4> QED BY <4>1, <2>4, TimesMonotone
    <3>3. (2 * s) * u = 2^(w + 1) /\ (2 * s) * u \in Nat
      BY <2>4
    <3>4. 2^(w + 1) <= 2^max
      <4>1. w + 1 \in 0 .. MaxWidth /\ (w + 1 = max \/ w + 1 < max)
        BY <2>1, <2>4 DEF MaxWidth
      <4>2. CASE w + 1 = max
        BY <4>2, <1>1, <1>2
      <4>3. CASE w + 1 < max
        <5>1. 2 * 2^(w + 1) <= 2^max /\ 2^(w + 1) \in Nat /\ 2^max \in Nat
          BY <4>1, <4>3, PowerLess, Power
        <5> QED BY <5>1
      <4> QED BY <4>1, <4>2, <4>3
    <3>5. (s + j + 1) * u \in Nat
      BY <2>4
    <3> QED BY <3>1, <3>2, <3>3, <3>4, <3>5, <1>1, <1>2
  <2>7. At(w, j) \in Nat
    BY SizeInGroup
  <2> QED BY <2>2, <2>5, <2>6, <2>7, <1>3, <1>4
<1> QED BY <1>5, <1>6, <1>7

\* Every request is served by the smallest class that holds it, whether
\* SizeClass::Index reads small_index_table_ or computes; class sizes are
\* multiples of ALIGNMENT and fixed points of RoundUp; a request above
\* MAX_TC_SIZE has no class.  For every configuration that passes the
\* static_asserts of size_class.h, and every request.
THEOREM ClassesExact == \A request \in Nat : IsExact(request)
<1>0. MAX_TC_SIZE \in Nat /\ kNumSizeClasses \in Nat
  <2>1. MAX_TC_SIZE \in Nat
    BY Ladder, LastClass
  <2>2. CalculateIndex(MAX_TC_SIZE) \in Nat
    <3>1. MAX_TC_SIZE <= MAX_TC_SIZE
      BY <2>1
    <3> QED BY <2>1, <3>1, IndexBounded DEF Smallest
  <2> QED BY <2>1, <2>2 DEF kNumSizeClasses
<1>1. ASSUME NEW r \in Nat, r <= MAX_TC_SIZE
      PROVE  Index(r) = CalculateIndex(r) /\ Index(r) # NoIndex
  <2>1. CalculateIndex(r) \in 0 .. kNumSizeClasses - 1
    BY <1>1, IndexBounded
  <2>2. ~ (r > MAX_TC_SIZE)
    BY <1>0, <1>1
  <2>3. CalculateIndex(r) % 2^8 = CalculateIndex(r)
    <3>1. PICK i, n, m : i = CalculateIndex(r) /\ n = kNumSizeClasses /\ m = 2^8
      OBVIOUS
    <3>2. m \in Nat \ {0}
      <4>1. 8 \in 0 .. MaxWidth
        BY DEF MaxWidth
      <4> QED BY <3>1, <4>1, Power
    <3>3. n <= m /\ n \in Int
      BY <3>1, <1>0, SizeAssumption
    <3>4. i \in Nat /\ i < m /\ 0 * m <= i /\ i < 0 * m + m /\ i - 0 * m = i
      BY <2>1, <3>1, <3>2, <3>3
    <3>5. i % m = i
      BY <3>2, <3>4, DivUnique
    <3> QED BY <3>1, <3>5
  <2>4. CASE r <= kSmallSizeThreshold
    <3>1. r \in 0 .. kSmallSizeThreshold
      BY <2>4, SizeAssumption
    <3>2. small_index_table_[r] = CalculateIndex(r)
      BY <3>1, <2>3, Zenon DEF small_index_table_
    <3> QED BY <2>1, <2>2, <2>4, <3>2 DEF Index, NoIndex
  <2>5. CASE ~ (r <= kSmallSizeThreshold)
    BY <2>1, <2>2, <2>5 DEF Index, NoIndex
  <2> QED BY <2>4, <2>5
<1>2. ASSUME NEW request \in Nat, request <= MAX_TC_SIZE PROVE IsExact(request)
  <2>1. PICK i : i = CalculateIndex(request)
    OBVIOUS
  <2>2. Smallest(request, i) /\ i \in 0 .. kNumSizeClasses - 1 /\ CalculateSize(i) <= MAX_TC_SIZE
    BY <1>2, <2>1, IndexBounded
  <2>3. Index(request) = i /\ Index(request) # NoIndex
    BY <1>2, <2>1, <1>1
  <2>4. i \in DOMAIN size_table_ /\ size_table_[i] = CalculateSize(i)
    BY <2>2, Zenon DEF size_table_
  <2>5. i > 0 => size_table_[i - 1] = CalculateSize(i - 1)
    <3>1. SUFFICES ASSUME i > 0 PROVE size_table_[i - 1] = CalculateSize(i - 1)
      OBVIOUS
    <3>2. i \in Nat
      BY <2>2, Zenon DEF Smallest
    <3>3. i - 1 \in 0 .. kNumSizeClasses - 1
      BY <2>2, <3>1, <3>2, <1>0
    <3> QED BY <3>3, Zenon DEF size_table_
  <2>6. RoundUp(request) = CalculateSize(i)
    BY <2>3, <2>4, Zenon DEF RoundUp
  <2>7. Index(CalculateSize(i)) = i
    <3>1. CalculateSize(i) \in Nat /\ CalculateIndex(CalculateSize(i)) = i
      BY <2>2, Zenon DEF Smallest
    <3> QED BY <3>1, <2>2, <1>1
  <2>8. ~ (request > MAX_TC_SIZE)
    BY <1>0, <1>2
  <2> QED BY <2>2, <2>3, <2>4, <2>5, <2>6, <2>7, <2>8, Zenon DEF IsExact, Smallest
<1>3. ASSUME NEW request \in Nat, request > MAX_TC_SIZE PROVE IsExact(request)
  BY <1>3, Zenon DEF IsExact, Index, RoundUp
<1>4. \A request \in Nat : request <= MAX_TC_SIZE \/ request > MAX_TC_SIZE
  BY <1>0
<1> QED BY <1>2, <1>3, <1>4, Zenon

-----------------------------------------------------------------------------
(* The layout of a span *)

LEMMA AlignUpBounds ==
    ASSUME NEW x \in Nat, NEW a \in Nat \ {0}
    PROVE  AlignUp(x, a) \in Nat /\ x <= AlignUp(x, a) /\ AlignUp(x, a) % a = 0
<1>1. PICK y, q : y = x + a - 1 /\ q = (x + a - 1) \div a
  OBVIOUS
<1>2. y \in Nat /\ q \in Nat /\ y < q * a + a
  <2>1. y \in Nat
    BY <1>1
  <2> QED BY <2>1, <1>1, DivBounds
<1>3. q * a \in Nat /\ x <= q * a
  BY <1>1, <1>2
<1>4. (q * a) % a = 0
  <2>1. a % a = 0
    OBVIOUS
  <2> QED BY <2>1, <1>2, Multiple
<1> QED BY <1>1, <1>3, <1>4 DEF AlignUp

\* The grid ComputeSpanLayout lays out passes all of Span::Init's checks: the
\* bitmap has a bit for every slot and precedes the objects, which begin
\* aligned and end inside the span.  For every object size and span length,
\* word width, alignment and page size.
THEOREM LayoutSound ==
    \A bytes \in Nat \ {0}, n \in Nat :
        GridSound(ComputeSpanLayout(bytes, n), bytes, n)
<1> SUFFICES ASSUME NEW bytes \in Nat \ {0}, NEW n \in Nat
             PROVE  GridSound(ComputeSpanLayout(bytes, n), bytes, n)
  OBVIOUS
<1>1. PICK total, objs, words, start, raw :
         /\ total = n * PAGE_SIZE
         /\ objs = (total * 8) \div (bytes * 8 + 1)
         /\ words = (objs + BITMAP_BITS - 1) \div BITMAP_BITS
         /\ start = AlignUp(8 * words, ALIGNMENT)
         /\ raw = IF start >= total THEN 0 ELSE (total - start) \div bytes
  OBVIOUS
<1>2. PICK grid : grid = ComputeSpanLayout(bytes, n)
  OBVIOUS
<1>3. /\ grid.bitmap_num = words /\ grid.obj_offset = start
      /\ grid.capacity = IF raw < objs THEN raw ELSE objs
  BY <1>1, <1>2, Zenon DEF ComputeSpanLayout
<1>4. PAGE_SIZE \in Nat \ {0} /\ BITMAP_BITS \in Nat \ {0} /\ ALIGNMENT \in Nat \ {0}
  BY SizeAssumption
<1>5. total \in Nat /\ total * 8 \in Nat /\ bytes * 8 + 1 \in Nat \ {0}
  BY <1>1, <1>4
<1>6. objs \in Nat
  BY <1>1, <1>5, DivBounds, SMTT(30)
<1>7. words \in Nat /\ objs <= words * BITMAP_BITS
  <2>1. PICK y, m : y = objs + BITMAP_BITS - 1 /\ m = BITMAP_BITS
    OBVIOUS
  <2>2. y \in Nat /\ m \in Nat \ {0}
    BY <2>1, <1>4, <1>6
  <2>3. words \in Nat /\ y < words * m + m
    BY <2>1, <2>2, <1>1, DivBounds
  <2>4. words * m \in Nat
    BY <2>2, <2>3
  <2> QED BY <2>1, <2>2, <2>3, <2>4, <1>6
<1>8. start \in Nat /\ 8 * words <= start /\ start % ALIGNMENT = 0
  <2>1. 8 * words \in Nat
    BY <1>7
  <2> QED BY <2>1, <1>1, <1>4, AlignUpBounds
<1>9. raw \in Nat /\ (raw > 0 => start + raw * bytes <= total)
  <2>1. CASE start >= total
    BY <2>1, <1>1
  <2>2. CASE ~ (start >= total)
    <3>1. total - start \in Nat /\ raw = (total - start) \div bytes
      BY <2>2, <1>1, <1>5, <1>8
    <3>2. raw \in Nat /\ raw * bytes <= total - start
      BY <3>1, DivBounds
    <3>3. raw * bytes \in Nat
      BY <3>2
    <3> QED BY <3>2, <3>3, <1>5, <1>8, SMTT(30)
  <2> QED BY <2>1, <2>2
<1>10. PICK cap : cap = grid.capacity
  OBVIOUS
<1>11. cap \in Nat /\ cap <= objs /\ cap <= raw
  BY <1>3, <1>6, <1>9, <1>10
<1>12. cap <= words * BITMAP_BITS
  <2>1. words * BITMAP_BITS \in Nat
    BY <1>4, <1>7
  <2> QED BY <2>1, <1>6, <1>7, <1>11
<1>13. cap > 0 => start + cap * bytes <= total
  <2>1. SUFFICES ASSUME cap > 0 PROVE start + cap * bytes <= total
    OBVIOUS
  <2>2. cap * bytes <= raw * bytes
    BY <1>9, <1>11, TimesMonotone
  <2>3. cap * bytes \in Nat /\ raw * bytes \in Nat
    BY <1>9, <1>11
  <2> QED BY <2>1, <2>2, <2>3, <1>5, <1>8, <1>9, <1>11
<1> QED BY <1>1, <1>2, <1>3, <1>8, <1>10, <1>12, <1>13, Zenon DEF GridSound

-----------------------------------------------------------------------------
(* The entry points *)

Locs == {Idle} \cup [pc : {"ensure", "cas", "start", "slow"}, size : Sizes]

LocTyped == loc \in [Threads -> Locs]

LEMMA GotoLoc ==
    ASSUME LocTyped, NEW t \in Threads, NEW p \in {"ensure", "cas", "start", "slow"},
           loc[t].pc # "idle", Goto(t, p)
    PROVE  LocTyped' /\ loc'[t].pc = p /\ \A u \in Threads \ {t} : loc'[u] = loc[u]
<1>1. loc[t] \in [pc : {"ensure", "cas", "start", "slow"}, size : Sizes]
  BY DEF LocTyped, Locs, Idle
<1>2. loc' = [loc EXCEPT ![t] = [loc[t] EXCEPT !.pc = p]]
  BY Zenon DEF Goto
<1>3. [loc[t] EXCEPT !.pc = p] \in [pc : {"ensure", "cas", "start", "slow"}, size : Sizes]
  BY <1>1, Zenon
<1>4. [loc[t] EXCEPT !.pc = p].pc = p
  BY <1>1, Zenon
<1> QED BY <1>2, <1>3, <1>4, ZenonT(60) DEF LocTyped, Locs

LEMMA ReturnLoc ==
    ASSUME LocTyped, NEW t \in Threads, Return(t)
    PROVE  LocTyped' /\ loc'[t].pc = "idle" /\ \A u \in Threads \ {t} : loc'[u] = loc[u]
  BY Zenon DEF LocTyped, Locs, Idle, Return

-----------------------------------------------------------------------------
(* The start of the scavenger *)

\* StartedOnce is not inductive: it must also say that one thread at most is
\* between the compare-and-swap and Start, that this thread has set the flag,
\* and that a thread at the compare-and-swap saw the scavenger enabled.
StartInv ==
    /\ LocTyped
    /\ enabled \in BOOLEAN /\ started \in BOOLEAN /\ starts \in {0, 1}
    /\ \A t \in Threads : loc[t].pc = "cas" => enabled
    /\ \A t \in Threads : loc[t].pc = "start" => enabled /\ started /\ starts = 0
    /\ \A t, u \in Threads : loc[t].pc = "start" /\ loc[u].pc = "start" => t = u
    /\ starts = 1 => enabled /\ started
    /\ started => starts = 1 \/ \E t \in Threads : loc[t].pc = "start"

\* A step that leaves the scavenger's state alone and moves no thread to the
\* compare-and-swap or to Start, nor away from Start.
LEMMA StartElsewhere ==
    ASSUME StartInv, LocTyped', UNCHANGED scavenger,
           \A t \in Threads : loc'[t].pc = "cas" => loc[t].pc = "cas" \/ enabled,
           \A t \in Threads : loc'[t].pc = "start" <=> loc[t].pc = "start"
    PROVE  StartInv'
  BY Zenon DEF StartInv, scavenger

LEMMA StartInit == Init => StartInv
<1> SUFFICES ASSUME Init PROVE StartInv
  BY Zenon
<1>1. loc = [t \in Threads |-> Idle]
  BY Zenon DEF Init
<1>2. LocTyped /\ \A t \in Threads : loc[t].pc = "idle"
  BY <1>1, Zenon DEF LocTyped, Locs, Idle
<1>3. enabled \in BOOLEAN /\ started = FALSE /\ starts = 0
  BY Zenon DEF Init
<1>4. starts \in {0, 1} /\ starts # 1
  BY <1>3
<1>5. \A t \in Threads : loc[t].pc # "cas" /\ loc[t].pc # "start"
  BY <1>2, Zenon
<1> QED BY <1>2, <1>3, <1>4, <1>5, Zenon DEF StartInv

LEMMA StartStep == StartInv /\ [Next]_vars => StartInv'
<1> SUFFICES ASSUME StartInv, [Next]_vars PROVE StartInv'
  BY Zenon
<1>1. LocTyped
  BY Zenon DEF StartInv
<1>2. CASE UNCHANGED vars
  BY <1>2, Zenon DEF vars, StartInv, LocTyped
<1>3. ASSUME NEW t \in Threads, Step(t) PROVE StartInv'
  <2>1. CASE \E sz \in Sizes : am_malloc(t, sz)
    <3>1. PICK sz \in Sizes : am_malloc(t, sz)
      BY <2>1, Zenon
    <3>2. loc[t] = Idle /\ UNCHANGED scavenger
      BY <3>1, Zenon DEF am_malloc, Calls
    <3>3. CASE UNCHANGED loc
      BY <3>2, <3>3, StartElsewhere, <1>1, ZenonT(60) DEF LocTyped
    <3>4. CASE loc' = [loc EXCEPT ![t] = [pc |-> "ensure", size |-> sz]]
      <4>1. LocTyped'
        BY <3>4, <1>1, Zenon DEF LocTyped, Locs
      <4>2. loc'[t].pc = "ensure" /\ \A u \in Threads \ {t} : loc'[u] = loc[u]
        BY <3>4, <1>1, Zenon DEF LocTyped
      <4> QED BY <4>1, <4>2, <3>2, StartElsewhere DEF Idle
    <3> QED BY <3>1, <3>3, <3>4, Zenon DEF am_malloc
  <2>2. CASE EnsureLoad(t)
    <3>1. \E p \in {"cas", "slow"} : Goto(t, p) /\ (p = "cas" => enabled)
      BY <2>2, Zenon DEF EnsureLoad
    <3>2. loc[t].pc = "ensure" /\ UNCHANGED scavenger
      BY <2>2, Zenon DEF EnsureLoad
    <3> QED BY <3>1, <3>2, <1>1, GotoLoc, StartElsewhere, Zenon
  <2>3. CASE EnsureCas(t)
    <3>1. loc[t].pc = "cas" /\ started' = TRUE /\ enabled' = enabled /\ starts' = starts
      BY <2>3, Zenon DEF EnsureCas
    <3>2. CASE started
      <4>1. Goto(t, "slow")
        BY <2>3, <3>2, Zenon DEF EnsureCas
      <4> QED BY <4>1, <3>1, <3>2, <1>1, GotoLoc, StartElsewhere, Zenon DEF scavenger, StartInv
    <3>3. CASE ~started
      <4>1. Goto(t, "start")
        BY <2>3, <3>3, Zenon DEF EnsureCas
      <4>2. LocTyped' /\ loc'[t].pc = "start" /\ \A u \in Threads \ {t} : loc'[u] = loc[u]
        BY <4>1, <3>1, <1>1, GotoLoc, ZenonT(60)
      <4> QED BY <4>2, <3>1, <3>3, Zenon DEF StartInv
    <3> QED BY <3>2, <3>3, Zenon DEF StartInv
  <2>4. CASE EnsureStart(t)
    <3>1. /\ loc[t].pc = "start" /\ starts' = starts + 1 /\ enabled' = enabled
          /\ started' = started /\ Goto(t, "slow")
      BY <2>4, Zenon DEF EnsureStart
    <3>2. LocTyped' /\ loc'[t].pc = "slow" /\ \A u \in Threads \ {t} : loc'[u] = loc[u]
      BY <3>1, <1>1, GotoLoc, Zenon
    <3> QED BY <3>1, <3>2 DEF StartInv
  <2>5. CASE SlowLarge(t) \/ SlowSmall(t)
    <3>1. loc[t].pc = "slow" /\ UNCHANGED scavenger /\ Return(t)
      BY <2>5, Zenon DEF SlowLarge, SlowSmall
    <3> QED BY <3>1, <1>1, ReturnLoc, StartElsewhere, Zenon
  <2>6. CASE \/ \E b \in Blocks : am_free(t, b)
             \/ am_thread_cache_trim(t) \/ am_thread_cache_purge(t)
             \/ BeginExit(t) \/ Cleaner(t) \/ EndExit(t)
    <3>1. UNCHANGED <<scavenger, loc>>
      BY <2>6, Zenon DEF am_free, am_thread_cache_trim, am_thread_cache_purge, BeginExit, Cleaner, EndExit
    <3> QED BY <3>1, <1>1, StartElsewhere, Zenon DEF LocTyped
  <2> QED BY <1>3, <2>1, <2>2, <2>3, <2>4, <2>5, <2>6, ZenonT(60) DEF Step
<1> QED BY <1>2, <1>3, Zenon DEF Next

\* However many threads reach am_malloc's slow path at once, one of them and
\* only one calls PageHeapScavenger::Start, and only with the scavenger enabled
\* (EnsureScavengerStarted).
THEOREM ScavengerStartedOnce == Spec => []StartedOnce
<1>1. StartInv => StartedOnce
  BY DEF StartInv, StartedOnce
<1> QED BY StartInit, StartStep, <1>1, PTL DEF Spec

-----------------------------------------------------------------------------
(* The end of a thread *)

\* CleanerDrains, with the domains of the functions it talks about.
DrainInv ==
    /\ block = [b \in Blocks |-> block[b]]
    /\ ptls \in [Threads -> BOOLEAN] /\ destructed \in [Threads -> BOOLEAN]
    /\ CleanerDrains

\* What no step may do to a cleaned-up thread.
LEMMA StaysDrained ==
    ASSUME DrainInv, NEW t \in Threads,
           block' = [b \in Blocks |-> block'[b]],
           ptls' \in [Threads -> BOOLEAN], destructed' \in [Threads -> BOOLEAN],
           \A u \in Threads \ {t} :
              ptls'[u] = ptls[u] /\ destructed'[u] = destructed[u]
              /\ (u \in pages' => u \in pages) /\ Cached(u)' \subseteq Cached(u),
           destructed'[t] => Drained(t)'
    PROVE  DrainInv'
  BY Zenon DEF DrainInv, CleanerDrains, Drained

LEMMA ReturnedCaches ==
    ASSUME NEW blocks, block' = Returned(blocks)
    PROVE  /\ block' = [b \in Blocks |-> block'[b]]
           /\ \A u \in Threads : Cached(u)' \subseteq Cached(u) \ blocks
  BY Zenon DEF Returned, Cached, Below

LEMMA AllocateCaches ==
    ASSUME DrainInv, NEW t \in Threads, NEW sz, Allocate(t, sz)
    PROVE  /\ block' = [b \in Blocks |-> block'[b]]
           /\ \A u \in Threads \ {t} : Cached(u)' \subseteq Cached(u)
<1> DEFINE c == Index(sz)  n == size_table_[c]
<1>1. CASE \E b \in List(t, c) : block' = [block EXCEPT ![b] = InApp(c, n, sz)]
  BY <1>1 DEF List, InApp, Cached, DrainInv
<1>2. CASE \E trimmed \in SUBSET Cached(t), b \in Blocks, more \in SUBSET Blocks :
             block' = [x \in Blocks |-> IF x = b THEN InApp(c, n, sz)
                                        ELSE IF x \in more THEN InCache(t, c)
                                        ELSE IF x \in trimmed THEN Below
                                        ELSE block[x]]
  BY <1>2 DEF InApp, InCache, Below, Cached
<1>3. CASE \E trimmed \in SUBSET Cached(t) : block' = Returned(trimmed)
  BY <1>3, ReturnedCaches, Zenon
<1>4. Free \subseteq Blocks /\ Cached(t) \subseteq Blocks
  BY Zenon DEF Free, Cached
<1>5. ASSUME NEW trimmed \in SUBSET Cached(t), NEW b \in Free \cup trimmed,
             NEW more \in SUBSET (Free \cup trimmed),
             block' = [x \in Blocks |-> IF x = b THEN InApp(c, n, sz)
                                        ELSE IF x \in more THEN InCache(t, c)
                                        ELSE IF x \in trimmed THEN Below
                                        ELSE block[x]]
      PROVE  \E trim \in SUBSET Cached(t), y \in Blocks, rest \in SUBSET Blocks :
                block' = [x \in Blocks |-> IF x = y THEN InApp(c, n, sz)
                                           ELSE IF x \in rest THEN InCache(t, c)
                                           ELSE IF x \in trim THEN Below
                                           ELSE block[x]]
  <2>1. b \in Blocks /\ more \in SUBSET Blocks
    BY <1>4, Zenon
  <2> QED BY <1>5, <2>1, Zenon
<1> QED BY <1>1, <1>2, <1>3, <1>5, ZenonT(60) DEF Allocate

LEMMA DeallocateCaches ==
    ASSUME NEW t \in Threads, NEW b \in Blocks, Deallocate(t, b)
    PROVE  /\ block' = [x \in Blocks |-> block'[x]]
           /\ \A u \in Threads \ {t} : Cached(u)' \subseteq Cached(u)
<1>1. PICK evicted \in SUBSET (Cached(t) \cup {b}) :
         block' = [Returned(evicted) EXCEPT ![b] =
                      IF b \in evicted THEN Below ELSE InCache(t, block[b].class)]
  BY Zenon DEF Deallocate
<1>2. block' = [x \in Blocks |-> IF x \in evicted THEN Below
                                 ELSE IF x = b THEN InCache(t, block[b].class)
                                 ELSE block[x]]
  BY <1>1, Zenon DEF Returned
<1> QED BY <1>2, Zenon DEF InCache, Below, Cached

LEMMA CreateKeeps ==
    ASSUME DrainInv, NEW t \in Threads, CreateThreadCache(t)
    PROVE  /\ ptls' \in [Threads -> BOOLEAN] /\ destructed' = destructed
           /\ \A u \in Threads \ {t} : ptls'[u] = ptls[u] /\ (u \in pages' => u \in pages)
           /\ destructed[t] => ~ptls'[t] /\ (t \in pages' => t \in pages)
  BY Zenon DEF CreateThreadCache, DrainInv, CleanerDrains, Drained

LEMMA DrainInit == Init => DrainInv
<1> SUFFICES ASSUME Init PROVE DrainInv
  BY Zenon
<1>1. block = [b \in Blocks |-> Below]
  BY Zenon DEF Init
<1>2. ptls = [t \in Threads |-> FALSE] /\ destructed = [t \in Threads |-> FALSE]
  BY Zenon DEF Init
<1> QED BY <1>1, <1>2, Zenon DEF DrainInv, CleanerDrains

LEMMA DrainStep == DrainInv /\ [Next]_vars => DrainInv'
<1> SUFFICES ASSUME DrainInv, [Next]_vars PROVE DrainInv'
  BY Zenon
<1>0. /\ block = [b \in Blocks |-> block[b]]
      /\ ptls \in [Threads -> BOOLEAN] /\ destructed \in [Threads -> BOOLEAN]
      /\ \A t \in Threads : destructed[t] => ~ptls[t] /\ t \notin pages /\ Cached(t) = {}
  BY Zenon DEF DrainInv, CleanerDrains, Drained
<1>1. CASE UNCHANGED vars
  BY <1>1, Zenon DEF vars, DrainInv, CleanerDrains, Drained, Cached
<1>2. ASSUME NEW t \in Threads, Step(t) PROVE DrainInv'
  \* The steps that leave the thread's state alone.
  <2>1. ASSUME UNCHANGED <<ptls, destructed, pages>>, block' = [b \in Blocks |-> block'[b]],
               \A u \in Threads \ {t} : Cached(u)' \subseteq Cached(u),
               destructed[t] => Cached(t)' \subseteq Cached(t)
        PROVE  DrainInv'
    BY <2>1, <1>0, StaysDrained, Zenon DEF Drained
  <2>2. ASSUME UNCHANGED <<ptls, destructed, pages, block>> PROVE DrainInv'
    BY <2>2, <1>0, <2>1, Zenon DEF Cached
  <2>3. CASE \E sz \in Sizes : am_malloc(t, sz)
    <3>1. PICK sz \in Sizes : am_malloc(t, sz)
      BY <2>3, Zenon
    <3>2. UNCHANGED <<ptls, destructed, pages>>
      BY <3>1, Zenon DEF am_malloc, tls
    <3>3. CASE UNCHANGED block
      BY <3>2, <3>3, <2>2, Zenon
    <3>4. CASE ptls[t] /\ Allocate(t, sz)
      BY <3>2, <3>4, <1>0, <2>1, AllocateCaches, ZenonT(60)
    <3> QED BY <3>1, <3>3, <3>4, ZenonT(60) DEF am_malloc
  <2>4. CASE EnsureLoad(t) \/ EnsureCas(t) \/ EnsureStart(t) \/ BeginExit(t) \/ EndExit(t)
    BY <2>4, <2>2, Zenon DEF EnsureLoad, EnsureCas, EnsureStart, BeginExit, EndExit, tls
  <2>5. CASE SlowLarge(t)
    <3>1. UNCHANGED <<ptls, destructed, pages>>
      BY <2>5, Zenon DEF SlowLarge, tls
    <3>2. CASE UNCHANGED block
      BY <3>1, <3>2, <2>2, Zenon
    <3>3. CASE \E b \in Free : block' = [block EXCEPT ![b] =
                        InApp(Large, AlignUpWrapping(loc[t].size), loc[t].size)]
      <4>1. /\ block' = [b \in Blocks |-> block'[b]]
            /\ \A u \in Threads : Cached(u)' \subseteq Cached(u)
        BY <3>3, <1>0 DEF Free, InApp, Cached
      <4> QED BY <4>1, <3>1, <2>1, ZenonT(60)
    <3> QED BY <2>5, <3>2, <3>3, Zenon DEF SlowLarge
  <2>6. CASE SlowSmall(t)
    <3>1. CreateThreadCache(t)
      BY <2>6, ZenonT(60) DEF SlowSmall
    <3>2. CASE ptls'[t] /\ Allocate(t, loc[t].size)
      BY <3>1, <3>2, <1>0, CreateKeeps, AllocateCaches, StaysDrained, SMTT(30)
    <3>3. CASE UNCHANGED block
      <4>1. /\ block' = [b \in Blocks |-> block'[b]]
            /\ \A u \in Threads : Cached(u)' = Cached(u)
        BY <3>3, <1>0, Zenon DEF Cached
      <4> QED BY <3>1, <4>1, <1>0, CreateKeeps, StaysDrained DEF Drained
    <3> QED BY <2>6, <3>2, <3>3, Zenon DEF SlowSmall
  <2>7. CASE \E b \in Blocks : am_free(t, b)
    <3>1. PICK b \in Blocks : am_free(t, b)
      BY <2>7, Zenon
    <3>2. CASE UNCHANGED tls /\ block' = Returned({b})
      BY <3>2, <2>1, ReturnedCaches, ZenonT(60) DEF tls
    <3>3. CASE CreateThreadCache(t) /\ ptls'[t] /\ Deallocate(t, b)
      BY <3>3, <1>0, CreateKeeps, DeallocateCaches, StaysDrained
    <3>4. CASE CreateThreadCache(t) /\ block' = Returned({b})
      <4>1. /\ block' = [x \in Blocks |-> block'[x]]
            /\ \A u \in Threads : Cached(u)' \subseteq Cached(u)
        BY <3>4, ReturnedCaches, Zenon
      <4>2. /\ ptls' \in [Threads -> BOOLEAN] /\ destructed' = destructed
            /\ \A u \in Threads \ {t} : ptls'[u] = ptls[u] /\ (u \in pages' => u \in pages)
            /\ destructed[t] => ~ptls'[t] /\ (t \in pages' => t \in pages)
        BY <3>4, CreateKeeps, Zenon
      <4>3. destructed'[t] => Drained(t)'
        BY <4>1, <4>2, <1>0, Zenon DEF Drained
      <4> QED BY <4>1, <4>2, <4>3, <1>0, StaysDrained, Zenon
    <3>5. \/ UNCHANGED tls /\ block' = Returned({b})
          \/ CreateThreadCache(t) /\ ptls'[t] /\ Deallocate(t, b)
          \/ CreateThreadCache(t) /\ block' = Returned({b})
      BY <3>1, Zenon DEF am_free
    <3> QED BY <3>2, <3>3, <3>4, <3>5, ZenonT(60)
  <2>8. CASE am_thread_cache_trim(t) \/ am_thread_cache_purge(t)
    <3>1. UNCHANGED <<ptls, destructed, pages>> /\ \E blocks : block' = Returned(blocks)
      BY <2>8, Zenon DEF am_thread_cache_trim, am_thread_cache_purge, tls
    <3> QED BY <3>1, <2>1, ReturnedCaches, Zenon
  <2>9. CASE Cleaner(t)
    <3>1. /\ block' = Returned(Cached(t)) /\ pages' = pages \ {t}
          /\ ptls' = [ptls EXCEPT ![t] = FALSE]
          /\ destructed' = [destructed EXCEPT ![t] = TRUE]
      BY <2>9, Zenon DEF Cleaner
    <3>2. /\ block' = [b \in Blocks |-> block'[b]]
          /\ \A u \in Threads : Cached(u)' \subseteq Cached(u) \ Cached(t)
      BY <3>1, ReturnedCaches, Zenon
    <3>3. Drained(t)'
      BY <3>1, <3>2, <1>0, ZenonT(60) DEF Drained
    <3> QED BY <3>1, <3>2, <3>3, <1>0, StaysDrained, Zenon
  <2> QED BY <1>2, <2>3, <2>4, <2>5, <2>6, <2>7, <2>8, <2>9, ZenonT(60) DEF Step
<1> QED BY <1>1, <1>2, Zenon DEF Next

\* Once ThreadCacheCleaner has run, whatever destructors run after it and
\* whoever frees the thread's blocks, no call brings the ThreadCache back: no
\* block is cached for the thread and its pages stay unmapped (CreateThreadCache
\* reads g_ThreadCacheAlreadyDestructed).
THEOREM CleanerDrainsForGood == Spec => []CleanerDrains
<1>1. DrainInv => CleanerDrains
  BY Zenon DEF DrainInv
<1> QED BY DrainInit, DrainStep, <1>1, PTL DEF Spec

-----------------------------------------------------------------------------
(* What an allocation holds *)

\* A rounding that cannot wrap never rounds down.
LEMMA PageRounding ==
    ASSUME NEW n \in Nat, Representable(n)
    PROVE  AlignUpWrapping(n) >= n
<1>1. PICK p, m, y : p = PAGE_SIZE /\ m = 2^SizeBits /\ y = n + PAGE_SIZE - 1
  OBVIOUS
<1>2. p \in Nat \ {0} /\ m \in Nat
  BY <1>1, SizeAssumption, RequestAssumption
<1>3. y \in Nat /\ y < m /\ y = n + p - 1
  BY <1>1, <1>2 DEF Representable, kMaxRequestBytes, SizeMax
<1>4. y % m = y
  <2>1. m \in Nat \ {0} /\ 0 * m <= y /\ y < 0 * m + m /\ y - 0 * m = y
    BY <1>2, <1>3
  <2> QED BY <2>1, <1>3, DivUnique
<1>5. PICK q : q = y \div p
  OBVIOUS
<1>6. q \in Nat /\ y < q * p + p
  BY <1>2, <1>3, <1>5, DivBounds
<1>7. q * p \in Nat
  BY <1>2, <1>6
<1>8. AlignUpWrapping(n) = q * p
  BY <1>1, <1>4, <1>5, Zenon DEF AlignUpWrapping
<1> QED BY <1>3, <1>6, <1>7, <1>8, <1>2

LEMMA ClassRounding ==
    ASSUME NEW n \in Sizes, n <= MAX_TC_SIZE
    PROVE  size_table_[Index(n)] >= n
<1>1. n \in Nat
  BY RequestAssumption
<1>2. MAX_TC_SIZE \in Nat
  BY Ladder, LastClass
<1>3. ~ (n > MAX_TC_SIZE)
  BY <1>1, <1>2
<1>4. IsExact(n)
  BY <1>1, ClassesExact
<1>5. n <= size_table_[Index(n)]
  BY <1>3, <1>4, Zenon DEF IsExact
<1> QED BY <1>5

FullInv == /\ LocTyped /\ block = [b \in Blocks |-> block[b]]
           /\ ServedInFull

\* A block the application holds was held before, or is handed out in full.
LEMMA StaysFull ==
    ASSUME ServedInFull,
           \A b \in Blocks : \/ block'[b] = block[b] \/ block'[b].at # "app"
                             \/ block'[b].bytes >= block'[b].wanted
    PROVE  ServedInFull'
  BY Zenon DEF ServedInFull, Held

LEMMA ReturnedFull ==
    ASSUME ServedInFull, NEW blocks, block' = Returned(blocks)
    PROVE  block' = [b \in Blocks |-> block'[b]] /\ ServedInFull'
<1>1. block' = [b \in Blocks |-> IF b \in blocks THEN Below ELSE block[b]]
  BY Zenon DEF Returned
<1>2. Below.at # "app"
  BY DEF Below
<1> QED BY <1>1, <1>2, StaysFull, Zenon

LEMMA AllocateFull ==
    ASSUME FullInv, NEW t \in Threads, NEW n \in Sizes, n <= MAX_TC_SIZE, Allocate(t, n)
    PROVE  block' = [b \in Blocks |-> block'[b]] /\ ServedInFull'
<1> DEFINE c == Index(n)  given == InApp(c, size_table_[c], n)
<1>1. given.bytes >= given.wanted
  BY ClassRounding DEF InApp
<1>2. InCache(t, c).at # "app" /\ Below.at # "app"
  BY DEF InCache, Below
<1>3. block = [b \in Blocks |-> block[b]] /\ ServedInFull
  BY Zenon DEF FullInv
<1>4. CASE \E b \in List(t, c) : block' = [block EXCEPT ![b] = given]
  <2>1. PICK b \in List(t, c) : block' = [block EXCEPT ![b] = given]
    BY <1>4, Zenon
  <2>2. b \in Blocks
    BY Zenon DEF List
  <2>3. block' = [x \in Blocks |-> IF x = b THEN given ELSE block[x]]
    BY <2>1, <1>3, Zenon
  <2> QED BY <2>3, <1>1, <1>3, StaysFull, Zenon
<1>5. ASSUME NEW trimmed, block' = Returned(trimmed)
      PROVE  block' = [x \in Blocks |-> block'[x]] /\ ServedInFull'
  BY <1>5, <1>3, ReturnedFull, Zenon
<1> HIDE DEF c, given
<1>6. ASSUME NEW trimmed \in SUBSET Cached(t),
             \E b \in Free \cup trimmed, more \in SUBSET (Free \cup trimmed) :
                block' = [x \in Blocks |-> IF x = b THEN given
                                           ELSE IF x \in more THEN InCache(t, c)
                                           ELSE IF x \in trimmed THEN Below
                                           ELSE block[x]]
      PROVE  block' = [x \in Blocks |-> block'[x]] /\ ServedInFull'
  <2>1. PICK b \in Free \cup trimmed, more \in SUBSET (Free \cup trimmed) :
           block' = [x \in Blocks |-> IF x = b THEN given
                                      ELSE IF x \in more THEN InCache(t, c)
                                      ELSE IF x \in trimmed THEN Below
                                      ELSE block[x]]
    BY <1>6, Zenon
  <2> QED BY <2>1, <1>1, <1>2, <1>3, StaysFull, Zenon
<1> USE DEF c, given
<1> QED BY <1>4, <1>5, <1>6, Zenon DEF Allocate

LEMMA DeallocateFull ==
    ASSUME FullInv, NEW t \in Threads, NEW b \in Blocks, Deallocate(t, b)
    PROVE  block' = [x \in Blocks |-> block'[x]] /\ ServedInFull'
<1>1. PICK evicted \in SUBSET (Cached(t) \cup {b}) :
         block' = [Returned(evicted) EXCEPT ![b] =
                      IF b \in evicted THEN Below ELSE InCache(t, block[b].class)]
  BY Zenon DEF Deallocate
<1>2. block' = [x \in Blocks |-> IF x \in evicted THEN Below
                                 ELSE IF x = b THEN InCache(t, block[b].class)
                                 ELSE block[x]]
  BY <1>1, Zenon DEF Returned
<1>3. InCache(t, block[b].class).at # "app" /\ Below.at # "app"
  BY DEF InCache, Below
<1>4. ServedInFull
  BY Zenon DEF FullInv
<1> QED BY <1>2, <1>3, <1>4, StaysFull, Zenon

LEMMA FullInit == Init => FullInv
<1> SUFFICES ASSUME Init PROVE FullInv
  BY Zenon
<1>1. block = [b \in Blocks |-> Below]
  BY Zenon DEF Init
<1>2. loc = [t \in Threads |-> Idle]
  BY Zenon DEF Init
<1>3. Below.at # "app"
  BY DEF Below
<1>4. ServedInFull
  BY <1>1, <1>3, Zenon DEF ServedInFull, Held
<1>5. LocTyped
  BY <1>2, Zenon DEF LocTyped, Locs
<1> QED BY <1>1, <1>4, <1>5, Zenon DEF FullInv

LEMMA FullStep == FullInv /\ [Next]_vars => FullInv'
<1> SUFFICES ASSUME FullInv, [Next]_vars PROVE FullInv'
  BY Zenon
<1>0. LocTyped /\ block = [b \in Blocks |-> block[b]] /\ ServedInFull
  BY Zenon DEF FullInv
<1>1. CASE UNCHANGED vars
  BY <1>1, Zenon DEF vars, FullInv, LocTyped, ServedInFull, Held
<1>2. ASSUME NEW t \in Threads, Step(t) PROVE FullInv'
  <2>1. ASSUME UNCHANGED block PROVE block' = [b \in Blocks |-> block'[b]] /\ ServedInFull'
    BY <2>1, <1>0, Zenon DEF ServedInFull, Held
  <2>2. ASSUME UNCHANGED loc PROVE LocTyped'
    BY <2>2, <1>0, Zenon DEF LocTyped
  <2>3. CASE \E sz \in Sizes : am_malloc(t, sz)
    <3>1. PICK sz \in Sizes : am_malloc(t, sz)
      BY <2>3, Zenon
    <3>2. CASE sz > MAX_TC_SIZE \/ ~ptls[t]
      <4>1. loc' = [loc EXCEPT ![t] = [pc |-> "ensure", size |-> sz]] /\ UNCHANGED block
        BY <3>1, <3>2, Zenon DEF am_malloc
      <4>2. LocTyped'
        BY <4>1, <1>0, Zenon DEF LocTyped, Locs
      <4> QED BY <4>1, <4>2, <2>1, Zenon DEF FullInv
    <3>3. CASE ~ (sz > MAX_TC_SIZE \/ ~ptls[t])
      <4>1. Allocate(t, sz) /\ UNCHANGED loc
        BY <3>1, <3>3, Zenon DEF am_malloc
      <4>2. sz <= MAX_TC_SIZE
        BY <3>3, RequestAssumption, Ladder, LastClass
      <4> QED BY <4>1, <4>2, <2>2, AllocateFull, Zenon DEF FullInv
    <3> QED BY <3>2, <3>3, Zenon
  <2>4. CASE EnsureLoad(t) \/ EnsureCas(t) \/ EnsureStart(t)
    <3>1. UNCHANGED block /\ loc[t].pc \in {"ensure", "cas", "start"}
      BY <2>4 DEF EnsureLoad, EnsureCas, EnsureStart
    <3>2. \E p \in {"ensure", "cas", "start", "slow"} : Goto(t, p)
      BY <2>4 DEF EnsureLoad, EnsureCas, EnsureStart
    <3>3. LocTyped'
      BY <3>1, <3>2, <1>0, GotoLoc
    <3> QED BY <3>1, <3>3, <2>1, ZenonT(60) DEF FullInv
  <2>5. CASE SlowLarge(t)
    <3>1. LocTyped' /\ loc[t].pc = "slow"
      BY <2>5, <1>0, ReturnLoc, Zenon DEF SlowLarge
    <3>2. loc[t].size \in Nat
      BY <3>1, <1>0, RequestAssumption DEF LocTyped, Locs, Idle
    <3>3. CASE UNCHANGED block
      BY <3>1, <3>3, <2>1, Zenon DEF FullInv
    <3>4. CASE /\ Representable(loc[t].size)
               /\ \E b \in Free : block' = [block EXCEPT ![b] =
                        InApp(Large, AlignUpWrapping(loc[t].size), loc[t].size)]
      <4>1. PICK given : given = InApp(Large, AlignUpWrapping(loc[t].size), loc[t].size)
        OBVIOUS
      <4>2. given.bytes = AlignUpWrapping(loc[t].size) /\ given.wanted = loc[t].size
        BY <4>1, SMTT(30) DEF InApp
      <4>3. AlignUpWrapping(loc[t].size) >= loc[t].size
        BY <3>2, <3>4, PageRounding
      <4>4. given.bytes >= given.wanted
        BY <4>2, <4>3, Zenon
      <4>5. PICK b \in Blocks : block' = [block EXCEPT ![b] = given]
        BY <3>4, <4>1, Zenon DEF Free
      <4>6. block' = [x \in Blocks |-> IF x = b THEN given ELSE block[x]]
        BY <4>5, <1>0, Zenon
      <4>7. ServedInFull'
        BY <4>4, <4>6, <1>0, StaysFull, ZenonT(60)
      <4> QED BY <4>6, <4>7, <3>1, ZenonT(60) DEF FullInv
    <3> QED BY <2>5, <3>3, <3>4, Zenon DEF SlowLarge
  <2>6. CASE SlowSmall(t)
    <3>1. LocTyped' /\ loc[t].pc = "slow" /\ loc[t].size <= MAX_TC_SIZE
      BY <2>6, <1>0, ReturnLoc, ZenonT(60) DEF SlowSmall
    <3>2. loc[t].size \in Sizes
      BY <3>1, <1>0 DEF LocTyped, Locs, Idle
    <3>3. CASE UNCHANGED block
      BY <3>1, <3>3, <2>1, Zenon DEF FullInv
    <3>4. CASE Allocate(t, loc[t].size)
      BY <3>1, <3>2, <3>4, AllocateFull, Zenon DEF FullInv
    <3> QED BY <2>6, <3>3, <3>4, Zenon DEF SlowSmall
  <2>7. CASE \E b \in Blocks : am_free(t, b)
    <3>1. PICK b \in Blocks : am_free(t, b)
      BY <2>7, Zenon
    <3>2. UNCHANGED loc /\ (block' = Returned({b}) \/ Deallocate(t, b))
      BY <3>1, Zenon DEF am_free
    <3> QED BY <3>2, <2>2, <1>0, ReturnedFull, DeallocateFull, ZenonT(60) DEF FullInv
  <2>8. CASE am_thread_cache_trim(t) \/ am_thread_cache_purge(t) \/ Cleaner(t)
    <3>1. UNCHANGED loc /\ \E blocks : block' = Returned(blocks)
      BY <2>8, Zenon DEF am_thread_cache_trim, am_thread_cache_purge, Cleaner
    <3> QED BY <3>1, <2>2, <1>0, ReturnedFull, Zenon DEF FullInv
  <2>9. CASE BeginExit(t) \/ EndExit(t)
    BY <2>9, <2>1, <2>2, ZenonT(60) DEF BeginExit, EndExit, FullInv
  <2> QED BY <1>2, <2>3, <2>4, <2>5, <2>6, <2>7, <2>8, <2>9, ZenonT(60) DEF Step
<1> QED BY <1>1, <1>2, Zenon DEF Next

\* Every block the application holds is at least as large as its request: the
\* class of a small request rounds up, by ClassesExact, and am_malloc_slow_path
\* rejects a large request whose page rounding would wrap around.
THEOREM AllocationsFull == Spec => []ServedInFull
<1>1. FullInv => ServedInFull
  BY Zenon DEF FullInv
<1> QED BY FullInit, FullStep, <1>1, PTL DEF Spec

-----------------------------------------------------------------------------
(* The circular array of a transfer cache *)

\* Sequences with the same elements are the same.
LEMMA SameElements ==
    ASSUME NEW S, NEW p \in Seq(S), NEW q \in Seq(S), Len(p) = Len(q),
           \A i \in 1 .. Len(p) : p[i] = q[i]
    PROVE  p = q
  OBVIOUS

\* A logical offset below the capacity lands inside the array.
LEMMA IndexInRange ==
    ASSUME RingTypeOK, NEW o \in 0 .. Capacity - 1
    PROVE  TransferIndex(o) \in 0 .. Capacity - 1
  BY RingAssumption DEF RingTypeOK, TransferIndex

\* Different logical offsets land in different slots.
LEMMA IndexInjective ==
    ASSUME RingTypeOK, NEW o \in 0 .. Capacity - 1, NEW p \in 0 .. Capacity - 1,
           TransferIndex(o) = TransferIndex(p)
    PROVE  o = p
  BY RingAssumption DEF RingTypeOK, TransferIndex

\* Initially the array is empty and in order.
LEMMA InitType == RingInit => RingTypeOK
  BY RingAssumption DEF RingInit, RingTypeOK

\* Pushes, pops and drains keep begin and size in bounds.
LEMMA NextType == RingTypeOK /\ [RingNext]_ringVars => RingTypeOK'
<1> SUFFICES ASSUME RingTypeOK, [RingNext]_ringVars PROVE RingTypeOK'
  BY Zenon
<1>1. CASE PushHot
  <2>1. PICK v \in Values : ring' = [ring EXCEPT ![TransferIndex(size)] = v]
    BY <1>1, Zenon DEF PushHot
  <2>2. ring' \in [0 .. Capacity - 1 -> Values]
    BY <2>1, Zenon DEF RingTypeOK
  <2> QED BY <1>1, <2>2, RingAssumption DEF PushHot, RingTypeOK
<1>2. CASE PopHot
  BY <1>2, RingAssumption DEF PopHot, RingTypeOK
<1>3. ASSUME NEW detached \in 1 .. size, Detach(detached) PROVE RingTypeOK'
  BY <1>3, RingAssumption DEF Detach, RingTypeOK, TransferIndex
<1>4. CASE UNCHANGED ringVars
  BY <1>4, Zenon DEF ringVars, RingTypeOK
<1> QED BY <1>1, <1>2, <1>3, <1>4, ZenonT(60) DEF RingNext

\* No access of the array is ever out of bounds, whatever wraps around
\* (FetchBatch, ReleaseBatch and DrainTransferCaches through TransferIndex).
THEOREM RingInBounds == RingSpec => []RingTypeOK
  BY InitType, NextType, PTL DEF RingSpec

-----------------------------------------------------------------------------
ContentIsSeq ==
    /\ Content \in Seq(Values) /\ Len(Content) = size
    /\ \A i \in 1 .. size : Content[i] = ring[TransferIndex(i - 1)]

\* The content is a sequence of the pointers in the array.
LEMMA ContentSeq == RingTypeOK => ContentIsSeq
<1> SUFFICES ASSUME RingTypeOK PROVE ContentIsSeq
  BY Zenon
<1>1. size \in Nat /\ \A i \in 1 .. size : ring[TransferIndex(i - 1)] \in Values
  <2>1. ASSUME NEW i \in 1 .. size PROVE ring[TransferIndex(i - 1)] \in Values
    <3>1. i - 1 \in 0 .. Capacity - 1
      BY RingAssumption DEF RingTypeOK
    <3>2. TransferIndex(i - 1) \in 0 .. Capacity - 1
      BY <3>1, IndexInRange, Zenon
    <3> QED BY <3>2, Zenon DEF RingTypeOK
  <2> QED BY <2>1 DEF RingTypeOK
<1>2. Content \in [1 .. size -> Values]
  BY <1>1, Zenon DEF Content
<1>3. Content \in Seq(Values) /\ Len(Content) = size
  BY <1>1, <1>2
<1> QED BY <1>3, Zenon DEF Content, ContentIsSeq

\* A push appends at the hot end.
LEMMA PushAppends ==
    ASSUME RingTypeOK, RingTypeOK', PushHot
    PROVE  Sequence!PushBack
<1>1. PICK v \in Values : ring' = [ring EXCEPT ![TransferIndex(size)] = v]
  BY Zenon DEF PushHot
<1>2. size < Capacity /\ size' = size + 1 /\ begin' = begin /\ size \in Nat
  BY DEF PushHot, RingTypeOK
<1>3. /\ Content \in Seq(Values) /\ Len(Content) = size
      /\ \A i \in 1 .. size : Content[i] = ring[TransferIndex(i - 1)]
  BY ContentSeq, Zenon DEF ContentIsSeq
<1>4. Content' \in Seq(Values) /\ Len(Content') = size'
      /\ \A i \in 1 .. size' : Content'[i] = ring'[TransferIndex(i - 1)']
  <2>1. (RingTypeOK => ContentIsSeq)'
    BY ContentSeq, PTL
  <2> QED BY <2>1, Zenon DEF ContentIsSeq
<1>5. \A o \in 0 .. Capacity - 1 : TransferIndex(o)' = TransferIndex(o)
  BY <1>2, Zenon DEF TransferIndex
<1>6. ASSUME NEW i \in 1 .. size + 1 PROVE Content'[i] = Append(Content, v)[i]
  <2>1. i - 1 \in 0 .. Capacity - 1 /\ size \in 0 .. Capacity - 1
    BY <1>2, RingAssumption DEF RingTypeOK
  <2>2. Content'[i] = ring'[TransferIndex(i - 1)]
    BY <1>2, <1>4, <1>5, <2>1, Zenon
  <2>3. TransferIndex(i - 1) \in 0 .. Capacity - 1 /\ TransferIndex(size) \in 0 .. Capacity - 1
    BY <2>1, IndexInRange, ZenonT(60)
  <2>4. CASE i = size + 1
    BY <1>1, <1>2, <1>3, <2>2, <2>3, <2>4, SMTT(30) DEF RingTypeOK
  <2>5. CASE i # size + 1
    <3>1. TransferIndex(i - 1) # TransferIndex(size)
      BY <1>2, <2>1, <2>5, IndexInjective
    <3>2. ring'[TransferIndex(i - 1)] = ring[TransferIndex(i - 1)]
      BY <1>1, <2>3, <3>1, ZenonT(60) DEF RingTypeOK
    <3>3. i \in 1 .. size
      BY <1>2, <2>5
    <3> QED BY <1>3, <2>2, <3>2, <3>3
  <2> QED BY <2>4, <2>5, Zenon
<1>7. Append(Content, v) \in Seq(Values) /\ Len(Append(Content, v)) = size + 1
  BY <1>3
<1>8. Content' = Append(Content, v)
  BY <1>2, <1>4, <1>6, <1>7, SameElements, Zenon
<1> QED BY <1>2, <1>3, <1>8, Zenon DEF Sequence!PushBack

\* Logical offsets of the new state are those of the old one, cold later.
Shifted(cold) ==
    \A o \in 0 .. size' - 1 : TransferIndex(o)' = TransferIndex(cold + o)

\* What remains of the content after `cold' pointers left at the cold end and
\* the hot end was cut to the new size.
LEMMA RemainingContent ==
    ASSUME RingTypeOK, RingTypeOK', NEW cold \in Nat, NEW n \in Nat, cold + n <= size,
           size' = n, UNCHANGED ring, Shifted(cold)
    PROVE  Content' = SubSeq(Content, cold + 1, cold + n)
<1>1. size \in Nat
  BY RingAssumption DEF RingTypeOK
<1>2. /\ Content \in Seq(Values) /\ Len(Content) = size
      /\ \A i \in 1 .. size : Content[i] = ring[TransferIndex(i - 1)]
  BY ContentSeq, Zenon DEF ContentIsSeq
<1>3. Content' \in Seq(Values) /\ Len(Content') = n
      /\ \A i \in 1 .. n : Content'[i] = ring[TransferIndex(i - 1)']
  <2>1. (RingTypeOK => ContentIsSeq)'
    BY ContentSeq, PTL
  <2> QED BY <2>1, Zenon DEF ContentIsSeq
<1> DEFINE rest == SubSeq(Content, cold + 1, cold + n)
<1>4. \A i \in cold + 1 .. cold + n : Content[i] \in Values
  BY <1>1, <1>2
<1>5. /\ rest \in Seq(Values) /\ Len(rest) = n
      /\ \A i \in 1 .. n : rest[i] = Content[cold + i]
  <2> DEFINE first == cold + 1
             last == cold + n
  <2>1. first \in Int /\ last \in Int /\ \A i \in first .. last : Content[i] \in Values
    BY <1>4
  <2>2. last - first + 1 = n /\ (first <= last <=> n > 0)
        /\ \A i \in 1 .. n : first + i - 1 = cold + i
    OBVIOUS
  <2> HIDE DEF first, last
  <2>3. /\ SubSeq(Content, first, last) \in Seq(Values)
        /\ Len(SubSeq(Content, first, last)) = IF first <= last THEN last - first + 1 ELSE 0
        /\ \A i \in 1 .. last - first + 1 :
             SubSeq(Content, first, last)[i] = Content[first + i - 1]
    BY <2>1
  <2> QED BY <2>2, <2>3 DEF first, last
<1> HIDE DEF rest
<1>6. ASSUME NEW i \in 1 .. n PROVE Content'[i] = rest[i]
  <2>1. i - 1 \in 0 .. n - 1 /\ cold + i \in 1 .. size /\ cold + (i - 1) = cold + i - 1
    BY <1>1
  <2>2. TransferIndex(i - 1)' = TransferIndex(cold + i - 1)
    BY <2>1, Zenon DEF Shifted
  <2>3. Content[cold + i] = ring[TransferIndex(cold + i - 1)]
    BY <1>2, <2>1
  <2> QED BY <1>3, <1>5, <2>2, <2>3, Zenon
<1>7. Content' = rest
  BY <1>3, <1>5, <1>6, SameElements, Zenon
<1> QED BY <1>7, Zenon DEF rest

\* The circular array implements the sequence: a push appends, a pop takes the
\* hottest pointer, and a drain removes the coldest ones and leaves the order
\* of the others (FetchBatch, ReleaseBatch, DrainTransferCaches).
THEOREM RingRefinement == RingSpec => IsDeque
<1>1. RingInit => Sequence!Init
  <2> SUFFICES ASSUME RingInit PROVE Content = <<>>
    BY Zenon DEF Sequence!Init
  <2>1. RingTypeOK /\ size = 0
    BY InitType, Zenon DEF RingInit
  <2>2. Content \in Seq(Values) /\ Len(Content) = 0
    BY <2>1, ContentSeq, Zenon DEF ContentIsSeq
  <2> QED BY <2>2
<1>2. RingTypeOK /\ RingTypeOK' /\ [RingNext]_ringVars => [Sequence!Next]_Content
  <2> SUFFICES ASSUME RingTypeOK, RingTypeOK', [RingNext]_ringVars PROVE [Sequence!Next]_Content
    BY Zenon
  <2>0. Len(Content) = size /\ size \in Nat
    BY ContentSeq DEF ContentIsSeq, RingTypeOK
  <2>1. CASE PushHot
    BY <2>1, PushAppends, Zenon DEF Sequence!Next
  <2>2. CASE PopHot
    <3>1. UNCHANGED ring /\ size' = size - 1 /\ size > 0 /\ size - 1 \in Nat /\ 0 \in Nat
          /\ 0 + (size - 1) <= size
      BY <2>0, <2>2 DEF PopHot
    <3>2. Shifted(0)
      BY <2>0, <2>2 DEF PopHot, Shifted, TransferIndex
    <3>3. Content' = SubSeq(Content, 0 + 1, 0 + (size - 1))
      BY <3>1, <3>2, RemainingContent, Zenon
    <3>4. 0 + 1 = 1 /\ 0 + (size - 1) = Len(Content) - 1
      BY <2>0, <3>1
    <3>5. Content' = SubSeq(Content, 1, Len(Content) - 1)
      BY <3>3, <3>4, Zenon
    <3> QED BY <2>0, <3>1, <3>5, Zenon DEF Sequence!PopBack, Sequence!Next
  <2>3. ASSUME NEW detached \in 1 .. size, Detach(detached) PROVE Sequence!Next
    <3>1. detached \in Nat /\ UNCHANGED ring /\ size - detached \in Nat
          /\ size' = size - detached /\ detached + (size - detached) <= size
      BY <2>0, <2>3 DEF Detach
    <3>2. Shifted(detached)
      <4> SUFFICES ASSUME NEW o \in 0 .. size' - 1
                   PROVE  TransferIndex(o)' = TransferIndex(detached + o)
        BY Zenon DEF Shifted
      <4>1. detached + o < Capacity /\ o \in Nat /\ begin \in Nat /\ begin < Capacity
            /\ detached \in Nat /\ detached < Capacity
        BY <2>0, <3>1, RingAssumption DEF RingTypeOK
      <4>2. begin' = TransferIndex(detached)
        BY <2>3, <4>1 DEF Detach
      <4> QED BY <4>1, <4>2, RingAssumption DEF TransferIndex
    <3>3. Content' = SubSeq(Content, detached + 1, detached + (size - detached))
      BY <3>1, <3>2, RemainingContent, Zenon
    <3>4. detached + (size - detached) = Len(Content) /\ detached \in 1 .. Len(Content)
      BY <2>0, <3>1
    <3>5. Content' = SubSeq(Content, detached + 1, Len(Content))
      BY <3>3, <3>4, Zenon
    <3> QED BY <3>4, <3>5, Zenon DEF Sequence!DropFront, Sequence!Next
  <2>4. CASE UNCHANGED ringVars
    BY <2>4, ZenonT(60) DEF ringVars, Content, TransferIndex
  <2> QED BY <2>1, <2>2, <2>3, <2>4, Zenon DEF RingNext
<1> QED BY <1>1, <1>2, RingInBounds, PTL DEF RingSpec, IsDeque, Sequence!Spec


USE WordAssumption, CapacityAssumption

-----------------------------------------------------------------------------
(* Arithmetic of bitmap words *)

\* Euclidean division by the word width.
LEMMA DivMod ==
    ASSUME NEW x \in Nat
    PROVE  /\ BitmapIdx(x) \in Nat
           /\ x % WordBits \in 0 .. WordBits - 1
           /\ x = WordBits * BitmapIdx(x) + (x % WordBits)
  BY Z3 DEF BitmapIdx

LEMMA TimesMonotonic ==
    ASSUME NEW a \in Nat, NEW b \in Nat, a <= b
    PROVE  WordBits * a <= WordBits * b
  BY Z3

\* A higher slot never lies in a lower bitmap word.
LEMMA BitmapIdxMonotonic ==
    ASSUME NEW x \in Nat, NEW y \in Nat, x <= y
    PROVE  BitmapIdx(x) <= BitmapIdx(y)
<1>1. PICK i \in Nat, r \in 0 .. WordBits - 1 : i = BitmapIdx(x) /\ x = WordBits * i + r
  BY DivMod, Zenon
<1>2. PICK j \in Nat, t \in 0 .. WordBits - 1 : j = BitmapIdx(y) /\ y = WordBits * j + t
  BY DivMod, Zenon
<1>3. SUFFICES ASSUME j + 1 <= i PROVE FALSE
  BY <1>1, <1>2
<1>4. WordBits * (j + 1) <= WordBits * i
  BY <1>3, TimesMonotonic
<1>5. WordBits * (j + 1) = WordBits * j + WordBits
  OBVIOUS
<1> QED
  BY <1>1, <1>2, <1>4, <1>5

\* Every slot of a span lies in a word that AllocObject's loop bound admits.
LEMMA BitmapCoversSlots ==
    ASSUME NEW c \in Nat \ {0}, NEW x \in 0 .. c - 1
    PROVE  BitmapIdx(x) <= (c + WordBits - 1) \div WordBits - 1
<1>1. PICK i \in Nat, r \in 0 .. WordBits - 1 : i = BitmapIdx(x) /\ x = WordBits * i + r
  BY DivMod, x \in Nat, Zenon
<1>2. PICK n \in Nat, t \in 0 .. WordBits - 1 :
         n = (c + WordBits - 1) \div WordBits /\ c + WordBits - 1 = WordBits * n + t
  BY DivMod, c + WordBits - 1 \in Nat, Zenon DEF BitmapIdx
<1>3. SUFFICES ASSUME n <= i PROVE FALSE
  BY <1>1, <1>2
<1>4. WordBits * n <= WordBits * i
  BY <1>3, TimesMonotonic, Zenon
<1> QED
  BY <1>1, <1>2, <1>4

\* Min of a non-empty set of naturals is its least element.
LEMMA MinNat ==
    ASSUME NEW S \in SUBSET Nat, S # {}
    PROVE  Min(S) \in S /\ \A y \in S : Min(S) <= y
<1> DEFINE R == {ss \in Nat \X Nat : ss[1] < ss[2]}
<1>1. IsWellFoundedOn(R, Nat)
  BY NatLessThanWellFounded, Zenon DEF OpToRel
<1>2. PICK x \in S : \A y \in S : ~ (<<y, x>> \in R)
  <2> HIDE DEF R
  <2> QED BY <1>1, WFMin, Zenon
<1>3. ASSUME NEW y \in S, y < x PROVE FALSE
  <2>1. <<y, x>> \in Nat \X Nat /\ <<y, x>>[1] < <<y, x>>[2]
    BY <1>3, Zenon
  <2> QED BY <2>1, <1>2, Zenon
<1>4. \A y \in S : x <= y
  BY <1>3
<1> QED
  BY <1>4, Zenon DEF Min

LEMMA SlotsFinite ==
    ASSUME NEW c \in Nat \ {0}
    PROVE  IsFiniteSet(0 .. c - 1) /\ Cardinality(0 .. c - 1) = c
<1> DEFINE d == c - 1
<1>1. d \in Int /\ 0 \in Int /\ ~(0 > d) /\ d - 0 + 1 = c
  OBVIOUS
<1> HIDE DEF d
<1>2. IsFiniteSet(0 .. d) /\ Cardinality(0 .. d) = c
  BY <1>1, FS_Interval, Zenon
<1> QED
  BY <1>2, Zenon DEF d

-----------------------------------------------------------------------------
(* The inductive invariant *)

LEMMA InitInv == SpanInit => SpanInv
<1> SUFFICES ASSUME SpanInit PROVE SpanInv
  BY Zenon
<1>1. PICK c \in Capacities : sp = InitSpan(c) /\ out = {}
  BY Zenon DEF SpanInit
<1>2. SpanTypeOK
  BY <1>1 DEF SpanTypeOK, InitSpan
<1>3. CountExact
  BY <1>1, FS_EmptySet, Zenon DEF CountExact, InitSpan, Slots
<1>4. CursorInv
  BY <1>1, DivMod DEF CursorInv, InitSpan
<1> QED
  BY <1>2, <1>3, <1>4, Zenon DEF SpanInv

\* Under the invariant AllocObject's scan sees every free slot.
LEMMA ScannedIsBitmap == SpanInv => Scanned(sp) = sp.bitmap
<1> SUFFICES ASSUME SpanInv, NEW x \in sp.bitmap
             PROVE  BitmapIdx(x) \in sp.scan_cursor .. GetBitmapNum(sp) - 1
  BY Zenon DEF Scanned
<1>1. /\ sp.capacity \in Nat \ {0} /\ x \in 0 .. sp.capacity - 1
      /\ sp.scan_cursor \in Nat /\ sp.scan_cursor <= BitmapIdx(x)
  BY Zenon DEF SpanInv, SpanTypeOK, CountExact, CursorInv, Slots
<1>2. BitmapIdx(x) <= GetBitmapNum(sp) - 1
  BY <1>1, BitmapCoversSlots, Zenon DEF GetBitmapNum
<1>3. BitmapIdx(x) \in Nat
  BY <1>1, DivMod, x \in Nat, Zenon
<1>4. GetBitmapNum(sp) \in Int
  BY <1>1, Z3 DEF GetBitmapNum
<1> QED
  BY <1>1, <1>2, <1>3, <1>4

\* Under the invariant IsFull says that no slot is free.
LEMMA FullIffEmptyBitmap == SpanInv => (IsFull(sp) <=> sp.bitmap = {})
<1> SUFFICES ASSUME SpanInv PROVE IsFull(sp) <=> sp.bitmap = {}
  BY Zenon
<1>1. /\ sp.capacity \in Nat \ {0} /\ sp.use_count = Cardinality(out)
      /\ sp.bitmap \cap out = {} /\ sp.bitmap \cup out = 0 .. sp.capacity - 1
  BY Zenon DEF SpanInv, SpanTypeOK, CountExact, Slots
<1>2. IsFiniteSet(0 .. sp.capacity - 1) /\ Cardinality(0 .. sp.capacity - 1) = sp.capacity
  BY <1>1, SlotsFinite, Zenon
<1>3. IsFiniteSet(out) /\ Cardinality(out) \in Nat
  BY <1>1, <1>2, FS_Subset, FS_CardinalityType, ZenonT(60)
<1>4. CASE sp.bitmap = {}
  BY <1>1, <1>2, <1>4, SMTT(30) DEF IsFull
<1>5. CASE sp.bitmap # {}
  <2> DEFINE all == 0 .. sp.capacity - 1
  <2>1. out \in SUBSET all /\ out # all
    BY <1>1, <1>5, Zenon
  <2> HIDE DEF all
  <2>2. Cardinality(out) <= Cardinality(all) /\ Cardinality(out) # Cardinality(all)
    BY <2>1, <1>2, FS_Subset, ZenonT(60) DEF all
  <2> QED
    BY <2>2, <1>1, <1>2, <1>3, <1>5 DEF IsFull, all
<1> QED
  BY <1>4, <1>5, Zenon

\* What AllocObject returns under the invariant.
LEMMA AllocSlotIsLowest ==
    ASSUME SpanInv
    PROVE  /\ sp.bitmap = {} => AllocSlot(sp) = NoSlot
           /\ sp.bitmap # {} => /\ AllocSlot(sp) \in sp.bitmap
                                /\ \A y \in sp.bitmap : AllocSlot(sp) <= y
<1>1. sp.bitmap \in SUBSET Nat
  BY Zenon DEF SpanInv, SpanTypeOK
<1>2. ASSUME sp.bitmap # {}
      PROVE  AllocSlot(sp) = Min(sp.bitmap)
  BY <1>2, ScannedIsBitmap, FullIffEmptyBitmap, Zenon DEF AllocSlot
<1> QED
  BY <1>1, <1>2, MinNat, ScannedIsBitmap DEF AllocSlot

LEMMA AllocInv == SpanInv /\ SpanAlloc => SpanInv'
<1> SUFFICES ASSUME SpanInv, SpanAlloc PROVE SpanInv'
  BY Zenon
<1> DEFINE x == AllocSlot(sp)
           i == BitmapIdx(x)
           rest == sp.bitmap \ {x}
           cursor == IF \E y \in rest : BitmapIdx(y) = i THEN i ELSE i + 1
<1>1. sp.bitmap # {} /\ x \in sp.bitmap /\ \A y \in sp.bitmap : x <= y
  BY AllocSlotIsLowest, Zenon DEF SpanAlloc
<1>2. /\ sp.bitmap \subseteq Nat /\ x \in Nat /\ x \notin out
      /\ sp \in [capacity: Capacities, use_count: Nat, scan_cursor: Nat, bitmap: SUBSET Nat]
  BY <1>1, Zenon DEF SpanInv, SpanTypeOK, CountExact
<1>3. /\ sp'.capacity = sp.capacity /\ sp'.use_count = sp.use_count + 1
      /\ sp'.bitmap = rest /\ sp'.scan_cursor = cursor
      /\ sp' = [capacity |-> sp.capacity, use_count |-> sp.use_count + 1,
                scan_cursor |-> cursor, bitmap |-> rest]
      /\ out' = out \cup {x}
  BY <1>2, Zenon DEF SpanAlloc, AllocObject
<1>4. i \in Nat /\ cursor \in Nat
  <2>1. i \in Nat
    BY <1>2, DivMod, Zenon
  <2>2. i + 1 \in Nat
    BY <2>1
  <2> QED BY <2>1, <2>2, Zenon
<1>5. SpanTypeOK'
  <2> HIDE DEF x, cursor, i
  <2> QED BY <1>2, <1>3, <1>4 DEF SpanTypeOK, SpanInv
<1>6. CountExact'
  <2>1. IsFiniteSet(out)
    BY <1>2, SlotsFinite, FS_Subset, Zenon DEF SpanInv, CountExact, Slots
  <2>2. Cardinality(out \cup {x}) = Cardinality(out) + 1
    BY <2>1, <1>2, FS_AddElement, ZenonT(60)
  <2> HIDE DEF x, cursor, i
  <2> QED
    BY <2>2, <1>1, <1>2, <1>3, ZenonT(60) DEF CountExact, SpanInv, Slots
<1>7. CursorInv'
  <2> SUFFICES ASSUME NEW y \in rest PROVE cursor <= BitmapIdx(y)
    BY <1>3, Zenon DEF CursorInv
  <2>1. y \in Nat /\ x <= y /\ BitmapIdx(y) \in Nat
    BY <1>1, <1>2, DivMod, Zenon
  <2>2. i <= BitmapIdx(y)
    BY <2>1, <1>2, BitmapIdxMonotonic, Zenon
  <2> HIDE DEF x, i
  <2> QED
    BY <2>1, <2>2, <1>4
<1> QED
  BY <1>5, <1>6, <1>7, Zenon DEF SpanInv

LEMMA FreeInv == SpanInv /\ SpanFree => SpanInv'
<1> SUFFICES ASSUME SpanInv, NEW x \in out, sp' = FreeObject(sp, x), out' = out \ {x}
             PROVE  SpanInv'
  BY Zenon DEF SpanFree
<1> DEFINE cursor == IF BitmapIdx(x) < sp.scan_cursor THEN BitmapIdx(x) ELSE sp.scan_cursor
<1>1. /\ sp \in [capacity: Capacities, use_count: Nat, scan_cursor: Nat, bitmap: SUBSET Nat]
      /\ x \in Nat /\ x \notin sp.bitmap /\ BitmapIdx(x) \in Nat
  BY DivMod, Zenon DEF SpanInv, SpanTypeOK, CountExact
<1>2. /\ sp'.capacity = sp.capacity /\ sp'.use_count = sp.use_count - 1
      /\ sp'.bitmap = sp.bitmap \cup {x} /\ sp'.scan_cursor = cursor
      /\ sp' = [capacity |-> sp.capacity, use_count |-> sp.use_count - 1,
                scan_cursor |-> cursor, bitmap |-> sp.bitmap \cup {x}]
  BY <1>1, Zenon DEF FreeObject
<1>3. IsFiniteSet(out)
  BY <1>1, SlotsFinite, FS_Subset, Zenon DEF SpanInv, CountExact, Slots
<1>4. Cardinality(out \ {x}) = Cardinality(out) - 1 /\ Cardinality(out \ {x}) \in Nat
  BY <1>3, FS_RemoveElement, FS_CardinalityType, Zenon
<1>5. SpanTypeOK'
  <2>1. cursor \in Nat /\ sp.use_count - 1 \in Nat
    BY <1>1, <1>4, ZenonT(60) DEF SpanInv, CountExact
  <2> HIDE DEF cursor
  <2> QED BY <2>1, <1>1, <1>2, Zenon DEF SpanTypeOK, SpanInv
<1>6. CountExact'
  BY <1>1, <1>2, <1>4 DEF CountExact, SpanInv, Slots
<1>7. CursorInv'
  <2> SUFFICES ASSUME NEW y \in sp.bitmap \cup {x} PROVE cursor <= BitmapIdx(y)
    BY <1>2, Zenon DEF CursorInv
  <2>1. y \in Nat /\ BitmapIdx(y) \in Nat
    BY <1>1, DivMod, Zenon
  <2> QED
    BY <2>1, <1>1 DEF SpanInv, CursorInv
<1> QED
  BY <1>5, <1>6, <1>7, Zenon DEF SpanInv

LEMMA NextInv == SpanInv /\ [SpanNext]_spanVars => SpanInv'
<1> SUFFICES ASSUME SpanInv, [SpanNext]_spanVars PROVE SpanInv'
  BY Zenon
<1>1. CASE SpanAlloc
  BY <1>1, AllocInv, Zenon
<1>2. CASE SpanFree
  BY <1>2, FreeInv, Zenon
<1>3. CASE UNCHANGED spanVars
  BY <1>3, Zenon DEF spanVars, SpanInv, SpanTypeOK, CountExact, CursorInv, Slots, BitmapIdx
<1> QED
  BY <1>1, <1>2, <1>3, Zenon DEF SpanNext, SpanAllocNull

-----------------------------------------------------------------------------
(* Theorems *)

\* The inductive invariant holds: Span's fields keep their types, use_count
\* counts the objects out, and no free bit lies below scan_cursor.
THEOREM Invariance == SpanSpec => []SpanInv
  BY InitInv, NextInv, PTL DEF SpanSpec

\* use_count equals the number of slots AllocObject has handed out, and bitmap
\* and handed-out slots partition the span.
THEOREM CountIsExact == SpanSpec => []CountExact
<1>1. SpanInv => CountExact
  BY Zenon DEF SpanInv
<1> QED
  BY <1>1, Invariance, PTL

\* AllocObject returns null only when every slot is out: scan_cursor never
\* hides a free slot.
THEOREM CursorHidesNothing == SpanSpec => []NullOnlyWhenFull
<1>1. ASSUME SpanInv PROVE NullOnlyWhenFull
  <2>1. CASE sp.bitmap = {}
    BY <1>1, <2>1, Zenon DEF NullOnlyWhenFull, SpanInv, CountExact
  <2>2. CASE sp.bitmap # {}
    <3>1. AllocSlot(sp) \in Nat
      BY <1>1, <2>2, AllocSlotIsLowest, Zenon DEF SpanInv, SpanTypeOK
    <3> QED BY <3>1 DEF NullOnlyWhenFull, NoSlot
  <2> QED BY <2>1, <2>2, Zenon
<1> QED
  BY <1>1, Invariance, PTL

\* A Span implements the lowest-slot-first allocator SlotAllocator.
THEOREM SpanRefinement == SpanSpec => LowestFirst
<1>1. SpanInit => Slot!Init
  <2> SUFFICES ASSUME SpanInit PROVE Slot!Init
    BY Zenon
  <2>1. SpanInv /\ out = {}
    BY InitInv, Zenon DEF SpanInit
  <2> QED BY <2>1, Zenon DEF Slot!Init, SpanInv, SpanTypeOK
<1>2. SpanInv /\ [SpanNext]_spanVars => [Slot!Take \/ Slot!Give]_<<sp.bitmap, out>>
  <2> SUFFICES ASSUME SpanInv, [SpanNext]_spanVars
               PROVE  [Slot!Take \/ Slot!Give]_<<sp.bitmap, out>>
    BY Zenon
  <2>1. sp \in [capacity: Capacities, use_count: Nat, scan_cursor: Nat, bitmap: SUBSET Nat]
    BY Zenon DEF SpanInv, SpanTypeOK
  <2>2. CASE SpanAlloc
    <3>1. /\ AllocSlot(sp) \in sp.bitmap /\ \A y \in sp.bitmap : AllocSlot(sp) <= y
      BY <2>2, AllocSlotIsLowest, Zenon DEF SpanAlloc
    <3>2. sp'.bitmap = sp.bitmap \ {AllocSlot(sp)} /\ out' = out \cup {AllocSlot(sp)}
      BY <2>1, <2>2, Zenon DEF SpanAlloc, AllocObject
    <3>3. Slot!Take
      BY <3>1, <3>2, Zenon DEF Slot!Take, Slot!IsLowest
    <3> QED BY <3>3, Zenon
  <2>3. CASE SpanFree
    <3>1. PICK x \in out : sp' = FreeObject(sp, x) /\ out' = out \ {x}
      BY <2>3, Zenon DEF SpanFree
    <3>2. sp'.bitmap = sp.bitmap \cup {x}
      BY <2>1, <3>1, Zenon DEF FreeObject
    <3>3. Slot!Give
      BY <3>1, <3>2, Zenon DEF Slot!Give
    <3> QED BY <3>3, Zenon
  <2>4. CASE UNCHANGED spanVars
    BY <2>4, Zenon DEF spanVars
  <2> QED
    BY <2>2, <2>3, <2>4, Zenon DEF SpanNext, SpanAllocNull
<1> QED
  BY <1>1, <1>2, Invariance, PTL DEF SpanSpec, LowestFirst, Slot!Spec

-----------------------------------------------------------------------------
(* The doubly linked list of spans *)

ListInv == SpanListTypeOK /\ LinksMutual

\* The nodes of the list, the sentinel included.
Ring == Linked \cup {Sentinel}

LEMMA RingNodes == Ring \subseteq Nodes /\ NoSpan \notin Ring
  BY ListAssumption, Zenon DEF Ring, Linked, Nodes

LEMMA SpanListInitInv == SpanListInit => ListInv
  BY ListAssumption, Zenon DEF SpanListInit, ListInv, SpanListTypeOK, LinksMutual, Linked, Nodes

\* insert(pos, s) hangs an unlinked span between pos and its predecessor.
LEMMA InsertInv ==
    ASSUME ListInv, NEW pos \in Ring, NEW s \in Members \ Linked, insert(pos, s)
    PROVE  ListInv'
<1>1. /\ pos \in Nodes /\ s \in Nodes /\ s # Sentinel /\ s \notin Ring
      /\ bwd[pos] \in Ring /\ fwd[bwd[pos]] = pos
  BY ListAssumption, Zenon DEF ListInv, LinksMutual, Ring, Linked, Nodes
<1>2. bwd[pos] \in Nodes
  BY <1>1, RingNodes, Zenon
<1>3. SpanListTypeOK'
  BY <1>1, <1>2, Zenon DEF ListInv, SpanListTypeOK, insert
<1>4. \A n \in Nodes : /\ fwd'[n] = IF n = bwd[pos] THEN s ELSE IF n = s THEN pos ELSE fwd[n]
                       /\ bwd'[n] = IF n = pos THEN s ELSE IF n = s THEN bwd[pos] ELSE bwd[n]
  BY <1>1, <1>2, ZenonT(60) DEF ListInv, SpanListTypeOK, insert
<1>5. Ring' = Ring \cup {s}
  <2>1. s # NoSpan /\ bwd[pos] # NoSpan
    BY <1>1, <1>2, ListAssumption, Zenon DEF Nodes
  <2>2. ASSUME NEW n \in Members PROVE n \in Linked' <=> n \in Linked \/ n = s
    <3>1. n \in Nodes /\ n # Sentinel
      BY ListAssumption, Zenon DEF Nodes
    <3>2. CASE n = pos
      BY <1>1, <1>4, <2>1, <3>1, <3>2, Zenon DEF Ring, Linked
    <3>3. CASE n # pos /\ n = s
      BY <1>4, <2>1, <3>1, <3>3, Zenon DEF Linked
    <3>4. CASE n # pos /\ n # s
      BY <1>4, <3>1, <3>4, Zenon DEF Linked
    <3> QED BY <3>2, <3>3, <3>4, Zenon
  <2> QED BY <2>2, Zenon DEF Ring, Linked
<1>6. \A n \in Ring : /\ fwd[n] \in Ring /\ bwd[fwd[n]] = n
                      /\ bwd[n] \in Ring /\ fwd[bwd[n]] = n
  BY Zenon DEF ListInv, LinksMutual, Ring
<1>7. ASSUME NEW n \in Ring'
      PROVE  /\ fwd'[n] \in Ring' /\ bwd'[fwd'[n]] = n
             /\ bwd'[n] \in Ring' /\ fwd'[bwd'[n]] = n
  <2>1. CASE n = s
    BY <2>1, <1>1, <1>2, <1>4, <1>5, ZenonT(60)
  <2>2. CASE n # s
    <3>1. /\ n \in Ring /\ n \in Nodes /\ fwd[n] \in Ring /\ fwd[n] \in Nodes
          /\ bwd[n] \in Ring /\ bwd[n] \in Nodes
      BY <2>2, <1>5, <1>6, RingNodes, Zenon
    <3>2. s # pos /\ s # bwd[pos] /\ s # fwd[n] /\ s # bwd[n]
      BY <3>1, <1>1, Zenon
    <3>3. ASSUME n = bwd[pos] PROVE fwd'[n] \in Ring' /\ bwd'[fwd'[n]] = n
      <4>1. fwd'[n] = s /\ bwd'[s] = n
        BY <3>1, <3>2, <3>3, <1>1, <1>4, Zenon
      <4> QED BY <4>1, <1>5, Zenon
    <3>4. ASSUME n # bwd[pos] PROVE fwd'[n] \in Ring' /\ bwd'[fwd'[n]] = n
      <4>1. fwd[n] # pos /\ bwd[fwd[n]] = n
        BY <3>1, <3>4, <1>6, Zenon
      <4>2. fwd'[n] = fwd[n] /\ bwd'[fwd[n]] = n
        BY <4>1, <3>1, <3>2, <3>4, <2>2, <1>4, ZenonT(60)
      <4> QED BY <4>2, <3>1, <1>5, Zenon
    <3>5. ASSUME n = pos PROVE bwd'[n] \in Ring' /\ fwd'[bwd'[n]] = n
      <4>1. bwd'[n] = s /\ fwd'[s] = n
        BY <3>1, <3>2, <3>5, <1>1, <1>4, Zenon
      <4> QED BY <4>1, <1>5, Zenon
    <3>6. ASSUME n # pos PROVE bwd'[n] \in Ring' /\ fwd'[bwd'[n]] = n
      <4>1. bwd[n] # bwd[pos] /\ fwd[bwd[n]] = n
        BY <3>1, <3>6, <1>1, <1>6, Zenon
      <4>2. bwd'[n] = bwd[n] /\ fwd'[bwd[n]] = n
        BY <4>1, <3>1, <3>2, <3>6, <2>2, <1>4, Zenon
      <4> QED BY <4>2, <3>1, <1>5, Zenon
    <3> QED BY <3>3, <3>4, <3>5, <3>6, Zenon
  <2> QED BY <2>1, <2>2, Zenon
<1> QED BY <1>3, <1>7, Zenon DEF ListInv, LinksMutual, Ring

\* erase(s) closes the gap.
LEMMA EraseInv ==
    ASSUME ListInv, NEW s \in Linked, erase(s)
    PROVE  ListInv'
<1>1. /\ s \in Ring /\ s \in Nodes /\ s # Sentinel
      /\ \A n \in Ring : /\ fwd[n] \in Ring /\ bwd[fwd[n]] = n
                         /\ bwd[n] \in Ring /\ fwd[bwd[n]] = n
  BY ListAssumption, Zenon DEF ListInv, LinksMutual, Ring, Linked, Nodes
<1>2. bwd[s] \in Nodes /\ fwd[s] \in Nodes
  BY <1>1, RingNodes, Zenon
<1>3. SpanListTypeOK'
  BY <1>1, <1>2, Zenon DEF ListInv, SpanListTypeOK, erase
<1>4. \A n \in Nodes : /\ fwd'[n] = IF n = s THEN NoSpan ELSE IF n = bwd[s] THEN fwd[s] ELSE fwd[n]
                       /\ bwd'[n] = IF n = s THEN NoSpan ELSE IF n = fwd[s] THEN bwd[s] ELSE bwd[n]
  BY <1>1, <1>2, ZenonT(60) DEF ListInv, SpanListTypeOK, erase
<1>5. Ring' = Ring \ {s}
  <2>1. bwd[s] # NoSpan
    BY <1>2, ListAssumption, Zenon DEF Nodes
  <2>2. ASSUME NEW n \in Members PROVE n \in Linked' <=> n \in Linked /\ n # s
    <3>1. n \in Nodes /\ n # Sentinel
      BY ListAssumption, Zenon DEF Nodes
    <3>2. CASE n = s
      BY <1>4, <3>1, <3>2, Zenon DEF Linked
    <3>3. CASE n # s /\ n = fwd[s]
      <4>1. n \in Linked
        BY <1>1, <3>1, <3>3, Zenon DEF Ring
      <4> QED BY <4>1, <1>4, <2>1, <3>1, <3>3, ZenonT(60) DEF Linked
    <3>4. CASE n # s /\ n # fwd[s]
      BY <1>4, <3>1, <3>4, Zenon DEF Linked
    <3> QED BY <3>2, <3>3, <3>4, Zenon
  <2> QED BY <2>2, <1>1, Zenon DEF Ring, Linked
<1>6. ASSUME NEW n \in Ring'
      PROVE  /\ fwd'[n] \in Ring' /\ bwd'[fwd'[n]] = n
             /\ bwd'[n] \in Ring' /\ fwd'[bwd'[n]] = n
  <2>1. /\ n # s /\ n \in Ring /\ n \in Nodes /\ fwd[n] \in Ring /\ fwd[n] \in Nodes
        /\ bwd[n] \in Ring /\ bwd[n] \in Nodes /\ fwd[s] \in Ring /\ bwd[s] \in Ring
    BY <1>1, <1>5, RingNodes, Zenon
  <2>2. ASSUME n = bwd[s] PROVE fwd'[n] \in Ring' /\ bwd'[fwd'[n]] = n
    <3>1. fwd[s] # s
      BY <2>1, <2>2, <1>1, Zenon
    <3>2. fwd'[n] = fwd[s] /\ bwd'[fwd[s]] = n
      BY <3>1, <2>1, <2>2, <1>2, <1>4, Zenon
    <3> QED BY <3>1, <3>2, <2>1, <1>5, Zenon
  <2>3. ASSUME n # bwd[s] PROVE fwd'[n] \in Ring' /\ bwd'[fwd'[n]] = n
    <3>0. bwd[fwd[n]] = n /\ bwd[fwd[s]] = s
      BY <2>1, <1>1, Zenon
    <3>1. fwd[n] # s /\ fwd[n] # fwd[s]
      BY <3>0, <2>1, <2>3, Zenon
    <3>2. fwd'[n] = fwd[n] /\ bwd'[fwd[n]] = n
      BY <3>0, <3>1, <2>1, <2>3, <1>4, Zenon
    <3> QED BY <3>1, <3>2, <2>1, <1>5, Zenon
  <2>4. ASSUME n = fwd[s] PROVE bwd'[n] \in Ring' /\ fwd'[bwd'[n]] = n
    <3>1. bwd[s] # s
      BY <2>1, <2>4, <1>1, Zenon
    <3>2. bwd'[n] = bwd[s] /\ fwd'[bwd[s]] = n
      BY <3>1, <2>1, <2>4, <1>2, <1>4, Zenon
    <3> QED BY <3>1, <3>2, <2>1, <1>5, Zenon
  <2>5. ASSUME n # fwd[s] PROVE bwd'[n] \in Ring' /\ fwd'[bwd'[n]] = n
    <3>0. fwd[bwd[n]] = n /\ fwd[bwd[s]] = s
      BY <2>1, <1>1, Zenon
    <3>1. bwd[n] # s /\ bwd[n] # bwd[s]
      BY <3>0, <2>1, <2>5, Zenon
    <3>2. bwd'[n] = bwd[n] /\ fwd'[bwd[n]] = n
      BY <3>0, <3>1, <2>1, <2>5, <1>4, Zenon
    <3> QED BY <3>1, <3>2, <2>1, <1>5, Zenon
  <2> QED BY <2>2, <2>3, <2>4, <2>5, Zenon
<1> QED BY <1>3, <1>6, Zenon DEF ListInv, LinksMutual, Ring

LEMMA SpanListStepInv == ListInv /\ [SpanListNext]_spanListVars => ListInv'
<1> SUFFICES ASSUME ListInv, [SpanListNext]_spanListVars PROVE ListInv'
  BY Zenon
<1>1. fwd[Sentinel] \in Ring /\ Sentinel \in Ring
  BY Zenon DEF ListInv, LinksMutual, Ring
<1>2. CASE push_front
  BY <1>2, <1>1, InsertInv, Zenon DEF push_front
<1>3. CASE push_back
  BY <1>3, <1>1, InsertInv, Zenon DEF push_back
<1>4. CASE pop_front
  BY <1>4, <1>1, EraseInv, Zenon DEF pop_front, Ring
<1>5. CASE \E s \in Linked : erase(s)
  BY <1>5, EraseInv, Zenon
<1>6. CASE Collect
  <2>1. PICK s \in Members \ Linked, t \in (Members \cup {NoSpan}) \ Linked :
          fwd' = [fwd EXCEPT ![s] = t] /\ bwd' = bwd
    BY <1>6, Zenon DEF Collect
  <2>2. SpanListTypeOK' /\ Linked' = Linked
    BY <2>1, Zenon DEF ListInv, SpanListTypeOK, Linked, Nodes
  <2>3. \A n \in Linked \cup {Sentinel} : fwd'[n] = fwd[n]
    BY <2>1, ListAssumption, Zenon DEF ListInv, SpanListTypeOK, Linked, Nodes
  <2> QED BY <2>1, <2>2, <2>3, Zenon DEF ListInv, LinksMutual
<1>7. CASE UNCHANGED spanListVars
  BY <1>7, Zenon DEF spanListVars, ListInv, SpanListTypeOK, LinksMutual, Linked
<1> QED BY <1>2, <1>3, <1>4, <1>5, <1>6, <1>7, ZenonT(60) DEF SpanListNext

\* Whatever order spans are inserted at either end, erased from the middle and
\* popped, and however a caller reuses the next link of a span it has taken
\* out, the links of the list's nodes stay mutual: insert and erase never
\* follow or overwrite a link that leaves the list.
THEOREM LinksStayMutual == SpanListSpec => []LinksMutual
<1>1. ListInv => LinksMutual
  BY Zenon DEF ListInv
<1> QED BY SpanListInitInv, SpanListStepInv, <1>1, PTL DEF SpanListSpec
=============================================================================
