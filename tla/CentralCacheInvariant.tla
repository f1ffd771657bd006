------------------------ MODULE CentralCacheInvariant ------------------------
(***************************************************************************)
(* The inductive invariant of one bucket of CentralCache, for any number of *)
(* threads, spans and objects per span, any batch bound and any capacity of *)
(* the TransferCache, and that every step of a thread keeps it.  Module     *)
(* CentralCacheProofs draws the conclusions.                                *)
(***************************************************************************)
EXTENDS CentralCache, TLAPS

-----------------------------------------------------------------------------
(* Sequences *)

LEMMA SeqShape ==
    ASSUME NEW T, NEW s \in Seq(T)
    PROVE  Len(s) \in Nat /\ s \in [1 .. Len(s) -> T] /\ DOMAIN s = 1 .. Len(s)
OBVIOUS

LEMMA SeqMake ==
    ASSUME NEW T, NEW n \in Nat, NEW s \in [1 .. n -> T]
    PROVE  s \in Seq(T) /\ Len(s) = n
OBVIOUS

LEMMA SeqEmpty == ASSUME NEW T PROVE <<>> \in Seq(T) /\ \A s \in Seq(T) : s = <<>> <=> Len(s) = 0
OBVIOUS

LEMMA SeqWider == ASSUME NEW T, NEW U, T \subseteq U, NEW s \in Seq(T) PROVE s \in Seq(U)
OBVIOUS

LEMMA SeqJoin ==
    ASSUME NEW T, NEW a \in Seq(T), NEW b \in Seq(T)
    PROVE  /\ a \o b \in Seq(T) /\ Len(a \o b) = Len(a) + Len(b)
           /\ \A i \in 1 .. Len(a) + Len(b) : (a \o b)[i] = IF i <= Len(a) THEN a[i] ELSE b[i - Len(a)]
OBVIOUS

LEMMA SeqPiece ==
    ASSUME NEW T, NEW s, NEW m \in Int, NEW n \in Int, \A i \in m .. n : s[i] \in T
    PROVE  /\ SubSeq(s, m, n) \in Seq(T) /\ Len(SubSeq(s, m, n)) = (IF m <= n THEN n - m + 1 ELSE 0)
           /\ \A i \in 1 .. n - m + 1 : SubSeq(s, m, n)[i] = s[m + i - 1]
OBVIOUS

LEMMA SeqAppend ==
    ASSUME NEW T, NEW s \in Seq(T), NEW x \in T
    PROVE  /\ Append(s, x) = s \o <<x>> /\ Len(Append(s, x)) = Len(s) + 1
           /\ \A i \in 1 .. Len(s) : Append(s, x)[i] = s[i]
           /\ Append(s, x)[Len(s) + 1] = x
OBVIOUS

LEMMA SeqTail ==
    ASSUME NEW T, NEW s \in Seq(T), s # <<>>
    PROVE  /\ Head(s) \in T /\ Tail(s) \in Seq(T) /\ Len(Tail(s)) = Len(s) - 1
           /\ \A i \in 1 .. Len(Tail(s)) : Tail(s)[i] = s[i + 1]
OBVIOUS

-----------------------------------------------------------------------------
(* Sequences without repetition *)

\* The sequence names every element of S once.
Lists(seq, S) == seq \in Seq(S) /\ Range(seq) = S /\ IsInjective(seq)

LEMMA SeqFacts ==
    ASSUME NEW T, NEW s \in Seq(T)
    PROVE  /\ Len(s) \in Nat /\ DOMAIN s = 1 .. Len(s)
           /\ \A i \in 1 .. Len(s) : s[i] \in T
           /\ Range(s) = {s[i] : i \in 1 .. Len(s)} /\ Range(s) \subseteq T
           /\ s \in Seq(Range(s))
<1>1. Len(s) \in Nat /\ DOMAIN s = 1 .. Len(s) /\ \A i \in 1 .. Len(s) : s[i] \in T
  BY SeqShape, Zenon
<1>2. Range(s) = {s[i] : i \in 1 .. Len(s)} /\ Range(s) \subseteq T
  BY <1>1, Zenon DEF Range
<1>3. s \in [1 .. Len(s) -> Range(s)]
  <2>1. s \in [1 .. Len(s) -> T]
    BY SeqShape, Zenon
  <2> QED BY <2>1, <1>2, Zenon
<1>4. s \in Seq(Range(s))
  BY <1>3, <1>1, SeqMake
<1> QED BY <1>1, <1>2, <1>4, Zenon

LEMMA EmptyLists == Lists(<<>>, {}) /\ Range(<<>>) = {} /\ IsInjective(<<>>)
<1>1. DOMAIN <<>> = {}
  BY SMT
<1>2. Range(<<>>) = {} /\ IsInjective(<<>>)
  BY <1>1, Zenon DEF Range, IsInjective
<1> QED BY <1>2, SeqEmpty, Zenon DEF Lists

LEMMA ListsFacts ==
    ASSUME NEW S, NEW s, Lists(s, S)
    PROVE  /\ s \in Seq(S) /\ Len(s) \in Nat /\ DOMAIN s = 1 .. Len(s)
           /\ \A i \in 1 .. Len(s) : s[i] \in S
           /\ \A x \in S : \E i \in 1 .. Len(s) : s[i] = x
           /\ \A i, j \in 1 .. Len(s) : s[i] = s[j] => i = j
<1>1. s \in Seq(S) /\ Range(s) = S /\ IsInjective(s)
  BY Zenon DEF Lists
<1>2. Len(s) \in Nat /\ DOMAIN s = 1 .. Len(s) /\ \A i \in 1 .. Len(s) : s[i] \in S
  BY <1>1, SeqFacts, Zenon
<1>3. \A x \in S : \E i \in 1 .. Len(s) : s[i] = x
  BY <1>1, SeqFacts, Zenon
<1>4. \A i, j \in 1 .. Len(s) : s[i] = s[j] => i = j
  BY <1>1, <1>2, Zenon DEF IsInjective
<1> QED BY <1>1, <1>2, <1>3, <1>4, Zenon

LEMMA ListsByIndex ==
    ASSUME NEW S, NEW s, s \in Seq(S),
           \A x \in S : \E i \in 1 .. Len(s) : s[i] = x,
           \A i, j \in 1 .. Len(s) : s[i] = s[j] => i = j
    PROVE  Lists(s, S)
<1>1. DOMAIN s = 1 .. Len(s) /\ Range(s) \subseteq S /\ Range(s) = {s[i] : i \in 1 .. Len(s)}
  BY SeqFacts, Zenon
<1>2. S \subseteq Range(s)
  BY <1>1, Zenon
<1>3. IsInjective(s)
  BY <1>1, Zenon DEF IsInjective
<1> QED BY <1>1, <1>2, <1>3, Zenon DEF Lists

\* Two lists of different elements, one behind the other.
LEMMA JoinLists ==
    ASSUME NEW A, NEW B, NEW a, NEW b, Lists(a, A), Lists(b, B), A \cap B = {}
    PROVE  Lists(a \o b, A \cup B)
<1>1. a \in Seq(A \cup B) /\ b \in Seq(A \cup B)
  BY SeqWider, Zenon DEF Lists
<1>2. /\ a \o b \in Seq(A \cup B) /\ Len(a \o b) = Len(a) + Len(b)
      /\ \A i \in 1 .. Len(a) + Len(b) :
            (a \o b)[i] = IF i <= Len(a) THEN a[i] ELSE b[i - Len(a)]
  BY <1>1, SeqJoin, Zenon
<1> DEFINE c == a \o b
<1>3. /\ Len(a) \in Nat /\ Len(b) \in Nat
      /\ \A i \in 1 .. Len(a) : a[i] \in A
      /\ \A i \in 1 .. Len(b) : b[i] \in B
      /\ \A x \in A : \E i \in 1 .. Len(a) : a[i] = x
      /\ \A x \in B : \E i \in 1 .. Len(b) : b[i] = x
      /\ \A i, j \in 1 .. Len(a) : a[i] = a[j] => i = j
      /\ \A i, j \in 1 .. Len(b) : b[i] = b[j] => i = j
  BY ListsFacts, Zenon
<1>4. \A i \in 1 .. Len(a) : i \in 1 .. Len(c) /\ c[i] = a[i]
  BY <1>2, <1>3
<1>5. \A i \in 1 .. Len(b) : i + Len(a) \in 1 .. Len(c) /\ c[i + Len(a)] = b[i]
  BY <1>2, <1>3
<1>6. \A i \in 1 .. Len(c) : \/ i \in 1 .. Len(a) /\ c[i] = a[i]
                             \/ i - Len(a) \in 1 .. Len(b) /\ c[i] = b[i - Len(a)]
  BY <1>2, <1>3
<1>7. \A i, j \in 1 .. Len(c) : i - Len(a) = j - Len(a) => i = j
  BY <1>2, <1>3
<1> HIDE DEF c
<1>8. \A x \in A \cup B : \E i \in 1 .. Len(c) : c[i] = x
  <2>1. ASSUME NEW x \in A PROVE \E i \in 1 .. Len(c) : c[i] = x
    <3>1. PICK i \in 1 .. Len(a) : a[i] = x
      BY <1>3, Zenon
    <3>2. i \in 1 .. Len(c) /\ c[i] = a[i]
      BY <1>4, Zenon
    <3> QED BY <3>1, <3>2, Zenon
  <2>2. ASSUME NEW x \in B PROVE \E i \in 1 .. Len(c) : c[i] = x
    <3>1. PICK i \in 1 .. Len(b) : b[i] = x
      BY <1>3, Zenon
    <3>2. i + Len(a) \in 1 .. Len(c) /\ c[i + Len(a)] = b[i]
      BY <1>5, Zenon
    <3> QED BY <3>1, <3>2, Zenon
  <2> QED BY <2>1, <2>2, Zenon
<1>9. ASSUME NEW i \in 1 .. Len(c), NEW j \in 1 .. Len(c), c[i] = c[j] PROVE i = j
  <2>1. \A x : ~(x \in A /\ x \in B)
    BY Zenon
  <2>2. CASE i \in 1 .. Len(a) /\ c[i] = a[i]
    BY <2>1, <2>2, <1>3, <1>6, <1>9, ZenonT(60)
  <2>3. CASE i - Len(a) \in 1 .. Len(b) /\ c[i] = b[i - Len(a)]
    BY <2>1, <2>3, <1>3, <1>6, <1>7, <1>9, ZenonT(60)
  <2> QED BY <2>2, <2>3, <1>6, Zenon
<1>10. c \in Seq(A \cup B)
  BY <1>2, Zenon DEF c
<1>11. Lists(c, A \cup B)
  BY <1>8, <1>9, <1>10, ListsByIndex, Zenon
<1> QED BY <1>11, Zenon DEF c

LEMMA OneLists == ASSUME NEW x PROVE Lists(<<x>>, {x})
<1>1. <<x>> \in Seq({x}) /\ Len(<<x>>) = 1 /\ <<x>>[1] = x
  BY SMT
<1>2. \A i \in 1 .. Len(<<x>>) : i = 1
  BY <1>1
<1>3. 1 \in 1 .. Len(<<x>>)
  BY <1>1
<1> QED BY <1>1, <1>2, <1>3, ListsByIndex, Zenon

\* A piece of a list, and a list cut in two.
LEMMA PieceLists ==
    ASSUME NEW S, NEW s, Lists(s, S), NEW m \in Nat \ {0}, NEW n \in 0 .. Len(s), m <= n + 1
    PROVE  LET a == SubSeq(s, m, n)
           IN  /\ Len(a) = n - m + 1 /\ \A i \in 1 .. Len(a) : a[i] = s[m + i - 1]
               /\ Range(a) \subseteq S /\ Lists(a, Range(a))
<1> DEFINE a == SubSeq(s, m, n)
<1>1. /\ Len(s) \in Nat /\ \A i \in 1 .. Len(s) : s[i] \in S
      /\ \A i, j \in 1 .. Len(s) : s[i] = s[j] => i = j
  BY ListsFacts, Zenon
<1>2. \A i \in m .. n : s[i] \in S
  BY <1>1
<1>3. m \in Int /\ n \in Int
  BY <1>1
<1>4. /\ a \in Seq(S) /\ Len(a) = (IF m <= n THEN n - m + 1 ELSE 0)
      /\ \A i \in 1 .. n - m + 1 : a[i] = s[m + i - 1]
  BY <1>2, <1>3, SeqPiece
<1> HIDE DEF a
<1>5. Len(a) = n - m + 1
  BY <1>4, <1>1
<1>6. \A i \in 1 .. Len(a) : a[i] = s[m + i - 1] /\ m + i - 1 \in 1 .. Len(s)
  BY <1>4, <1>5, <1>1
<1>7. \A i, j \in 1 .. Len(a) : m + i - 1 = m + j - 1 => i = j
  BY <1>5, <1>1
<1>8. \A i, j \in 1 .. Len(a) : a[i] = a[j] => i = j
  BY <1>6, <1>7, <1>1, Zenon
<1>9. a \in Seq(S)
  BY <1>4, Zenon
<1>10. a \in Seq(Range(a)) /\ Range(a) \subseteq S /\ Range(a) = {a[i] : i \in 1 .. Len(a)}
  BY <1>9, SeqFacts, SMTT(30)
<1>11. \A x \in Range(a) : \E i \in 1 .. Len(a) : a[i] = x
  BY <1>10, Zenon
<1>12. a \in Seq(Range(a))
  BY <1>10, Zenon
<1>13. Lists(a, Range(a))
  BY <1>8, <1>11, <1>12, ListsByIndex
<1> QED BY <1>5, <1>6, <1>10, <1>13, Zenon DEF a

LEMMA CutLists ==
    ASSUME NEW S, NEW s, Lists(s, S), NEW k \in 0 .. Len(s)
    PROVE  LET a == SubSeq(s, 1, k)
               b == SubSeq(s, k + 1, Len(s))
           IN  /\ Lists(a, Range(a)) /\ Lists(b, Range(b)) /\ Len(a) = k /\ Len(b) = Len(s) - k
               /\ Range(a) \cup Range(b) = S /\ Range(a) \cap Range(b) = {}
<1> DEFINE a == SubSeq(s, 1, k)
           b == SubSeq(s, k + 1, Len(s))
<1>1. /\ Len(s) \in Nat /\ \A x \in S : \E i \in 1 .. Len(s) : s[i] = x
      /\ \A i, j \in 1 .. Len(s) : s[i] = s[j] => i = j
  BY ListsFacts, Zenon
<1>2. 1 \in Nat \ {0} /\ k + 1 \in Nat \ {0} /\ Len(s) \in 0 .. Len(s) /\ 1 <= k + 1 /\ k + 1 <= Len(s) + 1
  BY <1>1
<1>3. /\ Len(a) = k - 1 + 1 /\ \A i \in 1 .. Len(a) : a[i] = s[1 + i - 1]
      /\ Range(a) \subseteq S /\ Lists(a, Range(a))
  BY <1>2, PieceLists, Zenon
<1>4. /\ Len(b) = Len(s) - (k + 1) + 1 /\ \A i \in 1 .. Len(b) : b[i] = s[k + 1 + i - 1]
      /\ Range(b) \subseteq S /\ Lists(b, Range(b))
  BY <1>2, PieceLists, Zenon
<1>5. /\ \A x \in Range(a) : \E i \in 1 .. Len(a) : a[i] = x
      /\ \A x \in Range(b) : \E i \in 1 .. Len(b) : b[i] = x
      /\ \A i \in 1 .. Len(a) : a[i] \in Range(a)
      /\ \A i \in 1 .. Len(b) : b[i] \in Range(b)
  <2>1. Lists(a, Range(a)) /\ Lists(b, Range(b))
    BY <1>3, <1>4, Zenon
  <2> HIDE DEF a, b
  <2>2. /\ \A x \in Range(a) : \E i \in 1 .. Len(a) : a[i] = x
        /\ \A i \in 1 .. Len(a) : a[i] \in Range(a)
    BY <2>1, ListsFacts
  <2>3. /\ \A x \in Range(b) : \E i \in 1 .. Len(b) : b[i] = x
        /\ \A i \in 1 .. Len(b) : b[i] \in Range(b)
    BY <2>1, ListsFacts
  <2> QED BY <2>2, <2>3, Zenon
<1> HIDE DEF a, b
<1>6. \A i \in 1 .. Len(s) : \/ i \in 1 .. Len(a) /\ a[i] = s[i]
                             \/ i - k \in 1 .. Len(b) /\ b[i - k] = s[i]
  BY <1>1, <1>3, <1>4
<1>7. \A i \in 1 .. Len(a) : i \in 1 .. Len(s) /\ i <= k /\ a[i] = s[i]
  BY <1>1, <1>3
<1>8. \A i \in 1 .. Len(b) : k + i \in 1 .. Len(s) /\ ~(k + i <= k) /\ b[i] = s[k + i]
  BY <1>1, <1>4
<1>9. ASSUME NEW x \in S PROVE x \in Range(a) \cup Range(b)
  <2>1. PICK i \in 1 .. Len(s) : s[i] = x
    BY <1>1, Zenon
  <2> QED BY <2>1, <1>5, <1>6, Zenon
<1>10. ASSUME NEW x \in Range(a), x \in Range(b) PROVE FALSE
  <2>1. PICK i \in 1 .. Len(a) : a[i] = x
    BY <1>5, Zenon
  <2>2. PICK j \in 1 .. Len(b) : b[j] = x
    BY <1>5, <1>10, Zenon
  <2>3. i = k + j
    BY <2>1, <2>2, <1>1, <1>7, <1>8, ZenonT(60)
  <2> QED BY <2>3, <1>7, <1>8, Zenon
<1>11. Range(a) \cup Range(b) = S
  BY <1>3, <1>4, <1>9, Zenon
<1>12. Len(a) = k /\ Len(b) = Len(s) - k
  BY <1>1, <1>3, <1>4
<1>13. Range(a) \cap Range(b) = {}
  BY <1>10, Zenon
<1>14. /\ Lists(a, Range(a)) /\ Lists(b, Range(b)) /\ Len(a) = k /\ Len(b) = Len(s) - k
       /\ Range(a) \cup Range(b) = S /\ Range(a) \cap Range(b) = {}
  BY <1>3, <1>4, <1>11, <1>12, <1>13, Zenon
<1> QED BY <1>14, Zenon DEF a, b

LEMMA ReverseLists ==
    ASSUME NEW S, NEW s, Lists(s, S)
    PROVE  Lists(Reversed(s), S)
<1> DEFINE r == Reversed(s)
<1>1. /\ Len(s) \in Nat /\ \A i \in 1 .. Len(s) : s[i] \in S
      /\ \A x \in S : \E i \in 1 .. Len(s) : s[i] = x
      /\ \A i, j \in 1 .. Len(s) : s[i] = s[j] => i = j
  BY ListsFacts, Zenon
<1>2. r = [i \in 1 .. Len(s) |-> s[(Len(s) - i) + 1]]
  BY Zenon DEF Reversed
<1>3. \A i \in 1 .. Len(s) : (Len(s) - i) + 1 \in 1 .. Len(s)
  BY <1>1
<1>4. r \in [1 .. Len(s) -> S]
  BY <1>1, <1>2, <1>3, Zenon
<1>5. r \in Seq(S) /\ Len(r) = Len(s)
  BY <1>4, <1>1, SeqMake
<1>6. \A i \in 1 .. Len(s) : r[i] = s[(Len(s) - i) + 1]
  BY <1>2, Zenon
<1> HIDE DEF r
<1>7. ASSUME NEW x \in S PROVE \E i \in 1 .. Len(r) : r[i] = x
  <2>1. PICK i \in 1 .. Len(s) : s[i] = x
    BY <1>1, Zenon
  <2>2. (Len(s) - i) + 1 \in 1 .. Len(r) /\ (Len(s) - ((Len(s) - i) + 1)) + 1 = i
    BY <1>1, <1>5
  <2> QED BY <2>1, <2>2, <1>5, <1>6, Zenon
<1>8. \A i, j \in 1 .. Len(r) : (Len(s) - i) + 1 = (Len(s) - j) + 1 => i = j
  BY <1>1, <1>5
<1>9. \A i, j \in 1 .. Len(r) : r[i] = r[j] => i = j
  <2> TAKE i, j \in 1 .. Len(r)
  <2>1. /\ r[i] = s[(Len(s) - i) + 1] /\ r[j] = s[(Len(s) - j) + 1]
        /\ (Len(s) - i) + 1 \in 1 .. Len(s) /\ (Len(s) - j) + 1 \in 1 .. Len(s)
    BY <1>3, <1>5, <1>6, Zenon
  <2> QED BY <2>1, <1>1, <1>8, Zenon
<1>10. Lists(r, S)
  <2>1. r \in Seq(S)
    BY <1>5, Zenon
  <2>2. \A x \in S : \E i \in 1 .. Len(r) : r[i] = x
    BY <1>7, Zenon
  <2> QED BY <2>1, <2>2, <1>9, ListsByIndex, SMTT(30)
<1> QED BY <1>10, Zenon DEF r

LEMMA AheadLists ==
    ASSUME NEW S, NEW s, Lists(s, S), NEW x, x \notin S
    PROVE  Lists(<<x>> \o s, S \cup {x}) /\ Lists(Append(s, x), S \cup {x})
<1>1. Lists(<<x>>, {x}) /\ {x} \cap S = {} /\ {x} \cup S = S \cup {x} /\ S \cap {x} = {}
  BY OneLists, Zenon
<1>2. Append(s, x) = s \o <<x>>
  <2>1. s \in Seq(S \cup {x}) /\ x \in S \cup {x}
    BY SeqWider, Zenon DEF Lists
  <2> QED BY <2>1, SeqAppend, ZenonT(60)
<1>3. Lists(<<x>> \o s, {x} \cup S)
  BY <1>1, JoinLists, Zenon
<1>4. Lists(s \o <<x>>, S \cup {x})
  BY <1>1, JoinLists, Zenon
<1> QED BY <1>1, <1>2, <1>3, <1>4, Zenon

LEMMA TailLists ==
    ASSUME NEW S, NEW s, Lists(s, S), s # <<>>
    PROVE  Head(s) \in S /\ Head(s) = s[1] /\ Lists(Tail(s), S \ {Head(s)})
<1>1. /\ s \in Seq(S) /\ Len(s) \in Nat /\ \A i \in 1 .. Len(s) : s[i] \in S
      /\ \A x \in S : \E i \in 1 .. Len(s) : s[i] = x
      /\ \A i, j \in 1 .. Len(s) : s[i] = s[j] => i = j
  BY ListsFacts, Zenon
<1>2. Head(s) \in S /\ Len(Tail(s)) = Len(s) - 1 /\ Tail(s) \in Seq(S)
      /\ \A i \in 1 .. Len(Tail(s)) : Tail(s)[i] = s[i + 1]
  BY <1>1, SeqTail
<1>3. Head(s) = s[1] /\ 1 \in 1 .. Len(s) /\ Len(s) > 0
  BY <1>1, SMT
<1> DEFINE r == Tail(s)
<1>4. \A i \in 1 .. Len(r) : i + 1 \in 1 .. Len(s) /\ i + 1 # 1 /\ r[i] = s[i + 1]
  BY <1>1, <1>2, <1>3
<1>5. \A i, j \in 1 .. Len(r) : i + 1 = j + 1 => i = j
  BY <1>1, <1>2
<1>6. \A i \in 1 .. Len(s) : i = 1 \/ \E j \in 1 .. Len(r) : j + 1 = i
  <2> TAKE i \in 1 .. Len(s)
  <2>1. i = 1 \/ (i - 1 \in 1 .. Len(r) /\ (i - 1) + 1 = i)
    BY <1>1, <1>2
  <2> QED BY <2>1, Zenon
<1> HIDE DEF r
<1>7. r \in Seq(S) /\ Range(r) = {r[i] : i \in 1 .. Len(r)} /\ r \in Seq(Range(r))
  <2>1. r \in Seq(S)
    BY <1>2, Zenon DEF r
  <2> QED BY <2>1, SeqFacts, Zenon
<1>8. IsInjective(r)
  <2>1. DOMAIN r = 1 .. Len(r)
    BY <1>7, SeqShape, Zenon
  <2>2. ASSUME NEW i \in 1 .. Len(r), NEW j \in 1 .. Len(r), r[i] = r[j] PROVE i = j
    <3>1. s[i + 1] = s[j + 1] /\ i + 1 \in 1 .. Len(s) /\ j + 1 \in 1 .. Len(s)
      BY <2>2, <1>4, Zenon
    <3> QED BY <3>1, <1>1, <1>5, Zenon
  <2> QED BY <2>1, <2>2, Zenon DEF IsInjective
<1>9. ASSUME NEW x \in Range(r) PROVE x \in S \ {Head(s)}
  <2>1. PICK i \in 1 .. Len(r) : r[i] = x
    BY <1>7, Zenon
  <2> QED BY <2>1, <1>1, <1>3, <1>4, Zenon
<1>10. ASSUME NEW x \in S \ {Head(s)} PROVE x \in Range(r)
  <2>1. PICK i \in 1 .. Len(s) : s[i] = x
    BY <1>1, Zenon
  <2>2. PICK j \in 1 .. Len(r) : j + 1 = i
    BY <2>1, <1>3, <1>6, Zenon
  <2> QED BY <2>1, <2>2, <1>4, <1>7, Zenon
<1>11. Range(r) = S \ {Head(s)}
  BY <1>9, <1>10, Zenon
<1>12. Lists(r, S \ {Head(s)})
  BY <1>7, <1>8, <1>11, Zenon DEF Lists
<1> QED BY <1>2, <1>3, <1>12, Zenon DEF r

-----------------------------------------------------------------------------
(* Lists whose elements outside F come before those in F *)

Sorted(L, F) == \A i, j \in 1 .. Len(L) : i < j /\ L[i] \in F => L[j] \in F
TailSorted(L, F) == \A i, j \in 1 .. Len(L) : 1 < i /\ i < j /\ L[i] \in F => L[j] \in F

\* A first element in F goes to the end.
LEMMA RotateLists ==
    ASSUME NEW S, NEW L, Lists(L, S), L # <<>>, NEW F
    PROVE  /\ Lists(Rotate(L), S) /\ Rotate(L) # <<>>
           /\ TailSorted(L, F) /\ L[1] \in F => Sorted(Rotate(L), F)
<1>1. /\ Head(L) \in S /\ Head(L) = L[1] /\ Lists(Tail(L), S \ {Head(L)})
  BY TailLists, Zenon
<1>2. Lists(Rotate(L), (S \ {Head(L)}) \cup {Head(L)})
  BY <1>1, AheadLists, Zenon DEF Rotate
<1>3. (S \ {Head(L)}) \cup {Head(L)} = S
  BY <1>1, Zenon
<1>4. L \in Seq(S) /\ Len(L) \in Nat
  BY ListsFacts, Zenon
<1> DEFINE R == Rotate(L)
<1>5. Len(R) = Len(L) /\ \A i \in 1 .. Len(L) : R[i] = IF i < Len(L) THEN L[i + 1] ELSE L[1]
  <2>1. Len(Tail(L)) = Len(L) - 1 /\ Tail(L) \in Seq(S)
        /\ \A i \in 1 .. Len(Tail(L)) : Tail(L)[i] = L[i + 1]
    BY <1>4, SeqTail
  <2>2. /\ Len(Append(Tail(L), Head(L))) = Len(Tail(L)) + 1
        /\ \A i \in 1 .. Len(Tail(L)) : Append(Tail(L), Head(L))[i] = Tail(L)[i]
        /\ Append(Tail(L), Head(L))[Len(Tail(L)) + 1] = Head(L)
    BY <2>1, <1>1, SeqAppend
  <2> DEFINE T == Tail(L)
             A == Append(Tail(L), Head(L))
  <2>3. /\ Len(T) = Len(L) - 1 /\ \A i \in 1 .. Len(T) : T[i] = L[i + 1]
        /\ Len(A) = Len(T) + 1 /\ \A i \in 1 .. Len(T) : A[i] = T[i]
        /\ A[Len(T) + 1] = L[1]
    BY <2>1, <2>2, <1>1, Zenon
  <2> HIDE DEF T, A
  <2>4. Len(A) = Len(L) /\ \A i \in 1 .. Len(L) : A[i] = IF i < Len(L) THEN L[i + 1] ELSE L[1]
    BY <2>3, <1>4
  <2> QED BY <2>4, Zenon DEF A, Rotate
<1> HIDE DEF R
<1>6. Len(L) > 0
  BY <1>4, SMT
<1>7. R # <<>>
  BY <1>5, <1>6, SMT
<1>8. TailSorted(L, F) /\ L[1] \in F => Sorted(R, F)
  BY <1>4, <1>5, <1>6 DEF TailSorted, Sorted
<1> QED BY <1>2, <1>3, <1>7, <1>8, Zenon DEF R

\* One element, x, leaves; afterwards it may be in F or not.
LEMMA RemoveLists ==
    ASSUME NEW S, NEW L, Lists(L, S), NEW k \in 1 .. Len(L), NEW F, NEW G,
           \A y \in S \ {L[k]} : y \in F <=> y \in G
    PROVE  LET R == Without(L, k)
           IN  Lists(R, S \ {L[k]}) /\ (Sorted(L, F) => Sorted(R, G))
<1> DEFINE R == Without(L, k)
           a == SubSeq(L, 1, k - 1)
           b == SubSeq(L, k + 1, Len(L))
<1>1. /\ L \in Seq(S) /\ Len(L) \in Nat /\ \A i \in 1 .. Len(L) : L[i] \in S
      /\ \A x \in S : \E i \in 1 .. Len(L) : L[i] = x
      /\ \A i, j \in 1 .. Len(L) : L[i] = L[j] => i = j
  BY ListsFacts, ZenonT(60)
<1>2. /\ 1 \in Nat \ {0} /\ k - 1 \in 0 .. Len(L) /\ 1 <= (k - 1) + 1
      /\ k + 1 \in Nat \ {0} /\ Len(L) \in 0 .. Len(L) /\ k + 1 <= Len(L) + 1
  BY <1>1
<1>3. /\ Len(a) = (k - 1) - 1 + 1 /\ \A i \in 1 .. Len(a) : a[i] = L[1 + i - 1]
      /\ Range(a) \subseteq S /\ Lists(a, Range(a))
  BY <1>2, PieceLists, Zenon
<1>4. /\ Len(b) = Len(L) - (k + 1) + 1 /\ \A i \in 1 .. Len(b) : b[i] = L[k + 1 + i - 1]
      /\ Range(b) \subseteq S /\ Lists(b, Range(b))
  BY <1>2, PieceLists, Zenon
<1>5. /\ a \o b \in Seq(S) /\ Len(a \o b) = Len(a) + Len(b)
      /\ \A i \in 1 .. Len(a) + Len(b) :
            (a \o b)[i] = IF i <= Len(a) THEN a[i] ELSE b[i - Len(a)]
  <2>1. a \in Seq(S) /\ b \in Seq(S)
    <3>1. a \in Seq(Range(a)) /\ b \in Seq(Range(b))
      BY <1>3, <1>4, Zenon DEF Lists
    <3> HIDE DEF a, b
    <3> QED BY <3>1, <1>3, <1>4, SeqWider
  <2> QED BY <2>1, SeqJoin, Zenon
<1>6. R = a \o b
  BY Zenon DEF Without
<1> HIDE DEF R, a, b
<1>7. R \in Seq(S) /\ Len(R) = Len(L) - 1
  BY <1>1, <1>3, <1>4, <1>5, <1>6
<1>8. \A i \in 1 .. Len(R) : R[i] = IF i < k THEN L[i] ELSE L[i + 1]
  <2> TAKE i \in 1 .. Len(R)
  <2>1. i \in 1 .. Len(a) + Len(b) /\ Len(a) = k - 1 /\ Len(b) = Len(L) - k
    BY <1>1, <1>3, <1>4, <1>7
  <2>2. R[i] = IF i <= Len(a) THEN a[i] ELSE b[i - Len(a)]
    BY <2>1, <1>5, <1>6, Zenon
  <2>3. CASE i < k
    <3>1. i <= Len(a) /\ i \in 1 .. Len(a) /\ 1 + i - 1 = i
      BY <2>1, <2>3
    <3> QED BY <2>2, <2>3, <3>1, <1>3, Zenon
  <2>4. CASE ~(i < k)
    <3>1. ~(i <= Len(a)) /\ i - Len(a) \in 1 .. Len(b) /\ k + 1 + (i - Len(a)) - 1 = i + 1
      BY <2>1, <2>4, <1>1
    <3> QED BY <2>2, <2>4, <3>1, <1>4, Zenon
  <2> QED BY <2>3, <2>4, Zenon
<1> DEFINE At2(i) == IF i < k THEN i ELSE i + 1
<1>9. \A i \in 1 .. Len(R) : At2(i) \in 1 .. Len(L) /\ At2(i) # k /\ R[i] = L[At2(i)]
  <2> TAKE i \in 1 .. Len(R)
  <2>1. At2(i) \in 1 .. Len(L) /\ At2(i) # k
    <3>1. k \in Nat /\ i \in Nat /\ k <= Len(L) /\ i <= Len(L) - 1 /\ i >= 1 /\ k >= 1
      BY <1>1, <1>7
    <3>2. CASE i < k
      BY <3>1, <3>2, <1>1
    <3>3. CASE ~(i < k)
      BY <3>1, <3>3, <1>1
    <3> QED BY <3>2, <3>3, Zenon
  <2>2. R[i] = L[At2(i)]
    BY <1>8, Zenon
  <2> QED BY <2>1, <2>2, Zenon
<1>10. \A i, j \in 1 .. Len(R) : (At2(i) = At2(j) => i = j) /\ (i < j => At2(i) < At2(j))
  <2> TAKE i, j \in 1 .. Len(R)
  <2>1. i \in Nat /\ j \in Nat /\ k \in Nat
    BY <1>1, <1>7
  <2> QED BY <2>1
<1>11. \A i \in 1 .. Len(L) : i = k \/ \E j \in 1 .. Len(R) : At2(j) = i
  <2> TAKE i \in 1 .. Len(L)
  <2>1. CASE i < k
    <3>1. i \in 1 .. Len(R) /\ At2(i) = i
      BY <2>1, <1>1, <1>7
    <3> QED BY <3>1, Zenon
  <2>2. CASE i > k
    <3>1. i - 1 \in 1 .. Len(R) /\ At2(i - 1) = i
      BY <2>2, <1>1, <1>7
    <3> QED BY <3>1, Zenon
  <2>3. i < k \/ i = k \/ i > k
    BY <1>1
  <2> QED BY <2>1, <2>2, <2>3, Zenon
<1> HIDE DEF At2
<1>12. \A i \in 1 .. Len(R) : R[i] \in S \ {L[k]}
  <2> TAKE i \in 1 .. Len(R)
  <2>1. At2(i) \in 1 .. Len(L) /\ At2(i) # k /\ R[i] = L[At2(i)]
    BY <1>9, Zenon
  <2>2. L[At2(i)] \in S /\ L[At2(i)] # L[k]
    BY <2>1, <1>1, Zenon
  <2> QED BY <2>1, <2>2, Zenon
<1>13. Range(R) = {R[i] : i \in 1 .. Len(R)} /\ R \in Seq(Range(R)) /\ DOMAIN R = 1 .. Len(R)
  <2>1. R \in Seq(S)
    BY <1>7, Zenon
  <2> QED BY <2>1, SeqFacts
<1>14. Range(R) = S \ {L[k]}
  <2>1. ASSUME NEW x \in S \ {L[k]} PROVE x \in Range(R)
    <3>1. PICK i \in 1 .. Len(L) : L[i] = x
      BY <1>1, Zenon
    <3>2. PICK j \in 1 .. Len(R) : At2(j) = i
      BY <3>1, <1>11, Zenon
    <3>3. R[j] = x
      BY <3>1, <3>2, <1>9, Zenon
    <3> QED BY <3>3, <1>13, Zenon
  <2> QED BY <2>1, <1>12, <1>13, Zenon
<1>15. IsInjective(R)
  <2>1. ASSUME NEW i \in 1 .. Len(R), NEW j \in 1 .. Len(R), R[i] = R[j] PROVE i = j
    <3>1. L[At2(i)] = L[At2(j)] /\ At2(i) \in 1 .. Len(L) /\ At2(j) \in 1 .. Len(L)
      BY <2>1, <1>9, Zenon
    <3> QED BY <3>1, <1>1, <1>10, Zenon
  <2> QED BY <2>1, <1>13, Zenon DEF IsInjective
<1>16. ASSUME Sorted(L, F), NEW i \in 1 .. Len(R), NEW j \in 1 .. Len(R), i < j, R[i] \in G
       PROVE  R[j] \in G
  <2>1. /\ At2(i) \in 1 .. Len(L) /\ At2(j) \in 1 .. Len(L) /\ At2(i) < At2(j)
        /\ R[i] = L[At2(i)] /\ R[j] = L[At2(j)]
    BY <1>9, <1>10, <1>16, Zenon
  <2>2. R[i] \in F
    BY <1>12, <1>16, Zenon
  <2>3. R[j] \in F
    BY <2>1, <2>2, <1>16, Zenon DEF Sorted
  <2> QED BY <2>3, <1>12, Zenon
<1>17. Lists(R, S \ {L[k]})
  BY <1>13, <1>14, <1>15, Zenon DEF Lists
<1>18. Sorted(L, F) => Sorted(R, G)
  BY <1>16, Zenon DEF Sorted
<1> QED BY <1>17, <1>18, Zenon DEF R

\* An element outside F in front of a sorted list.
LEMMA AheadSorted ==
    ASSUME NEW S, NEW L, Lists(L, S), NEW x, NEW F
    PROVE  LET R == <<x>> \o L
           IN  /\ R # <<>> /\ R[1] = x /\ Len(R) = Len(L) + 1
               /\ \A i \in 1 .. Len(L) : R[i + 1] = L[i]
               /\ Sorted(L, F) => TailSorted(R, F)
               /\ Sorted(L, F) /\ x \notin F => Sorted(R, F)
<1> DEFINE R == <<x>> \o L
<1>1. L \in Seq(S \cup {x}) /\ <<x>> \in Seq(S \cup {x}) /\ Len(<<x>>) = 1 /\ <<x>>[1] = x
  <2>1. L \in Seq(S \cup {x})
    BY SeqWider, Zenon DEF Lists
  <2> QED BY <2>1, SMT
<1>2. /\ R \in Seq(S \cup {x}) /\ Len(R) = 1 + Len(L) /\ Len(L) \in Nat
      /\ \A i \in 1 .. 1 + Len(L) : R[i] = IF i <= 1 THEN <<x>>[i] ELSE L[i - 1]
  BY <1>1, SeqJoin, SeqShape
<1> HIDE DEF R
<1>3. R[1] = x /\ Len(R) = Len(L) + 1 /\ Len(R) \in Nat /\ Len(R) > 0
  BY <1>1, <1>2
<1>4. R # <<>>
  BY <1>2, <1>3, SeqEmpty
<1>5. \A i \in 1 .. Len(R) : i > 1 => R[i] = L[i - 1] /\ i - 1 \in 1 .. Len(L)
  BY <1>2
<1>6. \A i \in 1 .. Len(L) : R[i + 1] = L[i]
  BY <1>2
<1>7. ASSUME Sorted(L, F), NEW i \in 1 .. Len(R), NEW j \in 1 .. Len(R), 1 < i, i < j, R[i] \in F
      PROVE  R[j] \in F
  <2>1. i > 1 /\ j > 1 /\ i - 1 < j - 1
    BY <1>3, <1>7
  <2>2. R[i] = L[i - 1] /\ R[j] = L[j - 1] /\ i - 1 \in 1 .. Len(L) /\ j - 1 \in 1 .. Len(L)
    BY <2>1, <1>5, Zenon
  <2> QED BY <2>1, <2>2, <1>7, Zenon DEF Sorted
<1>8. Sorted(L, F) => TailSorted(R, F)
  BY <1>7, Zenon DEF TailSorted
<1>9. Sorted(L, F) /\ x \notin F => Sorted(R, F)
  <2>1. \A i \in 1 .. Len(R) : i = 1 \/ 1 < i
    BY <1>3
  <2> QED BY <2>1, <1>3, <1>7, Zenon DEF Sorted
<1> QED BY <1>3, <1>4, <1>6, <1>8, <1>9, Zenon DEF R

-----------------------------------------------------------------------------
(* The objects of one span *)

USE CentralConstants, WordAssumption

AllSlots == 0 .. Capacity - 1
SpanRec == [capacity : {Capacity}, use_count : Nat, scan_cursor : Nat, bitmap : SUBSET AllSlots]

\* use_count counts the 0 bits, and the cursor never hides a 1 bit.
SpanOK(r) == /\ r \in SpanRec
             /\ r.use_count = Cardinality(AllSlots \ r.bitmap)
             /\ \A x \in r.bitmap : r.scan_cursor <= BitmapIdx(x)

\* What the steps below take from a span's operations and from the order of a
\* batch.  The laws are facts about constants that need cardinalities; module
\* CentralCacheProofs proves them, so that this one does without their library.
AllocFinds(r) ==
    /\ IsFull(r) <=> r.bitmap = {}
    /\ AllocSlot(r) = NoSlot => IsFull(r)
    /\ AllocSlot(r) # NoSlot => /\ AllocSlot(r) \in r.bitmap
                                /\ \A y \in r.bitmap : AllocSlot(r) <= y
    /\ r.use_count <= Capacity
    /\ r.use_count = 0 <=> r.bitmap = AllSlots

AllocTakes(r, x) ==
    LET q == AllocObject(r, x)
    IN  SpanOK(q) /\ q.bitmap = r.bitmap \ {x} /\ q.use_count = r.use_count + 1

FreeGivesBack(r, x) ==
    LET q == FreeObject(r, x)
    IN  /\ SpanOK(q) /\ q.bitmap = r.bitmap \cup {x} /\ q.use_count = r.use_count - 1
        /\ r.use_count > 0 /\ q.capacity = Capacity

SpanLaws ==
    /\ \A r : SpanOK(r) => AllocFinds(r)
    /\ \A r : SpanOK(r) => \A x \in r.bitmap : (\A y \in r.bitmap : x <= y) => AllocTakes(r, x)
    /\ \A r : SpanOK(r) => \A x \in AllSlots \ r.bitmap : FreeGivesBack(r, x)
    /\ LET r == InitSpan(Capacity) IN SpanOK(r) /\ r.bitmap = AllSlots /\ r.use_count = 0

BatchLaw == \A S \in SUBSET Objects : \A b \in Orders(S) : Lists(b, S)

-----------------------------------------------------------------------------
(* The inductive invariant *)

Fetching == {"lock", "outer", "getspan", "install", "nospan", "inner", "after", "publish"}
Releasing == {"chunk", "rellock", "free", "return", "drain"}
Locking == {"outer", "inner", "after", "free"}

LocRec ==
    [pc : {"idle"} \cup Fetching \cup Releasing, n : Nat, fetched : SUBSET Objects,
     extracted : Nat, need : Nat, scratch : Seq(Objects), rest : Seq(Objects),
     chunk : Seq(Objects), mode : {"transfer", "bitmap"}, empty : Seq(Spans),
     span : Spans \cup {0}, drain : Nat]

\* What a thread holds depends on where it is.
LocOK(l) ==
    /\ l.pc = "idle" => l = Idle
    /\ l.pc \notin Fetching => l.fetched = {} /\ l.scratch = <<>>
    /\ l.pc \notin Releasing => l.rest = <<>> /\ l.drain = 0
    /\ l.span # 0 <=> l.pc = "install"
    /\ l.pc \notin {"rellock", "free"} => l.chunk = <<>>
    /\ l.pc \notin {"free", "return"} => l.empty = <<>>
    /\ l.pc = "drain" => l.rest = <<>>
    /\ l.extracted <= l.need + l.n
    /\ l.pc \in {"getspan", "install"} => l.extracted < l.need + l.n

\* The mutex has one holder, the thread in a section it protects.
Control ==
    /\ loc \in [Threads -> LocRec] /\ \A t \in Threads : LocOK(loc[t])
    /\ lock \in Threads \cup {NoThread}
    /\ \A t \in Threads : lock = t <=> loc[t].pc \in Locking

Data ==
    /\ span_list \in Seq(Spans) /\ lent \subseteq Spans
    /\ sp \in [Spans -> SpanRec] /\ \A s \in Spans : SpanOK(sp[s])
    /\ transfer_cache \in Seq(Objects) /\ transfer_capacity \in {0, TransferCap}
    /\ Len(transfer_cache) <= transfer_capacity
    /\ cache \in [Threads -> SUBSET Objects]

Once ==
    /\ IsInjective(transfer_cache)
    /\ \A t \in Threads : HeldOnce(t) /\ Range(transfer_cache) \cap Held(t) = {}
    /\ \A t, u \in Threads : t # u => Held(t) \cap Held(u) = {}

\* A bit is 0 exactly when its object is out.
Match ==
    /\ Out \subseteq Objects
    /\ \A s \in Spans, x \in AllSlots : <<s, x>> \in Out <=> s \in lent /\ x \notin sp[s].bitmap

\* The span on its way into the list, and those on their way to PageCache.
Moving(t) == ({loc[t].span} \ {0}) \cup Range(loc[t].empty)

SpansOnce ==
    /\ IsInjective(span_list)
    /\ \A t \in Threads :
         /\ IsInjective(loc[t].empty) /\ Moving(t) \cap Range(span_list) = {}
         /\ \A s \in Moving(t) : sp[s].use_count = 0
    /\ \A t, u \in Threads : t # u => Moving(t) \cap Moving(u) = {}
    /\ lent = Range(span_list) \cup UNION {Moving(t) : t \in Threads}

\* Inside the inner loop the front span may have become full, and it may be
\* a new one without an object out as long as the loop goes on.
FullSpans == {s \in Spans : IsFull(sp[s])}
Loose == \E t \in Threads : loc[t].pc \in {"inner", "after"}
Fresh == \E t \in Threads : loc[t].pc = "inner" /\ loc[t].extracted < loc[t].need + loc[t].n

ListInv ==
    /\ Loose => span_list # <<>>
    /\ TailSorted(span_list, FullSpans) /\ (Loose \/ Sorted(span_list, FullSpans))
    /\ \A s \in Range(span_list) : sp[s].use_count > 0 \/ (Fresh /\ s = span_list[1])

IInv == Control /\ Data /\ Once /\ Match /\ SpansOnce /\ ListInv

-----------------------------------------------------------------------------
(* Steps that move only the program counter *)

Others(t) == \A u \in Threads \ {t} : loc'[u] = loc[u]

LEMMA ControlStep ==
    ASSUME Control, NEW t \in Threads, NEW m \in LocRec, LocOK(m), loc' = [loc EXCEPT ![t] = m],
           \/ lock' = lock /\ (m.pc \in Locking <=> loc[t].pc \in Locking)
           \/ lock = NoThread /\ lock' = t /\ m.pc \in Locking
           \/ lock' = NoThread /\ loc[t].pc \in Locking /\ m.pc \notin Locking
    PROVE  Control' /\ loc'[t] = m /\ Others(t)
<1>1. loc \in [Threads -> LocRec] /\ \A u \in Threads : LocOK(loc[u])
  BY Zenon DEF Control
<1>2. loc' \in [Threads -> LocRec] /\ loc'[t] = m /\ \A u \in Threads \ {t} : loc'[u] = loc[u]
  BY <1>1, Zenon
<1>3. \A u \in Threads : LocOK(loc'[u])
  BY <1>1, <1>2, Zenon
<1>4. lock \in Threads \cup {NoThread} /\ \A u \in Threads : lock = u <=> loc[u].pc \in Locking
  BY Zenon DEF Control
<1>5. lock' \in Threads \cup {NoThread} /\ NoThread \notin Threads
  BY <1>4, Zenon
<1>6. \A u \in Threads : lock' = u <=> loc'[u].pc \in Locking
  BY <1>2, <1>4, <1>5, Zenon
<1> QED BY <1>2, <1>3, <1>5, <1>6, Zenon DEF Control, Others

LEMMA PcRec ==
    ASSUME NEW l \in LocRec, NEW p \in {"idle"} \cup Fetching \cup Releasing
    PROVE  LET m == [l EXCEPT !.pc = p]
           IN  /\ m \in LocRec /\ m.pc = p /\ m.n = l.n /\ m.fetched = l.fetched
               /\ m.extracted = l.extracted /\ m.need = l.need /\ m.scratch = l.scratch
               /\ m.rest = l.rest /\ m.chunk = l.chunk /\ m.mode = l.mode
               /\ m.empty = l.empty /\ m.span = l.span /\ m.drain = l.drain
  BY Zenon DEF LocRec

LEMMA IdleRec == Idle \in LocRec /\ LocOK(Idle)
<1>1. Idle \in LocRec
  <2>1. 0 \in Nat /\ <<>> \in Seq(Objects) /\ <<>> \in Seq(Spans)
    BY SeqEmpty, Zenon
  <2> QED BY <2>1, Zenon DEF Idle, LocRec
<1>2. LocOK(Idle)
  <2>1. 0 <= 0 + 0
    OBVIOUS
  <2> QED BY <2>1, Zenon DEF Idle, LocOK, Fetching, Releasing
<1> QED BY <1>1, <1>2, Zenon

\* A step that leaves objects and spans where they are.
Still(t) ==
    /\ Others(t)
    /\ loc'[t].fetched = loc[t].fetched /\ loc'[t].scratch = loc[t].scratch
    /\ loc'[t].rest = loc[t].rest /\ loc'[t].chunk = loc[t].chunk
    /\ loc'[t].span = loc[t].span /\ loc'[t].empty = loc[t].empty
    /\ UNCHANGED <<span_list, sp, lent, transfer_cache, transfer_capacity, cache>>

Same ==
    /\ \A u \in Threads : /\ loc'[u].fetched = loc[u].fetched /\ loc'[u].scratch = loc[u].scratch
                          /\ loc'[u].rest = loc[u].rest /\ loc'[u].chunk = loc[u].chunk
                          /\ loc'[u].span = loc[u].span /\ loc'[u].empty = loc[u].empty
    /\ UNCHANGED <<span_list, sp, lent, transfer_cache, transfer_capacity, cache>>

LEMMA SameKeeps ==
    ASSUME Data, Once, Match, SpansOnce, Same
    PROVE  Data' /\ Once' /\ Match' /\ SpansOnce'
<1>1. \A u \in Threads : /\ loc'[u].fetched = loc[u].fetched /\ loc'[u].scratch = loc[u].scratch
                          /\ loc'[u].rest = loc[u].rest /\ loc'[u].chunk = loc[u].chunk
                          /\ loc'[u].span = loc[u].span /\ loc'[u].empty = loc[u].empty
  BY Zenon DEF Same
<1>2. /\ span_list' = span_list /\ sp' = sp /\ lent' = lent /\ transfer_cache' = transfer_cache
      /\ transfer_capacity' = transfer_capacity /\ cache' = cache
  BY Zenon DEF Same
<1>3. \A u \in Threads : Hand(u)' = Hand(u) /\ Held(u)' = Held(u) /\ Moving(u)' = Moving(u)
  BY <1>1, <1>2, Zenon DEF Hand, Held, Moving
<1>4. \A u \in Threads : HeldOnce(u) => HeldOnce(u)'
  BY <1>1, <1>2, <1>3, Zenon DEF HeldOnce
<1>5. Out' = Out
  BY <1>2, <1>3, Zenon DEF Out
<1>6. Data'
  BY <1>2, Zenon DEF Data
<1>7. Once'
  BY <1>2, <1>3, <1>4, Zenon DEF Once
<1>8. Match'
  BY <1>2, <1>5, Zenon DEF Match
<1>9. SpansOnce'
  <2>1. UNION {Moving(u)' : u \in Threads} = UNION {Moving(u) : u \in Threads}
    BY <1>3, Zenon
  <2> QED BY <2>1, <1>1, <1>2, <1>3, Zenon DEF SpansOnce
<1> QED BY <1>6, <1>7, <1>8, <1>9, Zenon

LEMMA StillKeeps ==
    ASSUME Data, Once, Match, SpansOnce, NEW t \in Threads, Still(t)
    PROVE  Data' /\ Once' /\ Match' /\ SpansOnce'
<1>1. Same
  BY Zenon DEF Still, Others, Same
<1> QED BY <1>1, SameKeeps, Zenon

LEMMA SortedSame ==
    ASSUME NEW S, NEW L \in Seq(S), NEW F, NEW G, \A y \in Range(L) : y \in F <=> y \in G
    PROVE  /\ Sorted(L, F) => Sorted(L, G)
           /\ TailSorted(L, F) => TailSorted(L, G)
           /\ Sorted(L, F) => TailSorted(L, F)
<1>1. \A i \in 1 .. Len(L) : L[i] \in Range(L)
  BY SeqFacts, Zenon
<1>2. \A i \in 1 .. Len(L) : L[i] \in F <=> L[i] \in G
  BY <1>1, Zenon
<1> QED BY <1>2, Zenon DEF Sorted, TailSorted

\* A step of a thread outside the inner loop that leaves the listed spans alone.
LEMMA ListElsewhere ==
    ASSUME Data, ListInv, NEW t \in Threads, Others(t),
           loc[t].pc \notin {"inner", "after"}, loc'[t].pc \notin {"inner", "after"},
           span_list' = span_list, \A s \in Range(span_list) : sp'[s] = sp[s]
    PROVE  ListInv'
<1>1. \A u \in Threads : loc[u].pc \in {"inner", "after"} \/ loc'[u].pc \in {"inner", "after"}
                          => loc'[u] = loc[u]
  BY Zenon DEF Others
<1>2. (Loose' <=> Loose) /\ (Fresh => Fresh')
  <2>1. ASSUME NEW u \in Threads, loc[u].pc = "inner" PROVE loc'[u] = loc[u]
    BY <1>1, <2>1, Zenon
  <2>2. Fresh => Fresh'
    BY <2>1, Zenon DEF Fresh
  <2>3. Loose => Loose'
    BY <1>1, Zenon DEF Loose
  <2>4. Loose' => Loose
    BY <1>1, Zenon DEF Loose
  <2> QED BY <2>2, <2>3, <2>4, Zenon
<1>3. span_list \in Seq(Spans) /\ Range(span_list) \subseteq Spans
  BY SeqFacts, Zenon DEF Data
<1>4. \A s \in Range(span_list) : s \in FullSpans <=> s \in FullSpans'
  BY <1>3, Zenon DEF FullSpans
<1>5. /\ Sorted(span_list, FullSpans) => Sorted(span_list, FullSpans')
      /\ TailSorted(span_list, FullSpans) => TailSorted(span_list, FullSpans')
  BY <1>3, <1>4, SortedSame, Zenon
<1>6. Sorted(span_list, FullSpans)' <=> Sorted(span_list, FullSpans')
  BY Zenon DEF Sorted
<1>7. TailSorted(span_list, FullSpans)' <=> TailSorted(span_list, FullSpans')
  BY Zenon DEF TailSorted
<1> QED BY <1>2, <1>5, <1>6, <1>7, Zenon DEF ListInv

LEMMA HolderAlone ==
    ASSUME Control, NEW t \in Threads, loc[t].pc \in Locking
    PROVE  lock = t /\ \A u \in Threads \ {t} : loc[u].pc \notin Locking
  BY Zenon DEF Control

\* Only the program counter of t changes, and perhaps the holder of the mutex.
PcMove(t, p) ==
    /\ loc' = [loc EXCEPT ![t].pc = p]
    /\ UNCHANGED <<span_list, sp, lent, transfer_cache, transfer_capacity, cache>>

LEMMA PcMoves ==
    ASSUME IInv, NEW t \in Threads, NEW p \in Fetching \cup Releasing, PcMove(t, p),
           LocOK([loc[t] EXCEPT !.pc = p]),
           \/ lock' = lock /\ (p \in Locking <=> loc[t].pc \in Locking)
           \/ lock = NoThread /\ lock' = t /\ p \in Locking
           \/ lock' = NoThread /\ loc[t].pc \in Locking /\ p \notin Locking
    PROVE  /\ Control' /\ Data' /\ Once' /\ Match' /\ SpansOnce' /\ Others(t)
           /\ loc'[t] = [loc[t] EXCEPT !.pc = p] /\ loc'[t].pc = p
           /\ loc'[t].extracted = loc[t].extracted /\ loc'[t].need = loc[t].need
           /\ loc'[t].n = loc[t].n
<1>1. PICK l \in LocRec : l = loc[t]
  BY Zenon DEF IInv, Control
<1> DEFINE m == [l EXCEPT !.pc = p]
<1>2. /\ m \in LocRec /\ m.pc = p /\ m.n = l.n /\ m.fetched = l.fetched
      /\ m.extracted = l.extracted /\ m.need = l.need /\ m.scratch = l.scratch
      /\ m.rest = l.rest /\ m.chunk = l.chunk
      /\ m.empty = l.empty /\ m.span = l.span
  BY PcRec, ZenonT(60)
<1>3. loc' = [loc EXCEPT ![t] = m] /\ LocOK(m)
  BY <1>1, Zenon DEF PcMove
<1> HIDE DEF m
<1>4. Control' /\ loc'[t] = m /\ Others(t)
  BY <1>1, <1>2, <1>3, ControlStep, Zenon DEF IInv
<1>5. Still(t)
  BY <1>1, <1>2, <1>4, Zenon DEF Still, PcMove
<1>6. Data' /\ Once' /\ Match' /\ SpansOnce'
  BY <1>5, StillKeeps, Zenon DEF IInv
<1>7. m = [loc[t] EXCEPT !.pc = p]
  BY <1>1, Zenon DEF m
<1> QED BY <1>1, <1>2, <1>4, <1>6, <1>7, Zenon

\* What LocOK says after a change of the program counter.
LEMMA PcOK ==
    ASSUME NEW l \in LocRec, LocOK(l), NEW p \in Fetching \cup Releasing,
           l.pc \in Fetching <=> p \in Fetching,
           l.pc # "install" /\ p # "install",
           p \notin {"rellock", "free"} => l.chunk = <<>>,
           p \notin {"free", "return"} => l.empty = <<>>,
           p = "drain" => l.rest = <<>>,
           p = "getspan" => l.extracted < l.need + l.n
    PROVE  LocOK([l EXCEPT !.pc = p])
<1> DEFINE m == [l EXCEPT !.pc = p]
<1>1. /\ m.pc = p /\ m.n = l.n /\ m.fetched = l.fetched
      /\ m.extracted = l.extracted /\ m.need = l.need /\ m.scratch = l.scratch
      /\ m.rest = l.rest /\ m.chunk = l.chunk
      /\ m.empty = l.empty /\ m.span = l.span /\ m.drain = l.drain
  <2>1. p \in {"idle"} \cup Fetching \cup Releasing
    BY Zenon
  <2> QED BY <2>1, PcRec, ZenonT(60)
<1> HIDE DEF m
<1>2. p # "idle" /\ (p \in Releasing <=> p \notin Fetching) /\ (l.pc \in Releasing => l.pc \notin Fetching)
  BY DEF Fetching, Releasing
<1>3. LocOK(m)
  BY <1>1, <1>2, Zenon DEF LocOK
<1> QED BY <1>3, Zenon DEF m

LEMMA FetchControl ==
    ASSUME IInv, NEW t \in Threads,
           FetchLock(t) \/ OuterUnlock(t) \/ FetchGiveUp(t) \/ ReleaseLock(t) \/ ReleaseUnlock(t)
           \/ OuterCarve(t) \/ InnerDone(t)
    PROVE  IInv'
<1>1. PICK l \in LocRec : l = loc[t] /\ LocOK(l)
  BY Zenon DEF IInv, Control
<1>2. CASE FetchLock(t)
  <2>1. l.pc = "lock" /\ lock = NoThread /\ lock' = t /\ PcMove(t, "outer")
    BY <1>1, <1>2, Zenon DEF FetchLock, At, PcMove
  <2>2. LocOK([l EXCEPT !.pc = "outer"])
    BY <2>1, <1>1, PcOK, Zenon DEF LocOK, Fetching, Releasing
  <2>3. /\ Control' /\ Data' /\ Once' /\ Match' /\ SpansOnce' /\ Others(t) /\ loc'[t].pc = "outer"
    BY <2>1, <2>2, <1>1, PcMoves, Zenon DEF Fetching, Releasing, Locking
  <2>4. ListInv'
    BY <2>1, <2>3, <1>1, ListElsewhere, Zenon DEF IInv, PcMove
  <2> QED BY <2>3, <2>4, Zenon DEF IInv
<1>3. CASE FetchGiveUp(t)
  <2>1. l.pc = "nospan" /\ lock' = lock /\ PcMove(t, "publish")
    BY <1>1, <1>3, Zenon DEF FetchGiveUp, At, PcMove
  <2>2. LocOK([l EXCEPT !.pc = "publish"])
    BY <2>1, <1>1, PcOK, Zenon DEF LocOK, Fetching, Releasing
  <2>3. /\ Control' /\ Data' /\ Once' /\ Match' /\ SpansOnce' /\ Others(t) /\ loc'[t].pc = "publish"
    BY <2>1, <2>2, <1>1, PcMoves, Zenon DEF Fetching, Releasing, Locking
  <2>4. ListInv'
    BY <2>1, <2>3, <1>1, ListElsewhere, Zenon DEF IInv, PcMove
  <2> QED BY <2>3, <2>4, Zenon DEF IInv
<1>4. CASE ReleaseLock(t)
  <2>1. l.pc = "rellock" /\ lock = NoThread /\ lock' = t /\ PcMove(t, "free")
    BY <1>1, <1>4, Zenon DEF ReleaseLock, At, PcMove
  <2>2. LocOK([l EXCEPT !.pc = "free"])
    BY <2>1, <1>1, PcOK, Zenon DEF LocOK, Fetching, Releasing
  <2>3. /\ Control' /\ Data' /\ Once' /\ Match' /\ SpansOnce' /\ Others(t) /\ loc'[t].pc = "free"
    BY <2>1, <2>2, <1>1, PcMoves, Zenon DEF Fetching, Releasing, Locking
  <2>4. ListInv'
    BY <2>1, <2>3, <1>1, ListElsewhere, Zenon DEF IInv, PcMove
  <2> QED BY <2>3, <2>4, Zenon DEF IInv
<1>5. CASE ReleaseUnlock(t)
  <2>1. l.pc = "free" /\ l.chunk = <<>> /\ lock' = NoThread /\ PcMove(t, "return")
    BY <1>1, <1>5, Zenon DEF ReleaseUnlock, At, PcMove
  <2>2. LocOK([l EXCEPT !.pc = "return"])
    BY <2>1, <1>1, PcOK, Zenon DEF LocOK, Fetching, Releasing
  <2>3. /\ Control' /\ Data' /\ Once' /\ Match' /\ SpansOnce' /\ Others(t) /\ loc'[t].pc = "return"
    BY <2>1, <2>2, <1>1, PcMoves, Zenon DEF Fetching, Releasing, Locking
  <2>4. ListInv'
    BY <2>1, <2>3, <1>1, ListElsewhere, Zenon DEF IInv, PcMove
  <2> QED BY <2>3, <2>4, Zenon DEF IInv
<1>6. CASE OuterUnlock(t)
  <2>1. PICK p \in {"publish", "getspan"} :
          /\ l.pc = "outer" /\ lock' = NoThread /\ PcMove(t, p)
          /\ p = "getspan" => l.extracted < l.need + l.n
    BY <1>1, <1>6, Zenon DEF OuterUnlock, At, PcMove, ExtractTarget
  <2>2. LocOK([l EXCEPT !.pc = p]) /\ p \in Fetching \cup Releasing /\ p \notin Locking
    BY <2>1, <1>1, PcOK, ZenonT(60) DEF LocOK, Fetching, Releasing, Locking
  <2>3. /\ Control' /\ Data' /\ Once' /\ Match' /\ SpansOnce' /\ Others(t) /\ loc'[t].pc = p
    BY <2>1, <2>2, <1>1, PcMoves, Zenon DEF Locking
  <2>4. ListInv'
    BY <2>1, <2>3, <1>1, ListElsewhere, Zenon DEF IInv, PcMove
  <2> QED BY <2>3, <2>4, Zenon DEF IInv
<1>7. CASE OuterCarve(t)
  <2>1. l.pc = "outer" /\ span_list # <<>> /\ lock' = lock /\ PcMove(t, "inner")
    BY <1>1, <1>7, Zenon DEF OuterCarve, At, PcMove
  <2>2. LocOK([l EXCEPT !.pc = "inner"])
    BY <2>1, <1>1, PcOK, Zenon DEF LocOK, Fetching, Releasing
  <2>3. /\ Control' /\ Data' /\ Once' /\ Match' /\ SpansOnce' /\ Others(t)
    BY <2>1, <2>2, <1>1, PcMoves, Zenon DEF Fetching, Releasing, Locking
  <2>4. ListInv'
    <3>1. ~Fresh
      BY <2>1, <1>1, HolderAlone, Zenon DEF Fresh, Locking, IInv
    <3>2. span_list' = span_list /\ sp' = sp
      BY <2>1, Zenon DEF PcMove
    <3>3. Loose'
      <4>1. loc'[t].pc = "inner"
        BY <2>1, <2>2, <1>1, PcMoves, Zenon DEF Fetching, Releasing, Locking
      <4> QED BY <4>1, Zenon DEF Loose
    <3>4. FullSpans' = FullSpans /\ (TailSorted(span_list, FullSpans)' <=> TailSorted(span_list, FullSpans))
      BY <3>2, Zenon DEF FullSpans, TailSorted
    <3> QED BY <3>1, <3>2, <3>3, <3>4, <2>1, Zenon DEF IInv, ListInv
  <2> QED BY <2>3, <2>4, Zenon DEF IInv
<1>8. CASE InnerDone(t)
  <2>1. l.pc = "inner" /\ l.extracted = l.need + l.n /\ lock' = lock /\ PcMove(t, "after")
    BY <1>1, <1>8, Zenon DEF InnerDone, At, PcMove, ExtractTarget
  <2>2. LocOK([l EXCEPT !.pc = "after"])
    BY <2>1, <1>1, PcOK, Zenon DEF LocOK, Fetching, Releasing
  <2>3. /\ Control' /\ Data' /\ Once' /\ Match' /\ SpansOnce' /\ Others(t) /\ loc'[t].pc = "after"
    BY <2>1, <2>2, <1>1, PcMoves, Zenon DEF Fetching, Releasing, Locking
  <2>4. ListInv'
    <3>1. ~Fresh
      <4>1. \A u \in Threads \ {t} : loc[u].pc # "inner"
        BY <2>1, <1>1, HolderAlone, Zenon DEF Locking, IInv
      <4>2. ~(l.extracted < l.need + l.n)
        <5>1. l.need \in Nat /\ l.n \in Nat
          BY Zenon DEF LocRec
        <5> QED BY <5>1, <2>1
      <4> QED BY <4>1, <4>2, <1>1, Zenon DEF Fresh
    <3>2. span_list' = span_list /\ sp' = sp
      BY <2>1, Zenon DEF PcMove
    <3>3. Loose /\ Loose'
      BY <2>1, <2>3, <1>1, Zenon DEF Loose
    <3>4. FullSpans' = FullSpans /\ (TailSorted(span_list, FullSpans)' <=> TailSorted(span_list, FullSpans))
      BY <3>2, Zenon DEF FullSpans, TailSorted
    <3> QED BY <3>1, <3>2, <3>3, <3>4, <2>1, Zenon DEF IInv, ListInv
  <2> QED BY <2>3, <2>4, Zenon DEF IInv
<1> QED BY <1>2, <1>3, <1>4, <1>5, <1>6, <1>7, <1>8, Zenon

LEMMA StillMoves ==
    ASSUME IInv, NEW t \in Threads, NEW m \in LocRec, LocOK(m), loc' = [loc EXCEPT ![t] = m],
           lock' = lock, loc[t].pc \notin Locking, m.pc \notin Locking,
           m.fetched = loc[t].fetched, m.scratch = loc[t].scratch, m.rest = loc[t].rest,
           m.chunk = loc[t].chunk, m.span = loc[t].span, m.empty = loc[t].empty,
           UNCHANGED <<span_list, sp, lent, transfer_cache, transfer_capacity, cache>>
    PROVE  IInv'
<1>1. Control' /\ loc'[t] = m /\ Others(t)
  BY ControlStep, Zenon DEF IInv
<1>2. Still(t)
  BY <1>1, Zenon DEF Still
<1>3. Data' /\ Once' /\ Match' /\ SpansOnce'
  BY <1>2, StillKeeps, Zenon DEF IInv
<1>4. ListInv'
  BY <1>1, ListElsewhere, Zenon DEF IInv, Locking
<1> QED BY <1>1, <1>3, <1>4, Zenon DEF IInv

LEMMA AfterChunkOK ==
    ASSUME NEW l \in LocRec, l.fetched = {}, l.scratch = <<>>, l.chunk = <<>>, l.empty = <<>>,
           l.span = 0, l.extracted <= l.need + l.n
    PROVE  LET m == AfterChunk(l)
           IN  /\ m \in LocRec /\ LocOK(m) /\ m.pc \notin Locking
               /\ m.fetched = {} /\ m.scratch = <<>> /\ m.rest = l.rest /\ m.chunk = <<>>
               /\ m.empty = <<>> /\ m.span = 0
<1>1. ASSUME NEW p \in {"chunk", "drain"}, p = "drain" => l.rest = <<>>
      PROVE  LET m == [l EXCEPT !.pc = p]
             IN  /\ m \in LocRec /\ LocOK(m) /\ m.pc \notin Locking
                 /\ m.fetched = {} /\ m.scratch = <<>> /\ m.rest = l.rest /\ m.chunk = <<>>
                 /\ m.empty = <<>> /\ m.span = 0
  <2> DEFINE m == [l EXCEPT !.pc = p]
  <2>1. p \in {"idle"} \cup Fetching \cup Releasing /\ p \in Releasing /\ p \notin Fetching
        /\ p \notin Locking /\ p \notin {"idle", "install", "getspan", "rellock", "free", "return"}
    BY Zenon DEF Fetching, Releasing, Locking
  <2>2. /\ m \in LocRec /\ m.pc = p /\ m.n = l.n /\ m.fetched = l.fetched
        /\ m.extracted = l.extracted /\ m.need = l.need /\ m.scratch = l.scratch
        /\ m.rest = l.rest /\ m.chunk = l.chunk
        /\ m.empty = l.empty /\ m.span = l.span /\ m.drain = l.drain
    BY <2>1, PcRec, ZenonT(60)
  <2> HIDE DEF m
  <2>3. LocOK(m)
    BY <1>1, <2>1, <2>2, Zenon DEF LocOK
  <2>4. /\ m \in LocRec /\ LocOK(m) /\ m.pc \notin Locking
        /\ m.fetched = {} /\ m.scratch = <<>> /\ m.rest = l.rest /\ m.chunk = <<>>
        /\ m.empty = <<>> /\ m.span = 0
    BY <2>1, <2>2, <2>3, Zenon
  <2> QED BY <2>4, Zenon DEF m
<1>2. CASE l.rest # <<>>
  BY <1>1, <1>2, Zenon DEF AfterChunk
<1>3. CASE l.rest = <<>> /\ l.drain > 0
  BY <1>1, <1>3, Zenon DEF AfterChunk
<1>4. CASE l.rest = <<>> /\ ~(l.drain > 0)
  <2>1. AfterChunk(l) = Idle
    BY <1>4, Zenon DEF AfterChunk
  <2>2. /\ Idle.pc = "idle" /\ Idle.fetched = {} /\ Idle.scratch = <<>> /\ Idle.rest = <<>>
        /\ Idle.chunk = <<>> /\ Idle.empty = <<>> /\ Idle.span = 0
    BY Zenon DEF Idle
  <2>3. "idle" \notin Locking
    BY Zenon DEF Locking
  <2> QED BY <2>1, <2>2, <2>3, <1>4, IdleRec, Zenon
<1> QED BY <1>2, <1>3, <1>4, Zenon

LEMMA ReleaseDoneKeeps ==
    ASSUME IInv, NEW t \in Threads, ReleaseDone(t)
    PROVE  IInv'
<1>1. PICK l \in LocRec : l = loc[t] /\ LocOK(l)
  BY Zenon DEF IInv, Control
<1>2. /\ l.pc = "return" /\ l.empty = <<>> /\ loc' = [loc EXCEPT ![t] = AfterChunk(l)]
      /\ UNCHANGED <<span_list, sp, lent, lock, transfer_cache, transfer_capacity, cache>>
  BY <1>1, Zenon DEF ReleaseDone, At
<1>3. /\ l.fetched = {} /\ l.scratch = <<>> /\ l.chunk = <<>> /\ l.span = 0
      /\ l.extracted <= l.need + l.n /\ l.pc \notin Locking
  BY <1>1, <1>2, Zenon DEF LocOK, Fetching, Locking
<1>4. PICK m : m = AfterChunk(l)
  BY Zenon
<1>5. /\ m \in LocRec /\ LocOK(m) /\ m.pc \notin Locking
      /\ m.fetched = {} /\ m.scratch = <<>> /\ m.rest = l.rest /\ m.chunk = <<>>
      /\ m.empty = <<>> /\ m.span = 0
  BY <1>2, <1>3, <1>4, AfterChunkOK, Zenon
<1> QED BY <1>1, <1>2, <1>3, <1>4, <1>5, StillMoves, Zenon

LEMMA DrainKeeps ==
    ASSUME IInv, NEW t \in Threads, DrainTransferCaches(t)
    PROVE  IInv'
<1>1. PICK l \in LocRec : l = loc[t] /\ LocOK(l)
  BY Zenon DEF IInv, Control
<1>2. transfer_cache \in Seq(Objects) /\ Len(transfer_cache) \in Nat
  BY SeqFacts, Zenon DEF IInv, Data
<1>3. PICK k \in 1 .. Len(transfer_cache) :
        loc' = [loc EXCEPT ![t] = [Idle EXCEPT !.pc = "drain", !.mode = "bitmap", !.drain = k]]
  BY Zenon DEF DrainTransferCaches
<1>4. /\ l.pc = "idle"
      /\ UNCHANGED <<span_list, sp, lent, lock, transfer_cache, transfer_capacity, cache>>
  BY <1>1, Zenon DEF DrainTransferCaches, At
<1>5. l = Idle /\ l.pc \notin Locking
  BY <1>1, <1>4, Zenon DEF LocOK, Locking
<1>6. k \in Nat
  BY <1>2
<1> DEFINE m == [Idle EXCEPT !.pc = "drain", !.mode = "bitmap", !.drain = k]
<1>7. /\ m \in LocRec /\ m.pc = "drain" /\ m.n = l.n /\ m.fetched = l.fetched
      /\ m.extracted = l.extracted /\ m.need = l.need /\ m.scratch = l.scratch
      /\ m.rest = l.rest /\ m.chunk = l.chunk /\ m.empty = l.empty /\ m.span = l.span
  BY <1>5, <1>6, Zenon DEF LocRec, Releasing
<1>8. /\ l.fetched = {} /\ l.scratch = <<>> /\ l.chunk = <<>> /\ l.span = 0 /\ l.rest = <<>>
      /\ l.empty = <<>> /\ l.extracted <= l.need + l.n
  BY <1>1, <1>4, Zenon DEF LocOK, Fetching, Releasing
<1> HIDE DEF m
<1>9. LocOK(m) /\ m.pc \notin Locking
  BY <1>7, <1>8, Zenon DEF LocOK, Fetching, Releasing, Locking
<1>10. loc' = [loc EXCEPT ![t] = m]
  BY <1>3, Zenon DEF m
<1> QED BY <1>1, <1>4, <1>5, <1>7, <1>9, <1>10, StillMoves, Zenon

-----------------------------------------------------------------------------
(* Steps that move objects between the TransferCache and a thread *)

LEMMA AsLists ==
    ASSUME NEW T, NEW s \in Seq(T), IsInjective(s)
    PROVE  Lists(s, Range(s)) /\ Range(s) \subseteq T
<1>1. /\ DOMAIN s = 1 .. Len(s) /\ Range(s) = {s[i] : i \in 1 .. Len(s)} /\ Range(s) \subseteq T
      /\ Len(s) \in Nat
  BY SeqFacts
<1>2. \A i \in 1 .. Len(s) : s[i] \in Range(s)
  BY <1>1
<1>3. s \in Seq(Range(s))
  BY <1>1, <1>2, SMT
<1> QED BY <1>1, <1>3, Zenon DEF Lists

LEMMA ListsIn ==
    ASSUME NEW T, NEW S, NEW s, Lists(s, S), S \subseteq T
    PROVE  s \in Seq(T) /\ Range(s) = S /\ IsInjective(s)
  BY SeqWider, Zenon DEF Lists

HandOf(m) == m.fetched \cup Range(m.scratch) \cup Range(m.rest) \cup Range(m.chunk)

\* HeldOnce of a thread with locals m that owns the objects c.
OnceIn(m, c) ==
    /\ IsInjective(m.scratch) /\ IsInjective(m.rest) /\ IsInjective(m.chunk)
    /\ m.fetched \cap Range(m.scratch) = {} /\ Range(m.rest) \cap Range(m.chunk) = {}
    /\ (m.fetched \cup Range(m.scratch)) \cap (Range(m.rest) \cup Range(m.chunk)) = {}
    /\ c \cap HandOf(m) = {}

Reach(t) == Range(transfer_cache) \cup Held(t)

\* Objects leave the reach of t, or come into it from a bitmap.
LEMMA Exchange ==
    ASSUME Once, NEW t \in Threads, Others(t), \A u \in Threads \ {t} : cache'[u] = cache[u],
           IsInjective(transfer_cache)', HeldOnce(t)', (Range(transfer_cache) \cap Held(t) = {})',
           NEW gone, NEW come, gone \subseteq Reach(t), come \cap Out = {},
           Reach(t)' = (Reach(t) \ gone) \cup come
    PROVE  Once' /\ Out' = (Out \ gone) \cup come
<1>1. \A u \in Threads \ {t} : Hand(u)' = Hand(u) /\ Held(u)' = Held(u)
  BY Zenon DEF Others, Hand, Held
<1>2. \A u \in Threads \ {t} : HeldOnce(u)'
  <2> TAKE u \in Threads \ {t}
  <2>1. loc'[u] = loc[u] /\ cache'[u] = cache[u] /\ Hand(u)' = Hand(u) /\ HeldOnce(u)
    BY <1>1, Zenon DEF Others, Once
  <2> QED BY <2>1, Zenon DEF HeldOnce
<1>3. \A u \in Threads \ {t} : Held(u) \cap Reach(t) = {} /\ Held(u) \subseteq Out
  BY ZenonT(60) DEF Once, Reach, Out
<1>4. \A u \in Threads \ {t} : Held(u) \cap Reach(t)' = {}
  BY <1>3, Zenon
<1>5. Reach(t)' = Range(transfer_cache)' \cup Held(t)'
  BY Zenon DEF Reach
<1>6. \A u \in Threads \ {t} : /\ (Range(transfer_cache) \cap Held(u) = {})'
                                /\ Held(u)' \cap Held(t)' = {}
  BY <1>1, <1>4, <1>5, Zenon
<1>7. \A u, v \in Threads : u # v => Held(u)' \cap Held(v)' = {}
  <2> SUFFICES ASSUME NEW u \in Threads, NEW v \in Threads, u # v
               PROVE  Held(u)' \cap Held(v)' = {}
    BY Zenon
  <2>1. CASE u = t
    BY <2>1, <1>6, Zenon
  <2>2. CASE v = t
    BY <2>2, <1>6, Zenon
  <2>3. CASE u # t /\ v # t
    <3>1. Held(u) \cap Held(v) = {}
      BY Zenon DEF Once
    <3>2. Held(u)' = Held(u) /\ Held(v)' = Held(v)
      BY <2>3, <1>1, Zenon
    <3> QED BY <3>1, <3>2, Zenon
  <2> QED BY <2>1, <2>2, <2>3, Zenon
<1>8. Once'
  BY <1>2, <1>6, <1>7, Zenon DEF Once
<1>9. ASSUME NEW o
      PROVE  o \in Out <=> o \in Reach(t) \/ \E u \in Threads \ {t} : o \in Held(u)
  <2>1. o \in Out <=> o \in Range(transfer_cache) \/ \E u \in Threads : o \in Held(u)
    BY ZenonT(60) DEF Out
  <2>2. o \in Reach(t) <=> o \in Range(transfer_cache) \/ o \in Held(t)
    BY Zenon DEF Reach
  <2> QED BY <2>1, <2>2, Zenon
<1>10. ASSUME NEW o
      PROVE  o \in Out' <=> o \in Reach(t)' \/ \E u \in Threads \ {t} : o \in Held(u)'
  <2>1. o \in Out' <=> o \in Range(transfer_cache)' \/ \E u \in Threads : o \in Held(u)'
    BY ZenonT(60) DEF Out
  <2>2. o \in Reach(t)' <=> o \in Range(transfer_cache)' \/ o \in Held(t)'
    BY Zenon DEF Reach
  <2> QED BY <2>1, <2>2, Zenon
<1>11. ASSUME NEW o PROVE o \in Out' <=> o \in (Out \ gone) \cup come
  <2>1. (\E u \in Threads \ {t} : o \in Held(u)') <=> \E u \in Threads \ {t} : o \in Held(u)
    BY <1>1, Zenon
  <2>2. (\E u \in Threads \ {t} : o \in Held(u)) => o \notin gone
    BY <1>3, Zenon
  <2>3. /\ o \in Out <=> o \in Reach(t) \/ \E u \in Threads \ {t} : o \in Held(u)
        /\ o \in Out' <=> o \in Reach(t)' \/ \E u \in Threads \ {t} : o \in Held(u)'
    BY <1>9, <1>10, Zenon
  <2>4. o \in Reach(t)' <=> (o \in Reach(t) /\ o \notin gone) \/ o \in come
    BY Zenon
  <2> QED BY <2>1, <2>2, <2>3, <2>4, Zenon
<1>12. Out' = (Out \ gone) \cup come
  BY <1>11, Zenon
<1> QED BY <1>8, <1>12, Zenon

\* A step that leaves every span where it is, up to the order of the list.
LEMMA SpansStill ==
    ASSUME SpansOnce, NEW t \in Threads, Others(t), loc'[t].span = loc[t].span,
           loc'[t].empty = loc[t].empty, IsInjective(span_list)',
           Range(span_list)' = Range(span_list), lent' = lent,
           \A u \in Threads : \A s \in Moving(u) : sp'[s] = sp[s]
    PROVE  SpansOnce'
<1>1. \A u \in Threads : loc'[u].span = loc[u].span /\ loc'[u].empty = loc[u].empty
  BY Zenon DEF Others
<1>2. \A u \in Threads : Moving(u)' = Moving(u)
  BY <1>1, Zenon DEF Moving
<1>3. UNION {Moving(u)' : u \in Threads} = UNION {Moving(u) : u \in Threads}
  BY <1>2, Zenon
<1>4. \A u \in Threads : \A s \in Moving(u)' : sp'[s].use_count = 0
  BY <1>2, ZenonT(60) DEF SpansOnce
<1> QED BY <1>1, <1>2, <1>3, <1>4, Zenon DEF SpansOnce

LEMMA ObjectsMove ==
    ASSUME IInv, NEW t \in Threads, NEW m \in LocRec, LocOK(m), loc' = [loc EXCEPT ![t] = m],
           lock' = lock, loc[t].pc \notin Locking, m.pc \notin Locking,
           m.span = loc[t].span, m.empty = loc[t].empty,
           UNCHANGED <<span_list, sp, lent, transfer_capacity>>,
           NEW q \in Seq(Objects), transfer_cache' = q, Len(q) <= transfer_capacity, IsInjective(q),
           NEW c \in SUBSET Objects, cache' = [cache EXCEPT ![t] = c], OnceIn(m, c),
           Range(q) \cap (c \cup HandOf(m)) = {}, Range(q) \cup c \cup HandOf(m) = Reach(t)
    PROVE  IInv'
<1>1. Control' /\ loc'[t] = m /\ Others(t)
  BY ControlStep, Zenon DEF IInv
<1>2. cache' \in [Threads -> SUBSET Objects] /\ cache'[t] = c
      /\ \A u \in Threads \ {t} : cache'[u] = cache[u]
  BY Zenon DEF IInv, Data
<1>3. Data'
  BY <1>2, Zenon DEF IInv, Data
<1>4. Hand(t)' = HandOf(m) /\ Held(t)' = c \cup HandOf(m)
  BY <1>1, <1>2, Zenon DEF Hand, Held, HandOf
<1>5. HeldOnce(t)'
  BY <1>1, <1>2, <1>4, Zenon DEF HeldOnce, OnceIn
<1>6. IsInjective(transfer_cache)' /\ (Range(transfer_cache) \cap Held(t) = {})'
  BY <1>4, Zenon
<1>7. Reach(t)' = (Reach(t) \ {}) \cup {}
  BY <1>4, Zenon DEF Reach
<1>8. Once' /\ Out' = (Out \ {}) \cup {}
  <2>1. Once /\ {} \subseteq Reach(t) /\ {} \cap Out = {}
    BY Zenon DEF IInv
  <2> QED BY <2>1, <1>1, <1>2, <1>5, <1>6, <1>7, Exchange, ZenonT(60)
<1>9. Match'
  <2>1. Out' = Out /\ lent' = lent /\ sp' = sp
    BY <1>8, Zenon
  <2> QED BY <2>1, Zenon DEF Match, IInv
<1>10. SpansOnce'
  <2>1. SpansOnce /\ IsInjective(span_list)' /\ Range(span_list)' = Range(span_list)
    BY Zenon DEF IInv, SpansOnce
  <2> QED BY <2>1, <1>1, SpansStill, Zenon
<1>11. ListInv'
  BY <1>1, ListElsewhere, Zenon DEF IInv, Locking
<1> QED BY <1>1, <1>3, <1>8, <1>9, <1>10, <1>11, Zenon DEF IInv

\* What the thread reaches, taken apart.
LEMMA ReachParts ==
    ASSUME IInv, NEW t \in Threads
    PROVE  /\ Reach(t) = Range(transfer_cache) \cup cache[t] \cup HandOf(loc[t])
           /\ Range(transfer_cache) \cap (cache[t] \cup HandOf(loc[t])) = {}
           /\ OnceIn(loc[t], cache[t]) /\ cache[t] \subseteq Objects /\ cache[t] \in SUBSET Objects
           /\ Lists(transfer_cache, Range(transfer_cache))
           /\ Range(transfer_cache) \subseteq Objects
           /\ Len(transfer_cache) \in Nat /\ transfer_capacity \in Nat
           /\ Len(transfer_cache) <= transfer_capacity
<1>1. Hand(t) = HandOf(loc[t]) /\ Held(t) = cache[t] \cup HandOf(loc[t])
  BY Zenon DEF Hand, Held, HandOf
<1>2. HeldOnce(t) /\ Range(transfer_cache) \cap Held(t) = {} /\ IsInjective(transfer_cache)
  BY Zenon DEF IInv, Once
<1>3. OnceIn(loc[t], cache[t])
  BY <1>1, <1>2, Zenon DEF HeldOnce, OnceIn
<1>4. /\ transfer_cache \in Seq(Objects) /\ cache \in [Threads -> SUBSET Objects]
      /\ transfer_capacity \in {0, TransferCap} /\ Len(transfer_cache) <= transfer_capacity
  BY Zenon DEF IInv, Data
<1>5. Len(transfer_cache) \in Nat
  BY <1>4, SeqFacts
<1>6. transfer_capacity \in Nat
  BY <1>4
<1>7. Lists(transfer_cache, Range(transfer_cache)) /\ Range(transfer_cache) \subseteq Objects
  BY <1>2, <1>4, AsLists, Zenon
<1> QED BY <1>1, <1>2, <1>3, <1>4, <1>5, <1>6, <1>7, Zenon DEF Reach

\* The parts of a thread's hand, as lists.
LEMMA HandLists ==
    ASSUME IInv, NEW t \in Threads, NEW l, l = loc[t]
    PROVE  /\ Lists(l.scratch, Range(l.scratch)) /\ Range(l.scratch) \subseteq Objects
           /\ Lists(l.rest, Range(l.rest)) /\ Range(l.rest) \subseteq Objects
           /\ Lists(l.chunk, Range(l.chunk)) /\ Range(l.chunk) \subseteq Objects
           /\ l.fetched \subseteq Objects
<1>1. l \in LocRec /\ OnceIn(l, cache[t])
  BY ReachParts, Zenon DEF IInv, Control
<1>2. /\ l.scratch \in Seq(Objects) /\ l.rest \in Seq(Objects) /\ l.chunk \in Seq(Objects)
      /\ l.fetched \subseteq Objects
  BY <1>1, Zenon DEF LocRec
<1>3. IsInjective(l.scratch) /\ IsInjective(l.rest) /\ IsInjective(l.chunk)
  BY <1>1, Zenon DEF OnceIn
<1>4. Lists(l.scratch, Range(l.scratch)) /\ Range(l.scratch) \subseteq Objects
  BY <1>2, <1>3, AsLists, Zenon
<1>5. Lists(l.rest, Range(l.rest)) /\ Range(l.rest) \subseteq Objects
  BY <1>2, <1>3, AsLists, Zenon
<1>6. Lists(l.chunk, Range(l.chunk)) /\ Range(l.chunk) \subseteq Objects
  BY <1>2, <1>3, AsLists, Zenon
<1> QED BY <1>2, <1>4, <1>5, <1>6, Zenon

\* CutLists for named pieces.
Cut(s, k, a, b) == a = SubSeq(s, 1, k) /\ b = SubSeq(s, k + 1, Len(s))

LEMMA CutAt ==
    ASSUME NEW S, NEW s, Lists(s, S), NEW k \in 0 .. Len(s), NEW a, NEW b, Cut(s, k, a, b)
    PROVE  /\ Lists(a, Range(a)) /\ Lists(b, Range(b)) /\ Len(a) = k /\ Len(b) = Len(s) - k
           /\ Range(a) \cup Range(b) = S /\ Range(a) \cap Range(b) = {}
  BY CutLists DEF Cut

LEMMA IdleHand ==
    ASSUME NEW c
    PROVE  /\ HandOf(Idle) = {} /\ OnceIn(Idle, c)
           /\ Idle.pc = "idle" /\ Idle.fetched = {} /\ Idle.scratch = <<>> /\ Idle.rest = <<>>
           /\ Idle.chunk = <<>> /\ Idle.span = 0 /\ Idle.empty = <<>> /\ Idle.n = 0
           /\ Idle.extracted = 0 /\ Idle.need = 0 /\ Idle.drain = 0 /\ Idle.pc \notin Locking
<1>1. /\ Idle.pc = "idle" /\ Idle.fetched = {} /\ Idle.scratch = <<>> /\ Idle.rest = <<>>
      /\ Idle.chunk = <<>> /\ Idle.span = 0 /\ Idle.empty = <<>> /\ Idle.n = 0
      /\ Idle.extracted = 0 /\ Idle.need = 0 /\ Idle.drain = 0
  BY Zenon DEF Idle
<1>2. Idle.pc \notin Locking
  BY <1>1, Zenon DEF Locking
<1>3. Range(Idle.scratch) = {} /\ IsInjective(Idle.scratch)
  BY <1>1, EmptyLists, Zenon
<1>4. Range(Idle.rest) = {} /\ IsInjective(Idle.rest)
  BY <1>1, EmptyLists, Zenon
<1>5. Range(Idle.chunk) = {} /\ IsInjective(Idle.chunk)
  BY <1>1, EmptyLists, Zenon
<1>6. HandOf(Idle) = {}
  BY <1>1, <1>3, <1>4, <1>5, Zenon DEF HandOf
<1>7. OnceIn(Idle, c)
  BY <1>1, <1>3, <1>4, <1>5, <1>6, Zenon DEF OnceIn
<1> QED BY <1>1, <1>2, <1>6, <1>7, Zenon

LEMMA FetchBatchKeeps ==
    ASSUME IInv, NEW t \in Threads, FetchBatch(t)
    PROVE  IInv'
<1>1. PICK l \in LocRec : l = loc[t] /\ LocOK(l)
  BY Zenon DEF IInv, Control
<1>2. /\ l.pc = "idle" /\ lock' = lock
      /\ UNCHANGED <<span_list, sp, lent, transfer_capacity>>
  BY <1>1, Zenon DEF FetchBatch, At
<1>3. l = Idle /\ HandOf(l) = {} /\ l.pc \notin Locking
  BY <1>1, <1>2, IdleHand, Zenon DEF LocOK
<1>4. /\ Reach(t) = Range(transfer_cache) \cup cache[t] \cup HandOf(l)
      /\ Range(transfer_cache) \cap (cache[t] \cup HandOf(l)) = {} /\ cache[t] \subseteq Objects
      /\ Lists(transfer_cache, Range(transfer_cache)) /\ Range(transfer_cache) \subseteq Objects
      /\ Len(transfer_cache) \in Nat /\ transfer_capacity \in Nat
      /\ Len(transfer_cache) <= transfer_capacity
  BY <1>1, ReachParts, Zenon
<1>5. PICK n \in 1 .. kMaxBatchSize :
         LET k   == Shorter(n, Len(transfer_cache))
             cut == Len(transfer_cache) - k
             got == Range(SubSeq(transfer_cache, cut + 1, Len(transfer_cache)))
         IN  /\ transfer_cache' = SubSeq(transfer_cache, 1, cut)
             /\ IF k = n
                THEN cache' = [cache EXCEPT ![t] = @ \cup got] /\ UNCHANGED loc
                ELSE /\ loc' = [loc EXCEPT ![t] = [Idle EXCEPT !.pc = "lock", !.n = n,
                                                    !.fetched = got, !.need = n - k]]
                     /\ UNCHANGED cache
  BY Zenon DEF FetchBatch
<1>6. PICK k : k = Shorter(n, Len(transfer_cache))
  BY Zenon
<1>7. PICK cut : cut = Len(transfer_cache) - k
  BY Zenon
<1>8. n \in Nat /\ k \in Nat /\ cut \in 0 .. Len(transfer_cache) /\ n - k \in Nat /\ cut \in Nat
      /\ cut <= Len(transfer_cache)
  BY <1>4, <1>6, <1>7 DEF Shorter
<1>9. PICK q : q = SubSeq(transfer_cache, 1, cut)
  BY Zenon
<1>10. PICK w : w = SubSeq(transfer_cache, cut + 1, Len(transfer_cache))
  BY Zenon
<1>11. /\ Lists(q, Range(q)) /\ Lists(w, Range(w)) /\ Range(q) \cap Range(w) = {}
       /\ Range(q) \cup Range(w) = Range(transfer_cache) /\ Len(q) = cut
  <2>1. Cut(transfer_cache, cut, q, w)
    BY <1>9, <1>10, Zenon DEF Cut
  <2>2. Lists(transfer_cache, Range(transfer_cache)) /\ cut \in 0 .. Len(transfer_cache)
    BY <1>4, <1>8, Zenon
  <2> QED BY <2>1, <2>2, CutAt
<1>12. PICK B : B = Range(w)
  BY Zenon
<1>13. Len(q) <= transfer_capacity
  BY <1>4, <1>8, <1>11
<1>14. /\ Range(q) \cup B = Range(transfer_cache) /\ Range(q) \cap B = {}
       /\ Range(q) \subseteq Objects /\ B \subseteq Objects
  BY <1>4, <1>11, <1>12, Zenon
<1>17. q \in Seq(Objects) /\ IsInjective(q)
  BY <1>11, <1>14, ListsIn, Zenon
<1>15. CASE k = n
  <2>1. /\ transfer_cache' = q /\ cache' = [cache EXCEPT ![t] = cache[t] \cup B] /\ loc' = loc
    BY <1>5, <1>6, <1>7, <1>9, <1>10, <1>12, <1>15, Zenon
  <2>2. loc' = [loc EXCEPT ![t] = l]
    BY <2>1, <1>1, Zenon DEF IInv, Control
  <2>3. cache[t] \cup B \in SUBSET Objects /\ OnceIn(l, cache[t] \cup B)
    BY <1>3, <1>4, <1>14, IdleHand, Zenon
  <2>4. /\ Range(q) \cap ((cache[t] \cup B) \cup HandOf(l)) = {}
        /\ Range(q) \cup (cache[t] \cup B) \cup HandOf(l) = Reach(t)
    BY <1>3, <1>4, <1>14, Zenon
  <2> QED BY <2>1, <2>2, <2>3, <2>4, <1>1, <1>2, <1>3, <1>13, <1>17, ObjectsMove, Zenon
<1>16. CASE k # n
  <2> DEFINE m == [Idle EXCEPT !.pc = "lock", !.n = n, !.fetched = B, !.need = n - k]
  <2>1. /\ transfer_cache' = q /\ cache' = cache /\ loc' = [loc EXCEPT ![t] = m]
    BY <1>5, <1>6, <1>7, <1>9, <1>10, <1>12, <1>16, Zenon
  <2>2. cache' = [cache EXCEPT ![t] = cache[t]] /\ cache[t] \in SUBSET Objects
    BY <2>1, <1>4, Zenon DEF IInv, Data
  <2>3. /\ m \in LocRec /\ m.pc = "lock" /\ m.n = n /\ m.fetched = B /\ m.need = n - k
        /\ m.extracted = Idle.extracted /\ m.scratch = Idle.scratch /\ m.rest = Idle.rest
        /\ m.chunk = Idle.chunk /\ m.span = Idle.span /\ m.empty = Idle.empty
        /\ m.drain = Idle.drain
    BY <1>3, <1>8, <1>14, Zenon DEF LocRec, Fetching
  <2> HIDE DEF m
  <2>4. /\ m.extracted = 0 /\ m.scratch = <<>> /\ m.rest = <<>> /\ m.chunk = <<>>
        /\ m.span = 0 /\ m.empty = <<>> /\ m.drain = 0 /\ m.span = l.span /\ m.empty = l.empty
    BY <2>3, <1>3, IdleHand, Zenon
  <2>5. m.extracted <= m.need + m.n
    BY <2>3, <2>4, <1>8
  <2>6. LocOK(m) /\ m.pc \notin Locking
    BY <2>3, <2>4, <2>5, Zenon DEF LocOK, Fetching, Releasing, Locking
  <2>7. /\ Range(m.scratch) = {} /\ Range(m.rest) = {} /\ Range(m.chunk) = {} /\ cache[t] \cap B = {}
        /\ IsInjective(m.scratch) /\ IsInjective(m.rest) /\ IsInjective(m.chunk)
    BY <2>4, <1>4, <1>14, EmptyLists, Zenon
  <2>8. HandOf(m) = B /\ OnceIn(m, cache[t])
    BY <2>3, <2>7, Zenon DEF HandOf, OnceIn
  <2>9. /\ Range(q) \cap (cache[t] \cup HandOf(m)) = {}
        /\ Range(q) \cup cache[t] \cup HandOf(m) = Reach(t)
    BY <2>8, <1>3, <1>4, <1>14, ZenonT(60)
  <2> QED BY <2>1, <2>2, <2>3, <2>4, <2>6, <2>8, <2>9, <1>1, <1>2, <1>3, <1>13, <1>17, ObjectsMove, ZenonT(60)
<1> QED BY <1>15, <1>16, Zenon

\* A thread with nothing in hand but objects it releases.
LEMMA ChunkLoc ==
    ASSUME NEW m \in LocRec, m.pc = "chunk", m.fetched = {}, m.scratch = <<>>, m.chunk = <<>>,
           m.span = 0, m.empty = <<>>, m.extracted <= m.need + m.n,
           NEW R, Lists(m.rest, R), NEW c, c \cap R = {}
    PROVE  LocOK(m) /\ m.pc \notin Locking /\ HandOf(m) = R /\ OnceIn(m, c)
<1>1. LocOK(m) /\ m.pc \notin Locking
  BY Zenon DEF LocOK, Fetching, Releasing, Locking
<1>2. /\ Range(m.scratch) = {} /\ Range(m.chunk) = {} /\ IsInjective(m.scratch)
      /\ IsInjective(m.chunk) /\ Range(m.rest) = R /\ IsInjective(m.rest)
  BY EmptyLists, Zenon DEF Lists
<1>3. HandOf(m) = R
  BY <1>2, Zenon DEF HandOf
<1>4. OnceIn(m, c)
  BY <1>2, <1>3, Zenon DEF OnceIn
<1> QED BY <1>1, <1>3, <1>4, Zenon

\* What the TransferCache takes of objs, and what it leaves.
Push(objs, a, b, q) == a = Pushed(objs) /\ b = NotPushed(objs) /\ q = transfer_cache \o a

LEMMA PushOK ==
    ASSUME IInv, NEW S, NEW objs, Lists(objs, S), S \subseteq Objects,
           S \cap Range(transfer_cache) = {}, NEW a, NEW b, NEW q, Push(objs, a, b, q)
    PROVE  /\ q \in Seq(Objects) /\ IsInjective(q) /\ Range(q) = Range(transfer_cache) \cup Range(a)
           /\ Len(q) <= transfer_capacity /\ Lists(b, Range(b))
           /\ Range(a) \cup Range(b) = S /\ Range(a) \cap Range(b) = {}
<1>1. PICK T : T = Range(transfer_cache)
  BY Zenon
<1>2. /\ transfer_cache \in Seq(Objects) /\ IsInjective(transfer_cache)
      /\ transfer_capacity \in {0, TransferCap} /\ Len(transfer_cache) <= transfer_capacity
  BY Zenon DEF IInv, Data, Once
<1>3. Lists(transfer_cache, T) /\ T \subseteq Objects
  BY <1>1, <1>2, AsLists, Zenon
<1>4. Len(transfer_cache) \in Nat /\ Len(objs) \in Nat
  BY <1>3, ListsFacts
<1>5. PICK k : k = Shorter(Room, Len(objs))
  BY Zenon
<1>6. k \in 0 .. Len(objs) /\ Len(transfer_cache) + k <= transfer_capacity /\ k \in Nat
  BY <1>2, <1>4, <1>5 DEF Shorter, Room
<1>7. Cut(objs, k, a, b)
  BY <1>5, Zenon DEF Cut, Push, Pushed, NotPushed
<1>8. /\ Lists(a, Range(a)) /\ Lists(b, Range(b)) /\ Len(a) = k
      /\ Range(a) \cup Range(b) = S /\ Range(a) \cap Range(b) = {}
  BY <1>6, <1>7, CutAt
<1>9. PICK A : A = Range(a)
  BY Zenon
<1>10. Lists(a, A) /\ T \cap A = {} /\ A \subseteq Objects
  BY <1>1, <1>8, <1>9, Zenon
<1>11. Lists(transfer_cache \o a, T \cup A)
  BY <1>3, <1>10, JoinLists, Zenon
<1>12. Lists(q, T \cup A) /\ T \cup A \subseteq Objects
  BY <1>3, <1>10, <1>11, Zenon DEF Push
<1>13. q \in Seq(Objects) /\ IsInjective(q) /\ Range(q) = T \cup A
  <2>1. PICK U : U = T \cup A
    BY Zenon
  <2>2. Lists(q, U) /\ U \subseteq Objects
    BY <2>1, <1>12, Zenon
  <2>3. q \in Seq(Objects) /\ Range(q) = U /\ IsInjective(q)
    BY <2>2, ListsIn, Zenon
  <2> QED BY <2>1, <2>3, Zenon
<1>14. Len(q) = Len(transfer_cache) + Len(a)
  <2>1. a \in Seq(A)
    BY <1>10, ListsFacts, Zenon
  <2>2. a \in Seq(Objects)
    BY <2>1, <1>10, SeqWider, Zenon
  <2> QED BY <2>2, <1>2, SeqJoin, Zenon DEF Push
<1>15. Len(q) <= transfer_capacity
  BY <1>6, <1>8, <1>14
<1> QED BY <1>1, <1>8, <1>9, <1>13, <1>15, Zenon

LEMMA PublishKeeps ==
    ASSUME IInv, NEW t \in Threads, PublishPrefetch(t)
    PROVE  IInv'
<1>1. PICK l \in LocRec : l = loc[t] /\ LocOK(l)
  BY Zenon DEF IInv, Control
<1>2. /\ l.pc = "publish" /\ lock' = lock /\ UNCHANGED <<span_list, sp, lent, transfer_capacity>>
      /\ transfer_cache' = transfer_cache \o Pushed(l.scratch)
      /\ cache' = [cache EXCEPT ![t] = cache[t] \cup l.fetched]
  BY <1>1, Zenon DEF PublishPrefetch, At
<1>3. /\ l.rest = <<>> /\ l.chunk = <<>> /\ l.span = 0 /\ l.empty = <<>> /\ l.pc \notin Locking
  BY <1>1, <1>2, Zenon DEF LocOK, Releasing, Locking
<1>4. /\ Reach(t) = Range(transfer_cache) \cup cache[t] \cup HandOf(l)
      /\ Range(transfer_cache) \cap (cache[t] \cup HandOf(l)) = {} /\ cache[t] \subseteq Objects
      /\ OnceIn(l, cache[t])
  BY <1>1, ReachParts, Zenon
<1>5. PICK S : S = Range(l.scratch)
  BY Zenon
<1>6. Lists(l.scratch, S) /\ S \subseteq Objects /\ l.fetched \subseteq Objects
  BY <1>1, <1>5, HandLists, Zenon
<1>7. /\ HandOf(l) = l.fetched \cup S /\ l.fetched \cap S = {}
      /\ cache[t] \cap (l.fetched \cup S) = {}
  <2>1. Range(l.rest) = {} /\ Range(l.chunk) = {}
    BY <1>3, EmptyLists, Zenon
  <2>2. HandOf(l) = l.fetched \cup S
    BY <2>1, <1>5, Zenon DEF HandOf
  <2> QED BY <2>2, <1>4, <1>5, Zenon DEF OnceIn
<1>8. PICK a, b, q : Push(l.scratch, a, b, q)
  BY Zenon DEF Push
<1>9. /\ q \in Seq(Objects) /\ IsInjective(q) /\ Range(q) = Range(transfer_cache) \cup Range(a)
      /\ Len(q) <= transfer_capacity /\ Lists(b, Range(b))
      /\ Range(a) \cup Range(b) = S /\ Range(a) \cap Range(b) = {}
  <2>1. S \cap Range(transfer_cache) = {}
    BY <1>4, <1>7, Zenon
  <2>2. IInv /\ Lists(l.scratch, S) /\ S \subseteq Objects
    BY <1>6, Zenon
  <2> QED BY <2>1, <2>2, <1>8, PushOK
<1>10. PICK c : c = cache[t] \cup l.fetched
  BY Zenon
<1>11. c \in SUBSET Objects /\ c \cap Range(b) = {}
  BY <1>4, <1>6, <1>7, <1>9, <1>10, Zenon
<1>12. PICK m : m = IF b = <<>> THEN Idle ELSE [Idle EXCEPT !.pc = "chunk", !.rest = Reversed(b)]
  BY Zenon
<1>13. loc' = [loc EXCEPT ![t] = m] /\ transfer_cache' = q /\ cache' = [cache EXCEPT ![t] = c]
  BY <1>1, <1>2, <1>8, <1>10, <1>12, Zenon DEF PublishPrefetch, Push
<1>14. /\ m \in LocRec /\ LocOK(m) /\ m.pc \notin Locking /\ HandOf(m) = Range(b) /\ OnceIn(m, c)
       /\ m.span = l.span /\ m.empty = l.empty
  <2>1. CASE b = <<>>
    <3>1. m = Idle /\ Range(b) = {}
      BY <2>1, <1>12, EmptyLists, Zenon
    <3> QED BY <3>1, <1>3, IdleRec, IdleHand, Zenon
  <2>2. CASE b # <<>>
    <3>1. m = [Idle EXCEPT !.pc = "chunk", !.rest = Reversed(b)]
      BY <2>2, <1>12, Zenon
    <3>2. Lists(Reversed(b), Range(b)) /\ Range(b) \subseteq Objects
      BY <1>6, <1>9, ReverseLists, Zenon
    <3>3. Reversed(b) \in Seq(Objects)
      BY <3>2, ListsIn, Zenon
    <3>4. /\ m \in LocRec /\ m.pc = "chunk" /\ m.rest = Reversed(b)
          /\ m.fetched = Idle.fetched /\ m.scratch = Idle.scratch /\ m.chunk = Idle.chunk
          /\ m.span = Idle.span /\ m.empty = Idle.empty /\ m.extracted = Idle.extracted
          /\ m.need = Idle.need /\ m.n = Idle.n
      BY <3>1, <3>3, IdleRec, Zenon DEF LocRec, Releasing
    <3>5. /\ m.fetched = {} /\ m.scratch = <<>> /\ m.chunk = <<>> /\ m.span = 0 /\ m.empty = <<>>
          /\ m.extracted = 0 /\ m.need = 0 /\ m.n = 0
      BY <3>4, IdleHand, Zenon
    <3>6. m.extracted <= m.need + m.n
      BY <3>5
    <3>7. Lists(m.rest, Range(b))
      BY <3>2, <3>4, Zenon
    <3> QED BY <3>4, <3>5, <3>6, <3>7, <1>3, <1>11, ChunkLoc, Zenon
  <2> QED BY <2>1, <2>2, Zenon
<1>15. /\ Range(q) \cap (c \cup HandOf(m)) = {}
       /\ Range(q) \cup c \cup HandOf(m) = Reach(t)
  <2>1. Range(q) \cap (c \cup HandOf(m)) = {}
    BY <1>4, <1>7, <1>9, <1>10, <1>14
  <2>2. Range(q) \cup c \cup HandOf(m) = Reach(t)
    BY <1>4, <1>7, <1>9, <1>10, <1>14
  <2> QED BY <2>1, <2>2, Zenon
<1> QED BY <1>1, <1>2, <1>3, <1>9, <1>11, <1>13, <1>14, <1>15, ObjectsMove, ZenonT(60)

LEMMA ReleaseBatchKeeps ==
    ASSUME BatchLaw, IInv, NEW t \in Threads, ReleaseBatch(t)
    PROVE  IInv'
<1>1. PICK l \in LocRec : l = loc[t] /\ LocOK(l)
  BY Zenon DEF IInv, Control
<1>2. /\ l.pc = "idle" /\ lock' = lock /\ UNCHANGED <<span_list, sp, lent, transfer_capacity>>
      /\ transfer_cache' = transfer_cache
  BY <1>1, Zenon DEF ReleaseBatch, At
<1>3. l = Idle /\ HandOf(l) = {} /\ l.pc \notin Locking
  BY <1>1, <1>2, IdleHand, Zenon DEF LocOK
<1>4. /\ Reach(t) = Range(transfer_cache) \cup cache[t] \cup HandOf(l)
      /\ Range(transfer_cache) \cap (cache[t] \cup HandOf(l)) = {} /\ cache[t] \subseteq Objects
  BY <1>1, ReachParts, Zenon
<1>5. /\ transfer_cache \in Seq(Objects) /\ IsInjective(transfer_cache)
      /\ Len(transfer_cache) <= transfer_capacity
  BY Zenon DEF IInv, Data, Once
<1>6. PICK objs \in SUBSET cache[t], mode \in {"transfer", "bitmap"} :
         /\ cache' = [cache EXCEPT ![t] = cache[t] \ objs]
         /\ \E b \in Orders(objs) :
              loc' = [loc EXCEPT ![t] = [Idle EXCEPT !.pc = "chunk", !.mode = mode, !.rest = b]]
  BY Zenon DEF ReleaseBatch
<1>7. objs \subseteq Objects
  BY <1>4, Zenon
<1>8. PICK r \in Orders(objs) :
         loc' = [loc EXCEPT ![t] = [Idle EXCEPT !.pc = "chunk", !.mode = mode, !.rest = r]]
  BY <1>6, Zenon
<1>9. Lists(r, objs)
  BY <1>7, <1>8, Zenon DEF BatchLaw
<1>10. Lists(r, objs) /\ r \in Seq(Objects)
  BY <1>7, <1>9, ListsIn, Zenon
<1>11. PICK c : c = cache[t] \ objs
  BY Zenon
<1>12. c \in SUBSET Objects /\ c \cap objs = {} /\ c \cup objs = cache[t]
  BY <1>4, <1>11, Zenon
<1>13. PICK m : m = [Idle EXCEPT !.pc = "chunk", !.mode = mode, !.rest = r]
  BY Zenon
<1>14. loc' = [loc EXCEPT ![t] = m] /\ cache' = [cache EXCEPT ![t] = c]
  BY <1>6, <1>8, <1>11, <1>13, Zenon
<1>15. /\ m \in LocRec /\ m.pc = "chunk" /\ m.rest = r
       /\ m.fetched = Idle.fetched /\ m.scratch = Idle.scratch /\ m.chunk = Idle.chunk
       /\ m.span = Idle.span /\ m.empty = Idle.empty /\ m.extracted = Idle.extracted
       /\ m.need = Idle.need /\ m.n = Idle.n
  BY <1>10, <1>13, IdleRec, Zenon DEF LocRec, Releasing
<1>16. /\ m.fetched = {} /\ m.scratch = <<>> /\ m.chunk = <<>> /\ m.span = 0 /\ m.empty = <<>>
       /\ m.extracted = 0 /\ m.need = 0 /\ m.n = 0
  BY <1>15, IdleHand, Zenon
<1>17. m.extracted <= m.need + m.n
  BY <1>16
<1>18. LocOK(m) /\ m.pc \notin Locking /\ HandOf(m) = objs /\ OnceIn(m, c)
  <2>1. Lists(m.rest, objs)
    BY <1>10, <1>15, Zenon
  <2> QED BY <2>1, <1>12, <1>15, <1>16, <1>17, ChunkLoc, Zenon
<1>19. m.span = l.span /\ m.empty = l.empty
  BY <1>3, <1>15, Zenon
<1>20. /\ Range(transfer_cache) \cap (c \cup HandOf(m)) = {}
       /\ Range(transfer_cache) \cup c \cup HandOf(m) = Reach(t)
  BY <1>3, <1>4, <1>12, <1>18, Zenon
<1> QED BY <1>1, <1>2, <1>3, <1>5, <1>12, <1>14, <1>15, <1>18, <1>19, <1>20, ObjectsMove, Zenon

\* Steps that touch neither spans nor the places of threads.
LEMMA QuietKeeps ==
    ASSUME IInv, UNCHANGED <<span_list, sp, lent, lock, loc>>
    PROVE  Control' /\ SpansOnce' /\ ListInv'
<1>1. span_list' = span_list /\ sp' = sp /\ lent' = lent /\ lock' = lock /\ loc' = loc
  BY Zenon
<1>2. Control'
  BY <1>1, Zenon DEF IInv, Control
<1>3. SpansOnce'
  <2>1. \A t \in Threads : Moving(t)' = Moving(t)
    BY <1>1, Zenon DEF Moving
  <2>2. UNION {Moving(t)' : t \in Threads} = UNION {Moving(t) : t \in Threads}
    BY <2>1, Zenon
  <2> QED BY <1>1, <2>1, <2>2, ZenonT(60) DEF IInv, SpansOnce
<1>4. FullSpans' = FullSpans /\ (Loose' <=> Loose) /\ (Fresh' <=> Fresh)
  BY <1>1, Zenon DEF FullSpans, Loose, Fresh
<1>5. /\ TailSorted(span_list, FullSpans)' <=> TailSorted(span_list, FullSpans)
      /\ Sorted(span_list, FullSpans)' <=> Sorted(span_list, FullSpans)
  BY <1>1, <1>4, Zenon DEF TailSorted, Sorted
<1>6. ListInv'
  <2>1. /\ Loose => span_list # <<>>
        /\ TailSorted(span_list, FullSpans) /\ (Loose \/ Sorted(span_list, FullSpans))
    BY Zenon DEF IInv, ListInv
  <2>2. \A s \in Range(span_list)' : sp'[s].use_count > 0 \/ (Fresh' /\ s = span_list'[1])
    BY <1>1, <1>4, Zenon DEF IInv, ListInv
  <2> QED BY <1>1, <1>4, <1>5, <2>1, <2>2, Zenon DEF ListInv
<1> QED BY <1>2, <1>3, <1>6, Zenon

\* An object changes hands between callers.
LEMMA HandOverKeeps ==
    ASSUME IInv, NEW t \in Threads, NEW u \in Threads, HandOver(t, u)
    PROVE  IInv'
<1>1. /\ t # u /\ span_list' = span_list /\ sp' = sp /\ lent' = lent /\ lock' = lock /\ loc' = loc
      /\ transfer_cache' = transfer_cache /\ transfer_capacity' = transfer_capacity
  BY Zenon DEF HandOver
<1>2. PICK o \in cache[t] :
        cache' = [cache EXCEPT ![t] = cache[t] \ {o}, ![u] = cache[u] \cup {o}]
  BY <1>1, Zenon DEF HandOver, IInv, Data
<1>3. cache \in [Threads -> SUBSET Objects]
  BY Zenon DEF IInv, Data
<1>4. /\ cache' \in [Threads -> SUBSET Objects]
      /\ cache'[t] = cache[t] \ {o} /\ cache'[u] = cache[u] \cup {o}
      /\ \A v \in Threads \ {t, u} : cache'[v] = cache[v]
  BY <1>1, <1>2, <1>3, Zenon
<1>5. Control' /\ SpansOnce' /\ ListInv'
  BY <1>1, QuietKeeps, Zenon
<1>6. Data'
  BY <1>1, <1>4, Zenon DEF IInv, Data
<1>7. \A v \in Threads : Hand(v)' = Hand(v)
  BY <1>1, Zenon DEF Hand
<1>8. /\ \A v \in Threads : HeldOnce(v) /\ Range(transfer_cache) \cap Held(v) = {}
      /\ \A v, w \in Threads : v # w => Held(v) \cap Held(w) = {}
      /\ IsInjective(transfer_cache)
  BY Zenon DEF IInv, Once
<1>9. o \in Held(t) /\ o \notin Hand(t) /\ o \notin Hand(u)
  BY <1>1, <1>2, <1>8, Zenon DEF HeldOnce, Held
<1>10. /\ Held(t)' = Held(t) \ {o} /\ Held(u)' = Held(u) \cup {o}
       /\ \A v \in Threads \ {t, u} : Held(v)' = Held(v)
  BY <1>4, <1>7, <1>9, ZenonT(60) DEF Held
<1>11. \A v \in Threads : HeldOnce(v)'
  <2>1. \A v \in Threads : cache[v] \cap Hand(v) = {}
    BY <1>8, Zenon DEF HeldOnce
  <2>2. \A v \in Threads : \A x \in cache'[v] : x \in cache[v] \/ (x = o /\ v = u)
    BY <1>4, Zenon
  <2>3. \A v \in Threads : cache'[v] \cap Hand(v) = {}
    BY <2>1, <2>2, <1>9, Zenon
  <2>4. \A v \in Threads : cache'[v] \cap Hand(v)' = {}
    BY <2>3, <1>7, Zenon
  <2> QED BY <1>1, <1>8, <2>4, Zenon DEF HeldOnce
<1>12. \A v \in Threads : o \in Held(v) => v = t
  BY <1>8, <1>9, Zenon
<1>13. /\ \A v \in Threads : \A x \in Held(v)' : x \in Held(v) \/ (x = o /\ v = u)
       /\ \A v \in Threads : o \in Held(v)' => v = u
  <2>1. \A v \in Threads : \A x \in Held(v)' : x \in Held(v) \/ (x = o /\ v = u)
    BY <1>10, Zenon
  <2> QED BY <2>1, <1>10, <1>12, Zenon
<1>14. /\ \A v, w \in Threads : v # w => Held(v)' \cap Held(w)' = {}
       /\ \A v \in Threads : Range(transfer_cache)' \cap Held(v)' = {}
  <2>1. ASSUME NEW v \in Threads, NEW w \in Threads, v # w, NEW x, x \in Held(v)', x \in Held(w)'
        PROVE  FALSE
    <3>1. x # o
      BY <2>1, <1>13, Zenon
    <3>2. x \in Held(v) /\ x \in Held(w)
      BY <2>1, <3>1, <1>13, Zenon
    <3> QED BY <2>1, <3>2, <1>8, Zenon
  <2>2. ASSUME NEW v \in Threads, NEW x, x \in Range(transfer_cache), x \in Held(v)' PROVE FALSE
    <3>1. x \in Held(v) \/ x = o
      BY <2>2, <1>13, Zenon
    <3> QED BY <2>2, <3>1, <1>8, <1>9, Zenon
  <2> QED BY <1>1, <2>1, <2>2, Zenon
<1>15. Once'
  BY <1>1, <1>8, <1>11, <1>14, ZenonT(60) DEF Once
<1>16. Out' = Out
  <2>1. ASSUME NEW x PROVE (\E v \in Threads : x \in Held(v)') <=> \E v \in Threads : x \in Held(v)
    BY <1>1, <1>9, <1>10, ZenonT(60)
  <2> QED BY <1>1, <2>1, ZenonT(60) DEF Out
<1>17. Match'
  BY <1>1, <1>16, Zenon DEF IInv, Match
<1> QED BY <1>5, <1>6, <1>15, <1>17, Zenon DEF IInv

\* What a thread holds after it took a chunk of which `left' remains.
ChunkDone(l, r, left, x) ==
    LET m == [l EXCEPT !.rest = r]
    IN  x = IF left = <<>> THEN AfterChunk(m) ELSE [m EXCEPT !.chunk = left, !.pc = "rellock"]

LEMMA ChunkNext ==
    ASSUME NEW l \in LocRec, LocOK(l), l.pc = "chunk",
           NEW r, Lists(r, Range(r)), Range(r) \subseteq Objects,
           NEW left, Lists(left, Range(left)), Range(left) \subseteq Objects,
           Range(r) \cap Range(left) = {},
           NEW c, c \cap (Range(r) \cup Range(left)) = {}, NEW x, ChunkDone(l, r, left, x)
    PROVE  /\ x \in LocRec /\ LocOK(x) /\ x.pc \notin Locking /\ x.span = l.span
           /\ x.empty = l.empty /\ HandOf(x) = Range(r) \cup Range(left) /\ OnceIn(x, c)
<1> DEFINE R == Range(r)
           C == Range(left)
<1> SUFFICES /\ x \in LocRec /\ LocOK(x) /\ x.pc \notin Locking /\ x.span = l.span
             /\ x.empty = l.empty /\ HandOf(x) = R \cup C /\ OnceIn(x, c)
  BY Zenon
<1>0. PICK m : m = [l EXCEPT !.rest = r]
  BY Zenon
<1>1. /\ l.fetched = {} /\ l.scratch = <<>> /\ l.chunk = <<>> /\ l.empty = <<>> /\ l.span = 0
      /\ l.extracted <= l.need + l.n
  BY Zenon DEF LocOK, Fetching
<1>2. r \in Seq(Objects) /\ Range(r) = R /\ IsInjective(r)
  BY ListsIn, Zenon
<1>3. left \in Seq(Objects) /\ Range(left) = C /\ IsInjective(left)
  BY ListsIn, Zenon
<1>9. R \cap C = {} /\ c \cap (R \cup C) = {}
  BY Zenon
<1> HIDE DEF R, C
<1>4. /\ m \in LocRec /\ m.pc = "chunk" /\ m.n = l.n /\ m.fetched = l.fetched
      /\ m.extracted = l.extracted /\ m.need = l.need /\ m.scratch = l.scratch
      /\ m.rest = r /\ m.chunk = l.chunk /\ m.empty = l.empty /\ m.span = l.span
      /\ m.drain = l.drain
  BY <1>0, <1>2, Zenon DEF LocRec
<1>5. /\ m.fetched = {} /\ m.scratch = <<>> /\ m.chunk = <<>> /\ m.empty = <<>> /\ m.span = 0
      /\ m.extracted <= m.need + m.n
  BY <1>1, <1>4, Zenon
<1>6. Range(<<>>) = {} /\ IsInjective(<<>>)
  BY EmptyLists, Zenon
<1>7. CASE left = <<>>
  <2>1. x = AfterChunk(m) /\ C = {}
    BY <1>0, <1>3, <1>6, <1>7, Zenon DEF ChunkDone
  <2>2. /\ x \in LocRec /\ LocOK(x) /\ x.pc \notin Locking
        /\ x.fetched = {} /\ x.scratch = <<>> /\ x.rest = m.rest /\ x.chunk = <<>>
        /\ x.empty = <<>> /\ x.span = 0
    BY <2>1, <1>4, <1>5, AfterChunkOK, Zenon
  <2>3. HandOf(x) = R \cup C
    BY <2>1, <2>2, <1>2, <1>4, <1>6, Zenon DEF HandOf
  <2>4. OnceIn(x, c)
    BY <2>1, <2>2, <2>3, <1>2, <1>4, <1>6, <1>9, Zenon DEF OnceIn
  <2> QED BY <2>2, <2>3, <2>4, <1>1, Zenon
<1>8. CASE left # <<>>
  <2>1. x = [m EXCEPT !.chunk = left, !.pc = "rellock"]
    BY <1>0, <1>8, Zenon DEF ChunkDone
  <2>2. /\ x \in LocRec /\ x.pc = "rellock" /\ x.n = m.n /\ x.fetched = m.fetched
        /\ x.extracted = m.extracted /\ x.need = m.need /\ x.scratch = m.scratch
        /\ x.rest = m.rest /\ x.chunk = left /\ x.empty = m.empty /\ x.span = m.span
    BY <2>1, <1>3, <1>4, Zenon DEF LocRec, Releasing
  <2>3. x.extracted <= x.need + x.n
    BY <2>2, <1>5, Zenon
  <2>4. LocOK(x) /\ x.pc \notin Locking
    BY <2>2, <2>3, <1>5, Zenon DEF LocOK, Fetching, Releasing, Locking
  <2>5. /\ x.fetched = {} /\ Range(x.scratch) = {} /\ Range(x.rest) = R /\ Range(x.chunk) = C
        /\ IsInjective(x.scratch) /\ IsInjective(x.rest) /\ IsInjective(x.chunk)
    <3>1. x.fetched = {} /\ x.scratch = <<>> /\ x.rest = r /\ x.chunk = left
      BY <2>2, <1>4, <1>5, Zenon
    <3>2. Range(x.scratch) = {} /\ IsInjective(x.scratch)
      BY <3>1, <1>6, Zenon
    <3>3. Range(x.rest) = R /\ IsInjective(x.rest)
      BY <3>1, <1>2, Zenon
    <3>4. Range(x.chunk) = C /\ IsInjective(x.chunk)
      BY <3>1, <1>3, Zenon
    <3> QED BY <3>1, <3>2, <3>3, <3>4, Zenon
  <2>6. HandOf(x) = R \cup C
    BY <2>5, Zenon DEF HandOf
  <2>7. OnceIn(x, c)
    BY <2>5, <2>6, <1>9, Zenon DEF OnceIn
  <2> QED BY <2>2, <2>4, <2>6, <2>7, <1>4, Zenon
<1> QED BY <1>7, <1>8, Zenon

LEMMA ReleaseChunkKeeps ==
    ASSUME IInv, NEW t \in Threads, ReleaseChunk(t)
    PROVE  IInv'
<1>1. PICK l \in LocRec : l = loc[t] /\ LocOK(l)
  BY Zenon DEF IInv, Control
<1>2. PICK k : k = Shorter(Len(l.rest), kMaxBatchSize)
  BY Zenon
<1>3. PICK local, r : Cut(l.rest, k, local, r)
  BY Zenon DEF Cut
<1>4. PICK a, b, p : Push(local, a, b, p)
  BY Zenon DEF Push
<1>5. PICK left : left = IF l.mode = "transfer" THEN b ELSE local
  BY Zenon
<1>6. PICK q : q = IF l.mode = "transfer" THEN p ELSE transfer_cache
  BY Zenon
<1>7. PICK x : ChunkDone(l, r, left, x)
  BY Zenon DEF ChunkDone
<1>9. /\ l.pc = "chunk" /\ lock' = lock /\ UNCHANGED <<span_list, sp, lent, transfer_capacity>>
      /\ cache' = cache
  BY <1>1, Zenon DEF ReleaseChunk, At
<1>10. transfer_cache' = q
  BY <1>1, <1>2, <1>3, <1>4, <1>6, Zenon DEF ReleaseChunk, Cut, Push
<1>11. loc' = [loc EXCEPT ![t] = x]
  BY <1>1, <1>2, <1>3, <1>4, <1>5, <1>7, Zenon DEF ReleaseChunk, Cut, Push, ChunkDone
<1>12. /\ l.fetched = {} /\ l.scratch = <<>> /\ l.chunk = <<>> /\ l.pc \notin Locking
  BY <1>1, <1>9, Zenon DEF LocOK, Fetching, Locking
<1>13. /\ Reach(t) = Range(transfer_cache) \cup cache[t] \cup HandOf(l)
       /\ Range(transfer_cache) \cap (cache[t] \cup HandOf(l)) = {} /\ cache[t] \in SUBSET Objects
       /\ OnceIn(l, cache[t])
  BY <1>1, ReachParts, Zenon
<1>14. PICK W : W = Range(l.rest)
  BY Zenon
<1>15. Lists(l.rest, W) /\ W \subseteq Objects
  BY <1>1, <1>14, HandLists, Zenon
<1>16. HandOf(l) = W /\ cache[t] \cap W = {} /\ W \cap Range(transfer_cache) = {}
  <2>1. Range(l.scratch) = {} /\ Range(l.chunk) = {}
    BY <1>12, EmptyLists, Zenon
  <2>2. HandOf(l) = W
    BY <2>1, <1>12, <1>14, Zenon DEF HandOf
  <2>3. cache[t] \cap HandOf(l) = {}
    BY <1>13, Zenon DEF OnceIn
  <2> QED BY <2>2, <2>3, <1>13, Zenon
<1>17. Len(l.rest) \in Nat /\ k \in 0 .. Len(l.rest)
  <2>1. Len(l.rest) \in Nat
    BY <1>15, ListsFacts, Zenon
  <2> QED BY <2>1, <1>2 DEF Shorter
<1>18. /\ Lists(local, Range(local)) /\ Lists(r, Range(r))
       /\ Range(local) \cup Range(r) = W /\ Range(local) \cap Range(r) = {}
  BY <1>3, <1>15, <1>17, CutAt
<1>19. PICK L, R : L = Range(local) /\ R = Range(r)
  BY Zenon
<1>20. /\ Lists(local, L) /\ Lists(r, R) /\ L \cup R = W /\ L \cap R = {} /\ L \subseteq Objects
       /\ R \subseteq Objects /\ L \cap Range(transfer_cache) = {}
  BY <1>15, <1>16, <1>18, <1>19, Zenon
<1>21. /\ p \in Seq(Objects) /\ IsInjective(p) /\ Range(p) = Range(transfer_cache) \cup Range(a)
       /\ Len(p) <= transfer_capacity /\ Lists(b, Range(b))
       /\ Range(a) \cup Range(b) = L /\ Range(a) \cap Range(b) = {}
  <2>1. IInv /\ Lists(local, L) /\ L \subseteq Objects /\ L \cap Range(transfer_cache) = {}
    BY <1>20, Zenon
  <2> QED BY <2>1, <1>4, PushOK
<1>22. /\ transfer_cache \in Seq(Objects) /\ IsInjective(transfer_cache)
       /\ Len(transfer_cache) <= transfer_capacity
  BY Zenon DEF IInv, Data, Once
<1>23. PICK C : C = Range(left)
  BY Zenon
<1>24. /\ q \in Seq(Objects) /\ IsInjective(q) /\ Len(q) <= transfer_capacity /\ Lists(left, C)
       /\ Range(q) \cup C = Range(transfer_cache) \cup L /\ Range(q) \cap C = {}
       /\ Range(q) \cap (R \cup cache[t]) = {} /\ C \subseteq L
  <2>1. CASE l.mode = "transfer"
    <3>1. q = p /\ left = b /\ C = Range(b)
      BY <2>1, <1>5, <1>6, <1>23, Zenon
    <3>2. Range(p) \cup Range(b) = Range(transfer_cache) \cup L /\ Range(b) \subseteq L
      BY <1>21, Zenon
    <3>3. Range(p) \cap Range(b) = {}
      BY <1>20, <1>21, Zenon
    <3>4. Range(p) \cap (R \cup cache[t]) = {}
      <4>1. Range(a) \subseteq L /\ R \subseteq W /\ L \subseteq W
        BY <1>20, <1>21, Zenon
      <4> QED BY <4>1, <1>13, <1>16, <1>20, <1>21, Zenon
    <3> QED BY <3>1, <3>2, <3>3, <3>4, <1>21, Zenon
  <2>2. CASE l.mode # "transfer"
    <3>1. q = transfer_cache /\ left = local /\ C = L
      BY <2>2, <1>5, <1>6, <1>19, <1>23, Zenon
    <3>2. Range(transfer_cache) \cap (R \cup cache[t]) = {}
      BY <1>13, <1>16, <1>20, Zenon
    <3> QED BY <3>1, <3>2, <1>20, <1>22, Zenon
  <2> QED BY <2>1, <2>2, Zenon
<1>25. C \subseteq Objects /\ R \cap C = {} /\ cache[t] \cap (R \cup C) = {}
  BY <1>16, <1>20, <1>24, Zenon
<1>26. /\ x \in LocRec /\ LocOK(x) /\ x.pc \notin Locking /\ x.span = l.span
       /\ x.empty = l.empty /\ HandOf(x) = R \cup C /\ OnceIn(x, cache[t])
  <2>1. /\ LocOK(l) /\ l.pc = "chunk" /\ Lists(r, R) /\ R \subseteq Objects /\ Lists(left, C)
        /\ C \subseteq Objects /\ R \cap C = {} /\ cache[t] \cap (R \cup C) = {}
    BY <1>1, <1>9, <1>20, <1>24, <1>25, Zenon
  <2>2. /\ LocOK(l) /\ l.pc = "chunk" /\ Lists(r, Range(r)) /\ Range(r) \subseteq Objects
        /\ Lists(left, Range(left)) /\ Range(left) \subseteq Objects
        /\ Range(r) \cap Range(left) = {} /\ cache[t] \cap (Range(r) \cup Range(left)) = {}
    BY <2>1, <1>19, <1>23, Zenon
  <2>3. /\ x \in LocRec /\ LocOK(x) /\ x.pc \notin Locking /\ x.span = l.span
        /\ x.empty = l.empty /\ HandOf(x) = Range(r) \cup Range(left) /\ OnceIn(x, cache[t])
    BY <2>2, <1>7, ChunkNext, Zenon
  <2> QED BY <2>3, <1>19, <1>23, Zenon
<1>27. Range(q) \cap (cache[t] \cup HandOf(x)) = {}
  BY <1>24, <1>26, Zenon
<1>28. Range(q) \cup cache[t] \cup HandOf(x) = Reach(t)
  <2>1. Reach(t) = Range(transfer_cache) \cup cache[t] \cup (L \cup R)
    BY <1>13, <1>16, <1>20, Zenon
  <2>2. Range(q) \cup C = Range(transfer_cache) \cup L /\ HandOf(x) = R \cup C
    BY <1>24, <1>26, Zenon
  <2> QED BY <2>1, <2>2, Zenon
<1>29. cache' = [cache EXCEPT ![t] = cache[t]]
  BY <1>9, Zenon DEF IInv, Data
<1> QED BY <1>1, <1>9, <1>10, <1>11, <1>12, <1>13, <1>24, <1>26, <1>27, <1>28, <1>29, ObjectsMove, ZenonT(60)

LEMMA DrainDetachKeeps ==
    ASSUME IInv, NEW t \in Threads, DrainDetach(t)
    PROVE  IInv'
<1>1. PICK l \in LocRec : l = loc[t] /\ LocOK(l)
  BY Zenon DEF IInv, Control
<1>2. PICK k : k = Shorter(Shorter(kMaxBatchSize, l.drain), Len(transfer_cache))
  BY Zenon
<1>3. PICK a, q : Cut(transfer_cache, k, a, q)
  BY Zenon DEF Cut
<1>4. /\ l.pc = "drain" /\ lock' = lock /\ UNCHANGED <<span_list, sp, lent, transfer_capacity>>
      /\ cache' = cache
  BY <1>1, Zenon DEF DrainDetach, At
<1>5. PICK x : x = IF k = 0 THEN Idle
                   ELSE [l EXCEPT !.pc = "chunk", !.drain = DrainLeft(l.drain, k), !.rest = Reversed(a)]
  BY Zenon
<1>6. transfer_cache' = q /\ loc' = [loc EXCEPT ![t] = x]
  BY <1>1, <1>2, <1>3, <1>5, Zenon DEF DrainDetach, Cut
<1>7. /\ l.fetched = {} /\ l.scratch = <<>> /\ l.chunk = <<>> /\ l.empty = <<>> /\ l.span = 0
      /\ l.rest = <<>> /\ l.extracted <= l.need + l.n /\ l.pc \notin Locking
  BY <1>1, <1>4, Zenon DEF LocOK, Fetching, Locking
<1>8. /\ Reach(t) = Range(transfer_cache) \cup cache[t] \cup HandOf(l)
      /\ Range(transfer_cache) \cap (cache[t] \cup HandOf(l)) = {} /\ cache[t] \in SUBSET Objects
      /\ Lists(transfer_cache, Range(transfer_cache)) /\ Range(transfer_cache) \subseteq Objects
      /\ Len(transfer_cache) \in Nat /\ transfer_capacity \in Nat
      /\ Len(transfer_cache) <= transfer_capacity
  BY <1>1, ReachParts, Zenon
<1>9. HandOf(l) = {}
  <2>1. Range(l.scratch) = {} /\ Range(l.chunk) = {} /\ Range(l.rest) = {}
    BY <1>7, EmptyLists, Zenon
  <2> QED BY <2>1, <1>7, Zenon DEF HandOf
<1>10. k \in 0 .. Len(transfer_cache) /\ l.drain - k \in Nat /\ k \in Nat
  <2>1. l.drain \in Nat
    BY Zenon DEF LocRec
  <2> QED BY <2>1, <1>2, <1>8 DEF Shorter
<1>11. /\ Lists(a, Range(a)) /\ Lists(q, Range(q)) /\ Len(a) = k /\ Len(q) = Len(transfer_cache) - k
       /\ Range(a) \cup Range(q) = Range(transfer_cache) /\ Range(a) \cap Range(q) = {}
  <2>1. Lists(transfer_cache, Range(transfer_cache)) /\ k \in 0 .. Len(transfer_cache)
    BY <1>8, <1>10, Zenon
  <2> QED BY <2>1, <1>3, CutAt
<1>12. PICK A : A = Range(a)
  BY Zenon
<1>13. /\ Lists(a, A) /\ A \cup Range(q) = Range(transfer_cache) /\ A \cap Range(q) = {}
       /\ A \subseteq Objects /\ Range(q) \subseteq Objects
  BY <1>8, <1>11, <1>12, Zenon
<1>14. q \in Seq(Objects) /\ IsInjective(q)
  BY <1>11, <1>13, ListsIn, Zenon
<1>15. Len(q) <= transfer_capacity
  BY <1>8, <1>10, <1>11
<1>16. cache[t] \cap A = {}
  BY <1>8, <1>13, Zenon
<1>17. /\ x \in LocRec /\ LocOK(x) /\ x.pc \notin Locking /\ x.span = l.span
       /\ x.empty = l.empty /\ HandOf(x) = A /\ OnceIn(x, cache[t])
  <2>1. CASE k = 0
    <3>1. A = {}
      <4>1. \A y \in A : \E i \in 1 .. Len(a) : a[i] = y
        BY <1>13, ListsFacts, Zenon
      <4> QED BY <4>1, <1>11, <2>1
    <3>2. x = Idle
      BY <2>1, <1>5, Zenon
    <3> QED BY <3>1, <3>2, <1>7, IdleRec, IdleHand, Zenon
  <2>2. CASE k # 0
    <3>1. x = [l EXCEPT !.pc = "chunk", !.drain = l.drain - k, !.rest = Reversed(a)]
      BY <2>2, <1>5, Zenon DEF DrainLeft
    <3>2. Lists(Reversed(a), A)
      BY <1>13, ReverseLists, Zenon
    <3>3. Reversed(a) \in Seq(Objects)
      BY <3>2, <1>13, ListsIn, Zenon
    <3>4. /\ x \in LocRec /\ x.pc = "chunk" /\ x.rest = Reversed(a)
          /\ x.fetched = l.fetched /\ x.scratch = l.scratch /\ x.chunk = l.chunk
          /\ x.span = l.span /\ x.empty = l.empty /\ x.extracted = l.extracted
          /\ x.need = l.need /\ x.n = l.n
      BY <3>1, <3>3, <1>10, Zenon DEF LocRec, Releasing
    <3>5. /\ x.fetched = {} /\ x.scratch = <<>> /\ x.chunk = <<>> /\ x.span = 0 /\ x.empty = <<>>
          /\ x.extracted <= x.need + x.n /\ Lists(x.rest, A)
      BY <3>2, <3>4, <1>7, Zenon
    <3> QED BY <3>4, <3>5, <1>16, ChunkLoc, Zenon
  <2> QED BY <2>1, <2>2, Zenon
<1>18. Range(q) \cap (cache[t] \cup HandOf(x)) = {} /\ Range(q) \cup cache[t] \cup HandOf(x) = Reach(t)
  BY <1>8, <1>9, <1>13, <1>17, Zenon
<1>19. cache' = [cache EXCEPT ![t] = cache[t]]
  BY <1>4, Zenon DEF IInv, Data
<1> QED BY <1>1, <1>4, <1>6, <1>7, <1>8, <1>14, <1>15, <1>17, <1>18, <1>19, ObjectsMove, ZenonT(60)

-----------------------------------------------------------------------------
(* Spans on their way into the list and back to PageCache *)

LEMMA MovingIn ==
    ASSUME IInv, NEW t \in Threads
    PROVE  Moving(t) \subseteq lent /\ Range(span_list) \subseteq lent /\ lent \subseteq Spans
<1>1. lent = Range(span_list) \cup UNION {Moving(u) : u \in Threads} /\ lent \subseteq Spans
  BY Zenon DEF IInv, SpansOnce, Data
<1>2. Moving(t) \subseteq UNION {Moving(u) : u \in Threads}
  BY Zenon
<1> QED BY <1>1, <1>2, Zenon

\* Thread t takes the spans `come' and gives up `gone'; the list changes by
\* what t gives it or takes from it.
LEMMA SpanExchange ==
    ASSUME SpansOnce, NEW t \in Threads, Others(t), NEW L, span_list' = L, IsInjective(L),
           IsInjective(loc'[t].empty), NEW M, Moving(t)' = M, M \cap Range(L) = {},
           NEW come, NEW gone, come \cap lent = {}, gone \subseteq Range(span_list) \cup Moving(t),
           Range(L) \cup M = ((Range(span_list) \cup Moving(t)) \ gone) \cup come,
           lent' = (lent \ gone) \cup come,
           \A s \in M : sp'[s].use_count = 0,
           \A u \in Threads \ {t} : \A s \in Moving(u) : sp'[s] = sp[s]
    PROVE  SpansOnce'
<1> DEFINE V == Range(span_list) \cup Moving(t)
<1>1. \A u \in Threads \ {t} : Moving(u)' = Moving(u) /\ loc'[u].empty = loc[u].empty
  BY Zenon DEF Others, Moving
<1>2. \A u \in Threads \ {t} : Moving(u) \cap V = {}
  <2> TAKE u \in Threads \ {t}
  <2>1. Moving(u) \cap Range(span_list) = {} /\ Moving(u) \cap Moving(t) = {}
    BY Zenon DEF SpansOnce
  <2> QED BY <2>1, Zenon
<1>3. \A u \in Threads \ {t} : Moving(u) \subseteq lent
  <2> TAKE u \in Threads \ {t}
  <2>1. lent = Range(span_list) \cup UNION {Moving(v) : v \in Threads}
    BY Zenon DEF SpansOnce
  <2>2. Moving(u) \subseteq UNION {Moving(v) : v \in Threads}
    BY Zenon
  <2> QED BY <2>1, <2>2, Zenon
<1>4. \A u \in Threads \ {t} : Moving(u)' \cap (Range(L) \cup M) = {}
  <2> TAKE u \in Threads \ {t}
  <2>1. Moving(u)' = Moving(u) /\ Moving(u) \cap V = {} /\ Moving(u) \cap come = {}
    BY <1>1, <1>2, <1>3, Zenon
  <2> QED BY <2>1, Zenon
<1> HIDE DEF V
<1>5. \A u, v \in Threads : u # v => Moving(u)' \cap Moving(v)' = {}
  <2> SUFFICES ASSUME NEW u \in Threads, NEW v \in Threads, u # v
               PROVE  Moving(u)' \cap Moving(v)' = {}
    BY Zenon
  <2>1. CASE u = t
    BY <2>1, <1>4, Zenon
  <2>2. CASE v = t
    BY <2>2, <1>4, Zenon
  <2>3. CASE u # t /\ v # t
    <3>1. Moving(u) \cap Moving(v) = {}
      BY Zenon DEF SpansOnce
    <3>2. Moving(u)' = Moving(u) /\ Moving(v)' = Moving(v)
      BY <2>3, <1>1, Zenon
    <3> QED BY <3>1, <3>2, Zenon
  <2> QED BY <2>1, <2>2, <2>3, Zenon
<1>6. \A u \in Threads : /\ IsInjective(loc'[u].empty) /\ Moving(u)' \cap Range(L) = {}
                         /\ \A s \in Moving(u)' : sp'[s].use_count = 0
  <2> TAKE u \in Threads
  <2>1. CASE u = t
    BY <2>1, Zenon
  <2>2. CASE u # t
    <3>1. /\ IsInjective(loc[u].empty) /\ \A s \in Moving(u) : sp[s].use_count = 0
      BY Zenon DEF SpansOnce
    <3>2. Moving(u)' = Moving(u) /\ loc'[u].empty = loc[u].empty /\ Moving(u)' \cap Range(L) = {}
      BY <2>2, <1>1, <1>4, Zenon
    <3>3. \A s \in Moving(u) : sp'[s] = sp[s]
      BY <2>2, Zenon
    <3> QED BY <3>1, <3>2, <3>3, Zenon
  <2> QED BY <2>1, <2>2, Zenon
<1>7. ASSUME NEW s PROVE s \in lent' <=> s \in Range(L) \/ \E u \in Threads : s \in Moving(u)'
  <2>1. s \in lent <=> s \in Range(span_list) \/ \E u \in Threads : s \in Moving(u)
    <3>1. lent = Range(span_list) \cup UNION {Moving(u) : u \in Threads}
      BY Zenon DEF SpansOnce
    <3>2. s \in lent <=> s \in Range(span_list) \cup UNION {Moving(u) : u \in Threads}
      BY <3>1, Zenon
    <3> QED BY <3>2, Zenon
  <2>2. s \in lent <=> s \in V \/ \E u \in Threads \ {t} : s \in Moving(u)
    BY <2>1, Zenon DEF V
  <2>3. (\E u \in Threads \ {t} : s \in Moving(u)') <=> \E u \in Threads \ {t} : s \in Moving(u)
    BY <1>1, Zenon
  <2>4. (\E u \in Threads \ {t} : s \in Moving(u)) => s \notin V
    BY <1>2, Zenon
  <2>5. s \in Range(L) \cup M <=> (s \in V /\ s \notin gone) \/ s \in come
    BY Zenon DEF V
  <2>6. s \in gone => s \in V
    BY Zenon DEF V
  <2>7. s \in lent' <=> s \in Range(L) \cup M \/ \E u \in Threads \ {t} : s \in Moving(u)'
    BY <2>2, <2>3, <2>4, <2>5, <2>6, Zenon
  <2> QED BY <2>7, Zenon
<1>8. lent' = Range(L) \cup UNION {Moving(u)' : u \in Threads}
  BY <1>7, ZenonT(60)
<1> QED BY <1>5, <1>6, <1>8, Zenon DEF SpansOnce

\* No object changes hands.
LEMMA HandsStill ==
    ASSUME Once, NEW t \in Threads, Others(t), transfer_cache' = transfer_cache, cache' = cache,
           loc'[t].fetched = loc[t].fetched, loc'[t].scratch = loc[t].scratch,
           loc'[t].rest = loc[t].rest, loc'[t].chunk = loc[t].chunk
    PROVE  Once' /\ Out' = Out
<1>1. \A u \in Threads : /\ loc'[u].fetched = loc[u].fetched /\ loc'[u].scratch = loc[u].scratch
                          /\ loc'[u].rest = loc[u].rest /\ loc'[u].chunk = loc[u].chunk
  BY Zenon DEF Others
<1>2. \A u \in Threads : Hand(u)' = Hand(u) /\ Held(u)' = Held(u)
  BY <1>1, Zenon DEF Hand, Held
<1>3. \A u \in Threads : HeldOnce(u) => HeldOnce(u)'
  BY <1>1, <1>2, Zenon DEF HeldOnce
<1>4. Out' = Out
  BY <1>2, Zenon DEF Out
<1>5. Once'
  BY <1>2, <1>3, Zenon DEF Once
<1> QED BY <1>4, <1>5, Zenon

LEMMA SpanFacts ==
    ASSUME SpanLaws, IInv, NEW s \in Spans
    PROVE  /\ SpanOK(sp[s]) /\ sp[s].use_count \in Nat /\ sp[s].bitmap \subseteq AllSlots
           /\ sp[s].use_count = 0 <=> sp[s].bitmap = AllSlots
           /\ s \in FullSpans <=> IsFull(sp[s])
           /\ s \in FullSpans => sp[s].use_count > 0
           /\ AllocSlot(sp[s]) = NoSlot => s \in FullSpans
<1>1. SpanOK(sp[s])
  BY Zenon DEF IInv, Data
<1>2. sp[s].use_count \in Nat /\ sp[s].bitmap \subseteq AllSlots
  BY <1>1, Zenon DEF SpanOK, SpanRec
<1>3. /\ IsFull(sp[s]) <=> sp[s].bitmap = {}
      /\ AllocSlot(sp[s]) = NoSlot => IsFull(sp[s])
  BY <1>1, Zenon DEF SpanLaws, AllocFinds
<1>4. sp[s].use_count = 0 <=> sp[s].bitmap = AllSlots
  BY <1>1, Zenon DEF SpanLaws, AllocFinds
<1>5. s \in FullSpans <=> IsFull(sp[s])
  BY Zenon DEF FullSpans
<1>6. 0 \in AllSlots
  BY DEF AllSlots
<1>7. s \in FullSpans => sp[s].use_count # 0
  BY <1>3, <1>4, <1>5, <1>6, Zenon
<1>8. s \in FullSpans => sp[s].use_count > 0
  BY <1>2, <1>7
<1> QED BY <1>1, <1>2, <1>3, <1>4, <1>5, <1>8, Zenon

LEMMA GetOneSpanKeeps ==
    ASSUME SpanLaws, IInv, NEW t \in Threads, GetOneSpan(t)
    PROVE  IInv'
<1>1. PICK l \in LocRec : l = loc[t] /\ LocOK(l)
  BY Zenon DEF IInv, Control
<1>2. /\ l.pc = "getspan"
      /\ UNCHANGED <<span_list, lock, transfer_cache, transfer_capacity, cache>>
  BY <1>1, Zenon DEF GetOneSpan, At
<1>3. /\ l.rest = <<>> /\ l.chunk = <<>> /\ l.span = 0 /\ l.empty = <<>> /\ l.pc \notin Locking
      /\ l.extracted < l.need + l.n /\ l.extracted <= l.need + l.n /\ l.drain = 0
  BY <1>1, <1>2, Zenon DEF LocOK, Releasing, Locking
<1>4. ASSUME loc' = [loc EXCEPT ![t].pc = "nospan"], UNCHANGED <<lent, sp>>
      PROVE  IInv'
  <2>1. "nospan" \in Fetching \cup Releasing /\ "nospan" \in Fetching /\ "nospan" \notin Locking
        /\ "nospan" \notin {"inner", "after"} /\ l.pc \in Fetching
    BY <1>2, Zenon DEF Fetching, Locking
  <2>2. LocOK([l EXCEPT !.pc = "nospan"])
    <3> DEFINE m == [l EXCEPT !.pc = "nospan"]
    <3>1. /\ m.pc = "nospan" /\ m.n = l.n /\ m.fetched = l.fetched
          /\ m.extracted = l.extracted /\ m.need = l.need /\ m.scratch = l.scratch
          /\ m.rest = l.rest /\ m.chunk = l.chunk
          /\ m.empty = l.empty /\ m.span = l.span /\ m.drain = l.drain
      <4>1. "nospan" \in {"idle"} \cup Fetching \cup Releasing
        BY <2>1, Zenon
      <4> QED BY <4>1, PcRec, ZenonT(60)
    <3> HIDE DEF m
    <3>2. LocOK(m)
      BY <3>1, <2>1, <1>3, Zenon DEF LocOK
    <3> QED BY <3>2, Zenon DEF m
  <2>3. PICK m : m = [l EXCEPT !.pc = "nospan"]
    BY Zenon
  <2>4. /\ m \in LocRec /\ m.pc = "nospan" /\ m.fetched = l.fetched /\ m.scratch = l.scratch
        /\ m.rest = l.rest /\ m.chunk = l.chunk /\ m.empty = l.empty /\ m.span = l.span
    <3>1. "nospan" \in {"idle"} \cup Fetching \cup Releasing
      BY <2>1, Zenon
    <3> QED BY <3>1, <2>3, PcRec, ZenonT(60)
  <2>5. loc' = [loc EXCEPT ![t] = m] /\ LocOK(m) /\ m.pc \notin Locking
    BY <1>1, <1>4, <2>1, <2>2, <2>3, <2>4, Zenon
  <2> QED BY <1>1, <1>2, <1>3, <1>4, <2>4, <2>5, StillMoves, Zenon
<1>5. ASSUME NEW s \in Spans \ lent, lent' = lent \cup {s},
             sp' = [sp EXCEPT ![s] = InitSpan(Capacity)],
             loc' = [loc EXCEPT ![t].span = s, ![t].pc = "install"]
      PROVE  IInv'
  <2>1. PICK m : m = [l EXCEPT !.span = s, !.pc = "install"]
    BY Zenon
  <2>2. /\ m \in LocRec /\ m.pc = "install" /\ m.n = l.n /\ m.fetched = l.fetched
        /\ m.extracted = l.extracted /\ m.need = l.need /\ m.scratch = l.scratch
        /\ m.rest = l.rest /\ m.chunk = l.chunk /\ m.empty = l.empty /\ m.span = s
        /\ m.drain = l.drain
    BY <2>1, <1>5, Zenon DEF LocRec, Fetching
  <2>3. s # 0 /\ s \in Spans /\ s \notin lent
    BY <1>5 DEF Spans
  <2>4. LocOK(m) /\ m.pc \notin Locking
    BY <2>2, <2>3, <1>3, Zenon DEF LocOK, Fetching, Releasing, Locking
  <2>5. loc' = [loc EXCEPT ![t] = m]
    BY <1>1, <1>5, <2>1, Zenon DEF IInv, Control
  <2>6. Control' /\ loc'[t] = m /\ Others(t)
    BY <1>1, <1>2, <1>3, <2>2, <2>4, <2>5, ControlStep, ZenonT(60) DEF IInv
  <2>7. Once' /\ Out' = Out
    BY <1>1, <1>2, <2>2, <2>6, HandsStill, Zenon DEF IInv
  <2>8. PICK z : z = InitSpan(Capacity)
    BY Zenon
  <2>9. SpanOK(z) /\ z \in SpanRec /\ z.bitmap = AllSlots /\ z.use_count = 0
    BY <2>8, Zenon DEF SpanLaws, SpanOK
  <2>10. /\ sp \in [Spans -> SpanRec] /\ \A r \in Spans : SpanOK(sp[r])
    BY Zenon DEF IInv, Data
  <2>11. /\ sp' \in [Spans -> SpanRec] /\ sp'[s] = z /\ \A r \in Spans \ {s} : sp'[r] = sp[r]
    BY <1>5, <2>8, <2>9, <2>10, Zenon
  <2>12. \A r \in Spans : SpanOK(sp'[r])
    BY <2>9, <2>10, <2>11, Zenon
  <2>13. Data'
    BY <1>2, <1>5, <2>11, <2>12, Zenon DEF IInv, Data
  <2>14. Match'
    <3>1. Out' \subseteq Objects
      BY <2>7, Zenon DEF IInv, Match
    <3>2. ASSUME NEW r \in Spans, NEW x \in AllSlots
          PROVE  <<r, x>> \in Out' <=> r \in lent' /\ x \notin sp'[r].bitmap
      <4>1. <<r, x>> \in Out <=> r \in lent /\ x \notin sp[r].bitmap
        BY Zenon DEF IInv, Match
      <4>2. CASE r = s
        BY <4>1, <4>2, <2>3, <2>7, <2>9, <2>11, Zenon
      <4>3. CASE r # s
        <5>1. sp'[r] = sp[r] /\ (r \in lent' <=> r \in lent)
          BY <4>3, <1>5, <2>11, Zenon
        <5> QED BY <4>1, <5>1, <2>7, Zenon
      <4> QED BY <4>2, <4>3, Zenon
    <3> QED BY <3>1, <3>2, Zenon DEF Match
  <2>15. Range(span_list) \subseteq lent /\ \A u \in Threads : Moving(u) \subseteq lent /\ lent \subseteq Spans
    BY MovingIn, Zenon
  <2>16. Moving(t) = {} /\ Moving(t)' = {s}
    <3>1. Range(l.empty) = {} /\ Range(m.empty) = {}
      BY <1>3, <2>2, EmptyLists, Zenon
    <3>2. Moving(t) = {}
      BY <3>1, <1>1, <1>3, Zenon DEF Moving
    <3>3. Moving(t)' = {s}
      BY <3>1, <2>2, <2>3, <2>6, Zenon DEF Moving
    <3> QED BY <3>2, <3>3, Zenon
  <2>17. SpansOnce'
    <3>1. SpansOnce /\ IsInjective(span_list) /\ IsInjective(loc'[t].empty)
      <4>1. IsInjective(loc'[t].empty)
        BY <2>2, <2>6, <1>3, EmptyLists, Zenon
      <4> QED BY <4>1, Zenon DEF IInv, SpansOnce
    <3>2. /\ {s} \cap Range(span_list) = {} /\ {s} \cap lent = {}
          /\ {} \subseteq Range(span_list) \cup Moving(t)
          /\ Range(span_list) \cup {s} = ((Range(span_list) \cup Moving(t)) \ {}) \cup {s}
          /\ lent' = (lent \ {}) \cup {s} /\ span_list' = span_list
      BY <2>3, <2>15, <2>16, <1>2, <1>5, Zenon
    <3>3. \A r \in {s} : sp'[r].use_count = 0
      BY <2>9, <2>11, Zenon
    <3>4. \A u \in Threads \ {t} : \A r \in Moving(u) : sp'[r] = sp[r]
      BY <2>3, <2>11, <2>15, Zenon
    <3> QED BY <3>1, <3>2, <3>3, <3>4, <2>6, <2>16, SpanExchange, ZenonT(60)
  <2>18. ListInv'
    <3>1. \A r \in Range(span_list) : sp'[r] = sp[r]
      BY <2>3, <2>11, <2>15, Zenon
    <3> QED BY <3>1, <1>1, <1>2, <1>3, <2>2, <2>4, <2>6, ListElsewhere, Zenon DEF IInv, Locking
  <2> QED BY <2>6, <2>7, <2>13, <2>14, <2>17, <2>18, Zenon DEF IInv
<1> QED BY <1>4, <1>5, Zenon DEF GetOneSpan

\* Nobody is in the inner loop when t, outside it, has the mutex or may take it.
LEMMA NobodyLoose ==
    ASSUME IInv, NEW t \in Threads, lock = NoThread \/ lock = t, loc[t].pc \notin {"inner", "after"}
    PROVE  /\ ~Loose /\ ~Fresh /\ Sorted(span_list, FullSpans)
           /\ \A s \in Range(span_list) : sp[s].use_count > 0
<1>1. \A u \in Threads : loc[u].pc \in Locking => u = t
  BY Zenon DEF IInv, Control
<1>2. \A u \in Threads : loc[u].pc \notin {"inner", "after"}
  BY <1>1, Zenon DEF Locking
<1>3. ~Loose /\ ~Fresh
  BY <1>2, Zenon DEF Loose, Fresh
<1> QED BY <1>3, Zenon DEF IInv, ListInv

LEMMA InstallKeeps ==
    ASSUME IInv, NEW t \in Threads, InstallSpan(t)
    PROVE  IInv'
<1>1. PICK l \in LocRec : l = loc[t] /\ LocOK(l)
  BY Zenon DEF IInv, Control
<1>2. /\ l.pc = "install" /\ lock = NoThread /\ lock' = t /\ span_list' = <<l.span>> \o span_list
      /\ UNCHANGED <<sp, lent, transfer_cache, transfer_capacity, cache>>
  BY <1>1, Zenon DEF InstallSpan, At
<1>3. /\ l.rest = <<>> /\ l.chunk = <<>> /\ l.span # 0 /\ l.empty = <<>> /\ l.pc \notin Locking
      /\ l.extracted < l.need + l.n /\ l.extracted <= l.need + l.n /\ l.drain = 0
  BY <1>1, <1>2, Zenon DEF LocOK, Releasing, Locking
<1>4. PICK s : s = l.span
  BY Zenon
<1>5. s \in Spans /\ s # 0
  BY <1>3, <1>4, Zenon DEF LocRec
<1>6. PICK m : m = [l EXCEPT !.span = 0, !.pc = "inner"]
  BY Zenon
<1>7. /\ m \in LocRec /\ m.pc = "inner" /\ m.n = l.n /\ m.fetched = l.fetched
      /\ m.extracted = l.extracted /\ m.need = l.need /\ m.scratch = l.scratch
      /\ m.rest = l.rest /\ m.chunk = l.chunk /\ m.empty = l.empty /\ m.span = 0
      /\ m.drain = l.drain
  BY <1>6, Zenon DEF LocRec, Fetching
<1>8. LocOK(m) /\ m.pc \in Locking
  BY <1>3, <1>7, Zenon DEF LocOK, Fetching, Releasing, Locking
<1>9. loc' = [loc EXCEPT ![t] = m]
  BY <1>1, <1>6, Zenon DEF InstallSpan, IInv, Control
<1>10. Control' /\ loc'[t] = m /\ Others(t)
  BY <1>1, <1>2, <1>7, <1>8, <1>9, ControlStep, Zenon DEF IInv
<1>11. Once' /\ Out' = Out
  BY <1>1, <1>2, <1>7, <1>10, HandsStill, Zenon DEF IInv
<1>12. Match'
  BY <1>2, <1>11, Zenon DEF IInv, Match
<1>13. Moving(t) = {s} /\ Moving(t)' = {}
  <2>1. Range(l.empty) = {} /\ Range(m.empty) = {}
    BY <1>3, <1>7, EmptyLists, Zenon
  <2>2. Moving(t) = {s}
    BY <2>1, <1>1, <1>4, <1>5, Zenon DEF Moving
  <2>3. Moving(t)' = {}
    BY <2>1, <1>7, <1>10, Zenon DEF Moving
  <2> QED BY <2>2, <2>3, Zenon
<1>14. PICK S : S = Range(span_list)
  BY Zenon
<1>15. Lists(span_list, S) /\ S \subseteq Spans
  BY <1>14, AsLists, Zenon DEF IInv, Data, SpansOnce
<1>16. s \notin S
  BY <1>13, <1>14, Zenon DEF IInv, SpansOnce
<1>17. PICK L : L = <<s>> \o span_list
  BY Zenon
<1>18. span_list' = L
  BY <1>2, <1>4, <1>17, Zenon
<1>19. Lists(L, S \cup {s}) /\ S \cup {s} \subseteq Spans
  BY <1>5, <1>15, <1>16, <1>17, AheadLists, Zenon
<1>20. L \in Seq(Spans) /\ Range(L) = S \cup {s} /\ IsInjective(L)
  <2>1. PICK U : U = S \cup {s}
    BY Zenon
  <2>2. Lists(L, U) /\ U \subseteq Spans
    BY <2>1, <1>19, Zenon
  <2>3. L \in Seq(Spans) /\ Range(L) = U /\ IsInjective(L)
    BY <2>2, ListsIn, Zenon
  <2> QED BY <2>1, <2>3, Zenon
<1>21. Data'
  BY <1>2, <1>18, <1>20, ZenonT(60) DEF IInv, Data
<1>22. SpansOnce'
  <2>1. SpansOnce /\ IsInjective(loc'[t].empty) /\ \A u \in Threads : Moving(u) \subseteq lent
    BY <1>3, <1>7, <1>10, EmptyLists, MovingIn, Zenon DEF IInv
  <2>2. /\ {} \cap Range(L) = {} /\ {} \cap lent = {}
        /\ {} \subseteq Range(span_list) \cup Moving(t)
        /\ Range(L) \cup {} = ((Range(span_list) \cup Moving(t)) \ {}) \cup {}
        /\ lent' = (lent \ {}) \cup {}
    BY <1>2, <1>13, <1>14, <1>20, Zenon
  <2>3. /\ \A r \in {} : sp'[r].use_count = 0
        /\ \A u \in Threads \ {t} : \A r \in Moving(u) : sp'[r] = sp[r]
    BY <1>2, Zenon
  <2> QED BY <2>1, <2>2, <2>3, <1>10, <1>13, <1>18, <1>20, SpanExchange
<1>23. ListInv'
  <2>1. FullSpans' = FullSpans
    BY <1>2, Zenon DEF FullSpans
  <2>2. Sorted(span_list, FullSpans) /\ \A r \in S : sp[r].use_count > 0
    BY <1>1, <1>2, <1>14, NobodyLoose, Zenon
  <2>3. PICK F : F = FullSpans
    BY Zenon
  <2>4. L # <<>> /\ L[1] = s /\ TailSorted(L, F)
    <3>1. Sorted(span_list, F)
      BY <2>2, <2>3, Zenon
    <3> QED BY <3>1, <1>15, <1>17, AheadSorted, ZenonT(60)
  <2>5. Loose' /\ Fresh'
    BY <1>3, <1>7, <1>10, Zenon DEF Loose, Fresh
  <2>6. \A r \in Range(L) : sp'[r].use_count > 0 \/ (Fresh' /\ r = L[1])
    BY <2>2, <2>4, <2>5, <1>2, <1>20, Zenon
  <2> QED BY <2>1, <2>3, <2>4, <2>5, <2>6, <1>18, Zenon DEF ListInv
<1> QED BY <1>10, <1>11, <1>12, <1>21, <1>22, <1>23, ZenonT(60) DEF IInv

\* A step of the lock holder that may rotate the list and changes only its pc.
LEMMA RotateKeeps ==
    ASSUME IInv, NEW t \in Threads, NEW p \in {"after", "outer"}, loc[t].pc \in {"inner", "after"},
           loc' = [loc EXCEPT ![t].pc = p], lock' = lock,
           span_list' = Rotate(span_list) \/ span_list' = span_list,
           UNCHANGED <<sp, lent, transfer_cache, transfer_capacity, cache>>
    PROVE  /\ Control' /\ Data' /\ Once' /\ Match' /\ SpansOnce'
           /\ FullSpans' = FullSpans /\ Range(span_list)' = Range(span_list)
           /\ (Loose' <=> p = "after") /\ ~Fresh'
<1>1. PICK l \in LocRec : l = loc[t] /\ LocOK(l)
  BY Zenon DEF IInv, Control
<1>2. /\ p \in Fetching /\ p \notin Releasing /\ p \in Locking /\ l.pc \in Fetching /\ l.pc \in Locking
      /\ l.pc \notin Releasing /\ l.pc \notin {"idle", "install", "rellock", "free", "return"}
      /\ p \notin {"idle", "install", "rellock", "free", "return", "drain", "getspan"}
  BY <1>1, Zenon DEF Fetching, Releasing, Locking
<1>3. PICK m : m = [l EXCEPT !.pc = p]
  BY Zenon
<1>4. /\ m \in LocRec /\ m.pc = p /\ m.n = l.n /\ m.fetched = l.fetched
      /\ m.extracted = l.extracted /\ m.need = l.need /\ m.scratch = l.scratch
      /\ m.rest = l.rest /\ m.chunk = l.chunk
      /\ m.empty = l.empty /\ m.span = l.span /\ m.drain = l.drain
  <2>1. p \in {"idle"} \cup Fetching \cup Releasing
    BY <1>2, Zenon
  <2> QED BY <2>1, <1>3, PcRec, ZenonT(60)
<1>5. LocOK(m)
  <2>1. l.rest = <<>> /\ l.drain = 0 /\ l.span = 0 /\ l.chunk = <<>> /\ l.empty = <<>>
        /\ l.extracted <= l.need + l.n
    BY <1>1, <1>2, Zenon DEF LocOK
  <2> QED BY <2>1, <1>2, <1>4, Zenon DEF LocOK
<1>6. Control' /\ loc'[t] = m /\ Others(t)
  BY <1>1, <1>2, <1>3, <1>4, <1>5, ControlStep, ZenonT(60) DEF IInv
<1>7. Once' /\ Out' = Out
  BY <1>1, <1>4, <1>6, HandsStill, Zenon DEF IInv
<1>8. Match'
  BY <1>7, Zenon DEF IInv, Match
<1>9. Lists(span_list, Range(span_list)) /\ Range(span_list) \subseteq Spans /\ span_list # <<>>
  <2>1. Loose
    BY Zenon DEF Loose
  <2> QED BY <2>1, AsLists, Zenon DEF IInv, Data, SpansOnce, ListInv
<1>10. PICK S, L : S = Range(span_list) /\ L = span_list'
  BY Zenon
<1>11. Lists(L, S)
  BY <1>9, <1>10, RotateLists, Zenon
<1>12. L \in Seq(Spans) /\ Range(L) = S /\ IsInjective(L)
  BY <1>9, <1>10, <1>11, ListsIn, Zenon
<1>13. Data'
  BY <1>10, <1>12, Zenon DEF IInv, Data
<1>14. loc'[t].span = loc[t].span /\ loc'[t].empty = loc[t].empty
  BY <1>1, <1>4, <1>6, Zenon
<1>15. SpansOnce'
  <2>1. SpansOnce /\ IsInjective(span_list)' /\ Range(span_list)' = Range(span_list)
    BY <1>10, <1>12, Zenon DEF IInv
  <2> QED BY <2>1, <1>6, <1>14, SpansStill, Zenon
<1>16. \A u \in Threads \ {t} : loc'[u].pc \notin {"inner", "after"}
  <2>1. \A u \in Threads \ {t} : loc[u].pc \notin Locking
    BY <1>1, <1>2, HolderAlone, Zenon DEF IInv
  <2> QED BY <2>1, <1>6, Zenon DEF Others, Locking
<1>17. (Loose' <=> p = "after") /\ ~Fresh'
  <2>1. loc'[t].pc = p /\ p # "inner"
    BY <1>4, <1>6, Zenon
  <2>2. \A u \in Threads \ {t} : loc'[u].pc # "inner"
    BY <1>16, Zenon
  <2>3. ~Fresh'
    BY <2>1, <2>2, Zenon DEF Fresh
  <2>4. Loose' <=> p = "after"
    BY <2>1, <1>16, Zenon DEF Loose
  <2> QED BY <2>3, <2>4, Zenon
<1>18. FullSpans' = FullSpans /\ Range(span_list)' = Range(span_list)
  BY <1>10, <1>12, Zenon DEF FullSpans
<1> QED BY <1>6, <1>7, <1>8, <1>13, <1>15, <1>17, <1>18, ZenonT(60)

LEMMA InnerNullKeeps ==
    ASSUME SpanLaws, IInv, NEW t \in Threads, InnerNull(t)
    PROVE  IInv'
<1>1. /\ loc[t].pc = "inner" /\ span_list' = Rotate(span_list) /\ lock' = lock
      /\ AllocSlot(sp[Head(span_list)]) = NoSlot /\ loc' = [loc EXCEPT ![t].pc = "after"]
      /\ UNCHANGED <<sp, lent, transfer_cache, transfer_capacity, cache>>
  BY Zenon DEF InnerNull, At
<1>2. /\ Control' /\ Data' /\ Once' /\ Match' /\ SpansOnce'
      /\ FullSpans' = FullSpans /\ Range(span_list)' = Range(span_list)
      /\ Loose' /\ ~Fresh'
  BY <1>1, RotateKeeps, Zenon
<1>3. Lists(span_list, Range(span_list)) /\ Range(span_list) \subseteq Spans /\ span_list # <<>>
  <2>1. Loose
    BY <1>1, Zenon DEF Loose
  <2> QED BY <2>1, AsLists, Zenon DEF IInv, Data, SpansOnce, ListInv
<1>4. Head(span_list) \in Range(span_list) /\ Head(span_list) = span_list[1]
  BY <1>3, TailLists, Zenon
<1>5. Head(span_list) \in FullSpans /\ sp[Head(span_list)].use_count > 0
  BY <1>1, <1>3, <1>4, SpanFacts, Zenon
<1>6. PICK F, L, S : F = FullSpans /\ L = Rotate(span_list) /\ S = Range(span_list)
  BY Zenon
<1>7. L # <<>> /\ Sorted(L, F) /\ Lists(L, S)
  <2>1. TailSorted(span_list, F) /\ span_list[1] \in F
    BY <1>4, <1>5, <1>6, Zenon DEF IInv, ListInv
  <2> QED BY <2>1, <1>3, <1>6, RotateLists, Zenon
<1>8. TailSorted(L, F)
  <2>1. L \in Seq(S)
    BY <1>7, ListsFacts, Zenon
  <2> QED BY <2>1, <1>7, SortedSame, Zenon
<1>9. \A s \in Range(span_list) : sp[s].use_count > 0
  BY <1>4, <1>5, Zenon DEF IInv, ListInv
<1>10. ListInv'
  <2>1. span_list' = L /\ FullSpans' = F /\ sp' = sp
    BY <1>1, <1>2, <1>6, Zenon
  <2>2. \A s \in Range(span_list)' : sp'[s].use_count > 0
    BY <2>1, <1>2, <1>9, Zenon
  <2> QED BY <2>1, <2>2, <1>2, <1>7, <1>8, Zenon DEF ListInv
<1> QED BY <1>2, <1>10, Zenon DEF IInv

LEMMA HeadSorted ==
    ASSUME NEW L, Len(L) \in Nat, NEW F, TailSorted(L, F), L # <<>> => L[1] \notin F
    PROVE  L = <<>> \/ Sorted(L, F)
<1> SUFFICES ASSUME L # <<>>, NEW i \in 1 .. Len(L), NEW j \in 1 .. Len(L), i < j, L[i] \in F
             PROVE  L[j] \in F
  BY DEF Sorted
<1>1. i # 1
  BY Zenon
<1>2. 1 < i
  BY <1>1
<1> QED BY <1>2, Zenon DEF TailSorted

LEMMA AfterInnerKeeps ==
    ASSUME SpanLaws, IInv, NEW t \in Threads, AfterInner(t)
    PROVE  IInv'
<1>1. /\ loc[t].pc = "after" /\ lock' = lock /\ loc' = [loc EXCEPT ![t].pc = "outer"]
      /\ span_list' = (IF HeadFull THEN Rotate(span_list) ELSE span_list)
      /\ UNCHANGED <<sp, lent, transfer_cache, transfer_capacity, cache>>
  BY Zenon DEF AfterInner, At
<1>2. /\ Control' /\ Data' /\ Once' /\ Match' /\ SpansOnce'
      /\ FullSpans' = FullSpans /\ Range(span_list)' = Range(span_list)
      /\ ~Loose' /\ ~Fresh'
  BY <1>1, RotateKeeps, Zenon
<1>3. Lists(span_list, Range(span_list)) /\ Range(span_list) \subseteq Spans /\ span_list # <<>>
  <2>1. Loose
    BY <1>1, Zenon DEF Loose
  <2> QED BY <2>1, AsLists, Zenon DEF IInv, Data, SpansOnce, ListInv
<1>4. Head(span_list) \in Range(span_list) /\ Head(span_list) = span_list[1]
  BY <1>3, TailLists, Zenon
<1>5. Head(span_list) \in FullSpans <=> HeadFull
  BY <1>3, <1>4, SpanFacts, Zenon DEF HeadFull
<1>6. PICK F, L, S : F = FullSpans /\ L = span_list' /\ S = Range(span_list)
  BY Zenon
<1>7. TailSorted(span_list, F)
  BY <1>6, Zenon DEF IInv, ListInv
<1>8. Sorted(L, F) /\ Lists(L, S)
  <2>1. CASE HeadFull
    <3>1. span_list[1] \in F /\ L = Rotate(span_list)
      BY <2>1, <1>1, <1>4, <1>5, <1>6, Zenon
    <3> QED BY <3>1, <1>3, <1>6, <1>7, RotateLists, Zenon
  <2>2. CASE ~HeadFull
    <3>1. span_list[1] \notin F /\ L = span_list
      BY <2>2, <1>1, <1>4, <1>5, <1>6, Zenon
    <3>2. Len(span_list) \in Nat
      BY <1>3, ListsFacts, Zenon
    <3>3. Sorted(span_list, F)
      BY <3>1, <3>2, <1>3, <1>7, HeadSorted, Zenon
    <3> QED BY <3>1, <3>3, <1>3, <1>6, Zenon
  <2> QED BY <2>1, <2>2, Zenon
<1>9. TailSorted(L, F)
  <2>1. L \in Seq(S)
    BY <1>8, ListsFacts, Zenon
  <2> QED BY <2>1, <1>8, SortedSame, Zenon
<1>10. ~Fresh
  <2>1. \A u \in Threads \ {t} : loc[u].pc # "inner"
    BY <1>1, HolderAlone, Zenon DEF IInv, Locking
  <2> QED BY <2>1, <1>1, Zenon DEF Fresh
<1>11. \A s \in Range(span_list) : sp[s].use_count > 0
  BY <1>10, Zenon DEF IInv, ListInv
<1>12. ListInv'
  <2>1. span_list' = L /\ FullSpans' = F /\ sp' = sp
    BY <1>1, <1>2, <1>6, Zenon
  <2>2. \A s \in Range(span_list)' : sp'[s].use_count > 0
    BY <2>1, <1>2, <1>11, Zenon
  <2> QED BY <2>1, <2>2, <1>2, <1>8, <1>9, Zenon DEF ListInv
<1> QED BY <1>2, <1>12, Zenon DEF IInv

LEMMA ReturnSpanKeeps ==
    ASSUME SpanLaws, IInv, NEW t \in Threads, ReturnSpan(t)
    PROVE  IInv'
<1>1. PICK l \in LocRec : l = loc[t] /\ LocOK(l)
  BY Zenon DEF IInv, Control
<1>2. /\ l.pc = "return" /\ l.empty # <<>> /\ lent' = lent \ {Head(l.empty)}
      /\ UNCHANGED <<span_list, sp, lock, transfer_cache, transfer_capacity, cache>>
  BY <1>1, Zenon DEF ReturnSpan, At
<1>3. /\ l.fetched = {} /\ l.scratch = <<>> /\ l.chunk = <<>> /\ l.span = 0 /\ l.pc \notin Locking
      /\ l.extracted <= l.need + l.n
  BY <1>1, <1>2, Zenon DEF LocOK, Fetching, Locking
<1>4. PICK E : E = Range(l.empty)
  BY Zenon
<1>5. Lists(l.empty, E) /\ E \subseteq Spans
  <2>1. l.empty \in Seq(Spans) /\ IsInjective(l.empty)
    BY <1>1, Zenon DEF LocRec, IInv, SpansOnce
  <2> QED BY <2>1, <1>4, AsLists, Zenon
<1>6. PICK s, e : s = Head(l.empty) /\ e = Tail(l.empty)
  BY Zenon
<1>7. s \in E /\ Lists(e, E \ {s})
  BY <1>2, <1>5, <1>6, TailLists, Zenon
<1>8. e \in Seq(Spans) /\ Range(e) = E \ {s} /\ IsInjective(e)
  <2>1. PICK U : U = E \ {s}
    BY Zenon
  <2>2. Lists(e, U) /\ U \subseteq Spans
    BY <2>1, <1>5, <1>7, Zenon
  <2>3. e \in Seq(Spans) /\ Range(e) = U /\ IsInjective(e)
    BY <2>2, ListsIn, Zenon
  <2> QED BY <2>1, <2>3, Zenon
<1>9. PICK m : m = [l EXCEPT !.empty = e]
  BY Zenon
<1>10. /\ m \in LocRec /\ m.pc = "return" /\ m.n = l.n /\ m.fetched = l.fetched
       /\ m.extracted = l.extracted /\ m.need = l.need /\ m.scratch = l.scratch
       /\ m.rest = l.rest /\ m.chunk = l.chunk /\ m.empty = e /\ m.span = l.span
       /\ m.drain = l.drain
  BY <1>2, <1>8, <1>9, Zenon DEF LocRec
<1>11. LocOK(m) /\ m.pc \notin Locking
  BY <1>3, <1>10, Zenon DEF LocOK, Fetching, Releasing, Locking
<1>12. loc' = [loc EXCEPT ![t] = m]
  BY <1>1, <1>6, <1>9, Zenon DEF ReturnSpan, IInv, Control
<1>13. Control' /\ loc'[t] = m /\ Others(t)
  BY <1>1, <1>2, <1>3, <1>10, <1>11, <1>12, ControlStep, ZenonT(60) DEF IInv
<1>14. Once' /\ Out' = Out
  BY <1>1, <1>2, <1>10, <1>13, HandsStill, Zenon DEF IInv
<1>15. Moving(t) = E /\ Moving(t)' = E \ {s}
  <2>1. Moving(t) = E
    BY <1>1, <1>3, <1>4, Zenon DEF Moving
  <2>2. Moving(t)' = E \ {s}
    BY <1>3, <1>8, <1>10, <1>13, Zenon DEF Moving
  <2> QED BY <2>1, <2>2, Zenon
<1>16. lent' = lent \ {s} /\ s \in Spans /\ sp[s].bitmap = AllSlots
  <2>1. sp[s].use_count = 0 /\ s \in Spans
    BY <1>5, <1>7, <1>15, Zenon DEF IInv, SpansOnce
  <2> QED BY <2>1, <1>2, <1>6, SpanFacts, Zenon
<1>17. Data'
  BY <1>2, <1>16, Zenon DEF IInv, Data
<1>18. Match'
  <2>1. Out' \subseteq Objects
    BY <1>14, Zenon DEF IInv, Match
  <2>2. ASSUME NEW r \in Spans, NEW x \in AllSlots
        PROVE  <<r, x>> \in Out' <=> r \in lent' /\ x \notin sp'[r].bitmap
    <3>1. <<r, x>> \in Out <=> r \in lent /\ x \notin sp[r].bitmap
      BY Zenon DEF IInv, Match
    <3>2. sp' = sp /\ Out' = Out /\ (r \in lent' <=> r \in lent /\ r # s)
      BY <1>2, <1>14, <1>16, Zenon
    <3>3. r = s => x \in sp[r].bitmap
      BY <1>16, Zenon
    <3> QED BY <3>1, <3>2, <3>3, Zenon
  <2> QED BY <2>1, <2>2, Zenon DEF Match
<1>19. SpansOnce'
  <2>1. /\ SpansOnce /\ IsInjective(loc'[t].empty) /\ IsInjective(span_list)
        /\ E \cap Range(span_list) = {} /\ \A r \in E : sp[r].use_count = 0
    BY <1>8, <1>10, <1>13, <1>15, Zenon DEF IInv, SpansOnce
  <2>2. PICK M : M = E \ {s}
    BY Zenon
  <2>3. /\ M \cap Range(span_list) = {} /\ {} \cap lent = {} /\ Moving(t)' = M
        /\ {s} \subseteq Range(span_list) \cup Moving(t)
        /\ Range(span_list) \cup M = ((Range(span_list) \cup Moving(t)) \ {s}) \cup {}
        /\ lent' = (lent \ {s}) \cup {} /\ span_list' = span_list
    BY <1>2, <1>7, <1>15, <1>16, <2>1, <2>2, Zenon
  <2>4. /\ \A r \in M : sp'[r].use_count = 0
        /\ \A u \in Threads \ {t} : \A r \in Moving(u) : sp'[r] = sp[r]
    BY <1>2, <2>1, <2>2, Zenon
  <2>5. SpansOnce /\ IsInjective(loc'[t].empty) /\ IsInjective(span_list)
    BY <2>1, Zenon
  <2> QED BY <2>3, <2>4, <2>5, <1>13, SpanExchange
<1>20. ListInv'
  BY <1>1, <1>2, <1>3, <1>10, <1>11, <1>13, ListElsewhere, ZenonT(60) DEF IInv, Locking
<1> QED BY <1>13, <1>14, <1>17, <1>18, <1>19, <1>20, Zenon DEF IInv

-----------------------------------------------------------------------------
(* One object out of a bitmap, and one object back *)

LEMMA TailSame ==
    ASSUME NEW S, NEW L, Lists(L, S), NEW F, NEW G, TailSorted(L, F),
           \A y \in S \ {L[1]} : y \in F <=> y \in G
    PROVE  TailSorted(L, G)
<1>1. /\ Len(L) \in Nat /\ \A i \in 1 .. Len(L) : L[i] \in S
      /\ \A i, j \in 1 .. Len(L) : L[i] = L[j] => i = j
  BY ListsFacts, Zenon
<1>2. ASSUME NEW i \in 1 .. Len(L), 1 < i PROVE L[i] \in F <=> L[i] \in G
  <2>1. 1 \in 1 .. Len(L) /\ i # 1
    BY <1>1, <1>2
  <2> QED BY <2>1, <1>1, Zenon
<1>3. ASSUME NEW i \in 1 .. Len(L), NEW j \in 1 .. Len(L), 1 < i, i < j, L[i] \in G
      PROVE  L[j] \in G
  <2>1. 1 < j
    BY <1>1, <1>3
  <2> QED BY <2>1, <1>2, <1>3, Zenon DEF TailSorted
<1> QED BY <1>3, Zenon DEF TailSorted

\* A span that changes between two states of its bitmap.
LEMMA SpanChange ==
    ASSUME SpanLaws, IInv, NEW s \in Spans, NEW q, SpanOK(q), sp' = [sp EXCEPT ![s] = q]
    PROVE  /\ sp' \in [Spans -> SpanRec] /\ \A r \in Spans : SpanOK(sp'[r])
           /\ sp'[s] = q /\ \A r \in Spans \ {s} : sp'[r] = sp[r]
           /\ \A r \in Spans \ {s} : r \in FullSpans' <=> r \in FullSpans
           /\ s \in FullSpans' <=> q.bitmap = {}
<1>1. sp \in [Spans -> SpanRec] /\ \A r \in Spans : SpanOK(sp[r])
  BY Zenon DEF IInv, Data
<1>2. q \in SpanRec
  BY Zenon DEF SpanOK
<1>3. sp' \in [Spans -> SpanRec] /\ sp'[s] = q /\ \A r \in Spans \ {s} : sp'[r] = sp[r]
  BY <1>1, <1>2, Zenon
<1>4. \A r \in Spans : SpanOK(sp'[r])
  BY <1>1, <1>3, Zenon
<1>5. \A r \in Spans \ {s} : r \in FullSpans' <=> r \in FullSpans
  BY <1>3, Zenon DEF FullSpans
<1>6. s \in FullSpans' <=> q.bitmap = {}
  BY <1>3, Zenon DEF SpanLaws, AllocFinds, FullSpans
<1> QED BY <1>3, <1>4, <1>5, <1>6, Zenon

LEMMA InnerAllocKeeps ==
    ASSUME SpanLaws, IInv, NEW t \in Threads, InnerAlloc(t)
    PROVE  IInv'
<1>1. PICK l \in LocRec : l = loc[t] /\ LocOK(l)
  BY Zenon DEF IInv, Control
<1>2. PICK s, x : s = Head(span_list) /\ x = AllocSlot(sp[s])
  BY Zenon
<1>3. /\ l.pc = "inner" /\ l.extracted < l.need + l.n /\ x # NoSlot
      /\ sp' = [sp EXCEPT ![s] = AllocObject(sp[s], x)]
      /\ UNCHANGED <<span_list, lent, lock, transfer_cache, transfer_capacity, cache>>
  BY <1>1, <1>2, Zenon DEF InnerAlloc, At, ExtractTarget
<1>4. /\ l.rest = <<>> /\ l.drain = 0 /\ l.span = 0 /\ l.chunk = <<>> /\ l.empty = <<>>
      /\ l.pc \in Locking
  BY <1>1, <1>3, Zenon DEF LocOK, Releasing, Locking
<1>5. PICK S : S = Range(span_list)
  BY Zenon
<1>6. Loose /\ Lists(span_list, S) /\ S \subseteq Spans /\ span_list # <<>>
  <2>1. Loose
    BY <1>1, <1>3, Zenon DEF Loose
  <2> QED BY <2>1, <1>5, AsLists, Zenon DEF IInv, Data, SpansOnce, ListInv
<1>7. s \in S /\ s = span_list[1] /\ s \in Spans
  BY <1>2, <1>6, TailLists, Zenon
<1>8. SpanOK(sp[s]) /\ s \in lent /\ sp[s].use_count \in Nat /\ sp[s].bitmap \subseteq AllSlots
  BY <1>5, <1>7, SpanFacts, MovingIn, Zenon
<1>9. x \in sp[s].bitmap /\ (\A y \in sp[s].bitmap : x <= y) /\ x \in AllSlots
  BY <1>2, <1>3, <1>8, Zenon DEF SpanLaws, AllocFinds
<1>10. PICK q : q = AllocObject(sp[s], x)
  BY Zenon
<1>11. SpanOK(q) /\ q.bitmap = sp[s].bitmap \ {x} /\ q.use_count = sp[s].use_count + 1
  BY <1>8, <1>9, <1>10, Zenon DEF SpanLaws, AllocTakes
<1>12. sp' = [sp EXCEPT ![s] = q] /\ q.use_count > 0
  <2>1. q.use_count > 0
    BY <1>8, <1>11
  <2> QED BY <2>1, <1>3, <1>10, Zenon
<1>13. /\ sp' \in [Spans -> SpanRec] /\ \A r \in Spans : SpanOK(sp'[r])
       /\ sp'[s] = q /\ \A r \in Spans \ {s} : sp'[r] = sp[r]
       /\ \A r \in Spans \ {s} : r \in FullSpans' <=> r \in FullSpans
  BY <1>7, <1>11, <1>12, SpanChange, Zenon
<1>14. PICK o : o = <<s, x>>
  BY Zenon
<1>15. o \in Objects /\ o \notin Out
  <2>1. <<s, x>> \in Out <=> s \in lent /\ x \notin sp[s].bitmap
    BY <1>7, <1>9, Zenon DEF IInv, Match
  <2> QED BY <2>1, <1>7, <1>9, <1>14, Zenon DEF Objects, AllSlots
<1>16. /\ Reach(t) = Range(transfer_cache) \cup cache[t] \cup HandOf(l)
       /\ Range(transfer_cache) \cap (cache[t] \cup HandOf(l)) = {} /\ OnceIn(l, cache[t])
  BY <1>1, ReachParts, Zenon
<1>17. o \notin Reach(t)
  BY <1>15, Zenon DEF Reach, Out
<1>18. PICK W : W = Range(l.scratch)
  BY Zenon
<1>19. Lists(l.scratch, W) /\ W \subseteq Objects /\ l.fetched \subseteq Objects
  BY <1>1, <1>18, HandLists, Zenon
<1>20. /\ HandOf(l) = l.fetched \cup W /\ l.fetched \cap W = {} /\ cache[t] \cap HandOf(l) = {}
       /\ o \notin W /\ o \notin l.fetched /\ o \notin cache[t] /\ o \notin Range(transfer_cache)
  <2>1. Range(l.rest) = {} /\ Range(l.chunk) = {}
    BY <1>4, EmptyLists, Zenon
  <2>2. HandOf(l) = l.fetched \cup W
    BY <2>1, <1>18, Zenon DEF HandOf
  <2>3. l.fetched \cap W = {} /\ cache[t] \cap HandOf(l) = {}
    BY <1>16, <1>18, Zenon DEF OnceIn
  <2> QED BY <2>2, <2>3, <1>16, <1>17, Zenon
<1>21. l.extracted + 1 \in Nat /\ l.extracted + 1 <= l.need + l.n
  <2>1. l.extracted \in Nat /\ l.need \in Nat /\ l.n \in Nat
    BY Zenon DEF LocRec
  <2> QED BY <2>1, <1>3
<1>22. PICK m : m = IF l.extracted < l.need
                    THEN [l EXCEPT !.extracted = l.extracted + 1, !.fetched = l.fetched \cup {o}]
                    ELSE [l EXCEPT !.extracted = l.extracted + 1, !.scratch = Append(l.scratch, o)]
  BY Zenon
<1>23. loc' = [loc EXCEPT ![t] = m]
  BY <1>1, <1>2, <1>14, <1>22, ZenonT(60) DEF InnerAlloc
<1>24. /\ m \in LocRec /\ m.pc = "inner" /\ m.rest = <<>> /\ m.drain = 0 /\ m.span = 0
       /\ m.chunk = <<>> /\ m.empty = <<>> /\ m.extracted <= m.need + m.n
       /\ HandOf(m) = HandOf(l) \cup {o} /\ OnceIn(m, cache[t])
  <2>1. Range(<<>>) = {} /\ IsInjective(<<>>)
    BY EmptyLists, Zenon
  <2>2. CASE l.extracted < l.need
    <3>1. m = [l EXCEPT !.extracted = l.extracted + 1, !.fetched = l.fetched \cup {o}]
      BY <2>2, <1>22, Zenon
    <3>2. l.fetched \cup {o} \in SUBSET Objects
      BY <1>15, <1>19, Zenon
    <3>3. /\ m \in LocRec /\ m.pc = l.pc /\ m.n = l.n /\ m.need = l.need
          /\ m.extracted = l.extracted + 1 /\ m.fetched = l.fetched \cup {o}
          /\ m.scratch = l.scratch /\ m.rest = l.rest /\ m.chunk = l.chunk /\ m.empty = l.empty
          /\ m.span = l.span /\ m.drain = l.drain
      BY <3>1, <3>2, <1>21, Zenon DEF LocRec
    <3>4. /\ m.fetched = l.fetched \cup {o} /\ Range(m.scratch) = W /\ IsInjective(m.scratch)
          /\ Range(m.rest) = {} /\ IsInjective(m.rest) /\ Range(m.chunk) = {} /\ IsInjective(m.chunk)
      BY <2>1, <3>3, <1>4, <1>19, ZenonT(60) DEF Lists
    <3>5. HandOf(m) = HandOf(l) \cup {o}
      BY <3>4, <1>20, Zenon DEF HandOf
    <3>6. OnceIn(m, cache[t])
      BY <3>4, <3>5, <1>20, ZenonT(60) DEF OnceIn
    <3> QED BY <3>3, <3>5, <3>6, <1>3, <1>4, <1>21, ZenonT(60)
  <2>3. CASE ~(l.extracted < l.need)
    <3>1. m = [l EXCEPT !.extracted = l.extracted + 1, !.scratch = Append(l.scratch, o)]
      BY <2>3, <1>22, Zenon
    <3>2. Lists(Append(l.scratch, o), W \cup {o})
      BY <1>19, <1>20, AheadLists, Zenon
    <3>3. Append(l.scratch, o) \in Seq(Objects)
      <4>1. PICK U : U = W \cup {o}
        BY Zenon
      <4>2. Lists(Append(l.scratch, o), U) /\ U \subseteq Objects
        BY <3>2, <4>1, <1>15, <1>19, ZenonT(60)
      <4> QED BY <4>2, ListsIn, Zenon
    <3>4. /\ m \in LocRec /\ m.pc = l.pc /\ m.n = l.n /\ m.need = l.need
          /\ m.extracted = l.extracted + 1 /\ m.fetched = l.fetched
          /\ m.scratch = Append(l.scratch, o) /\ m.rest = l.rest /\ m.chunk = l.chunk
          /\ m.empty = l.empty /\ m.span = l.span /\ m.drain = l.drain
      BY <3>1, <3>3, <1>21, Zenon DEF LocRec
    <3>5. /\ Range(m.scratch) = W \cup {o} /\ IsInjective(m.scratch)
          /\ Range(m.rest) = {} /\ IsInjective(m.rest) /\ Range(m.chunk) = {} /\ IsInjective(m.chunk)
      BY <2>1, <3>2, <3>4, <1>4, ZenonT(60) DEF Lists
    <3>6. m.fetched = l.fetched
      BY <3>4, Zenon
    <3>7. HandOf(m) = HandOf(l) \cup {o}
      BY <3>5, <3>6, <1>20, Zenon DEF HandOf
    <3>8. OnceIn(m, cache[t])
      BY <3>5, <3>6, <3>7, <1>20, ZenonT(60) DEF OnceIn
    <3> QED BY <3>4, <3>7, <3>8, <1>3, <1>4, <1>21, Zenon
  <2> QED BY <2>2, <2>3, Zenon
<1>25. LocOK(m) /\ m.pc \in Locking
  BY <1>24, Zenon DEF LocOK, Fetching, Releasing, Locking
<1>26. Control' /\ loc'[t] = m /\ Others(t)
  BY <1>1, <1>3, <1>4, <1>23, <1>24, <1>25, ControlStep, ZenonT(60) DEF IInv
<1>27. Data'
  BY <1>3, <1>13, Zenon DEF IInv, Data
<1>28. Hand(t)' = HandOf(m) /\ Held(t)' = cache[t] \cup HandOf(m) /\ HeldOnce(t)'
  <2>1. Hand(t)' = HandOf(m)
    BY <1>26, Zenon DEF Hand, HandOf
  <2>2. Held(t)' = cache[t] \cup HandOf(m)
    BY <2>1, <1>3, Zenon DEF Held
  <2>3. HeldOnce(t)'
    BY <2>1, <1>3, <1>24, <1>26, Zenon DEF HeldOnce, OnceIn
  <2> QED BY <2>1, <2>2, <2>3, Zenon
<1>29. (Range(transfer_cache) \cap Held(t) = {})' /\ IsInjective(transfer_cache)'
  <2>1. Range(transfer_cache)' = Range(transfer_cache) /\ IsInjective(transfer_cache)'
    BY <1>3, Zenon DEF IInv, Once
  <2> QED BY <2>1, <1>16, <1>20, <1>24, <1>28, ZenonT(60)
<1>30. Reach(t)' = (Reach(t) \ {}) \cup {o}
  <2>1. Reach(t)' = Range(transfer_cache) \cup (cache[t] \cup HandOf(m))
    BY <1>3, <1>28, Zenon DEF Reach
  <2> QED BY <2>1, <1>16, <1>24, Zenon
<1>31. Once' /\ Out' = (Out \ {}) \cup {o}
  <2>1. Once /\ {} \subseteq Reach(t) /\ {o} \cap Out = {} /\ \A u \in Threads \ {t} : cache'[u] = cache[u]
    BY <1>3, <1>15, ZenonT(60) DEF IInv
  <2> QED BY <2>1, <1>26, <1>28, <1>29, <1>30, Exchange, ZenonT(60)
<1>32. Match'
  <2>1. Out' \subseteq Objects
    BY <1>15, <1>31, Zenon DEF IInv, Match
  <2>2. ASSUME NEW r \in Spans, NEW y \in AllSlots
        PROVE  <<r, y>> \in Out' <=> r \in lent' /\ y \notin sp'[r].bitmap
    <3>1. <<r, y>> \in Out <=> r \in lent /\ y \notin sp[r].bitmap
      BY Zenon DEF IInv, Match
    <3>2. <<r, y>> \in Out' <=> <<r, y>> \in Out \/ <<r, y>> = o
      BY <1>31, Zenon
    <3>3. <<r, y>> = o <=> r = s /\ y = x
      BY <1>14
    <3>4. CASE r = s
      <4>1. y \in sp'[r].bitmap <=> y \in sp[s].bitmap /\ y # x
        BY <3>4, <1>11, <1>13, Zenon
      <4> QED BY <3>1, <3>2, <3>3, <3>4, <4>1, <1>3, <1>8, ZenonT(60)
    <3>5. CASE r # s
      <4>1. sp'[r] = sp[r]
        BY <3>5, <1>13, Zenon
      <4> QED BY <3>1, <3>2, <3>3, <3>5, <4>1, <1>3, ZenonT(60)
    <3> QED BY <3>4, <3>5, Zenon
  <2> QED BY <2>1, <2>2, Zenon DEF Match
<1>33. SpansOnce'
  <2>1. /\ SpansOnce /\ IsInjective(span_list)' /\ Range(span_list)' = Range(span_list) /\ lent' = lent
        /\ loc'[t].span = loc[t].span /\ loc'[t].empty = loc[t].empty
    BY <1>1, <1>3, <1>4, <1>24, <1>26, Zenon DEF IInv, SpansOnce
  <2>2. \A u \in Threads : \A r \in Moving(u) : sp'[r] = sp[r]
    <3> TAKE u \in Threads
    <3> TAKE r \in Moving(u)
    <3>1. r \in Spans
      BY MovingIn, Zenon
    <3>2. r # s
      BY <1>5, <1>7, Zenon DEF IInv, SpansOnce
    <3> QED BY <3>1, <3>2, <1>13, Zenon
  <2> QED BY <2>1, <2>2, <1>26, SpansStill, Zenon
<1>34. ListInv'
  <2>1. PICK F, G : F = FullSpans /\ G = FullSpans'
    BY Zenon
  <2>2. \A r \in S \ {span_list[1]} : r \in F <=> r \in G
    BY <2>1, <1>6, <1>7, <1>13, Zenon
  <2>3. TailSorted(span_list, F)
    BY <2>1, Zenon DEF IInv, ListInv
  <2>4. TailSorted(span_list, G)
    BY <2>2, <2>3, <1>6, TailSame, Zenon
  <2>5. Loose'
    BY <1>24, <1>26, Zenon DEF Loose
  <2>6. \A r \in S : sp'[r].use_count > 0
    <3> TAKE r \in S
    <3>1. CASE r = s
      BY <3>1, <1>12, <1>13, Zenon
    <3>2. CASE r # s
      <4>1. sp'[r] = sp[r]
        BY <3>2, <1>6, <1>13, Zenon
      <4>2. sp[r].use_count > 0
        BY <3>2, <1>5, <1>7, Zenon DEF IInv, ListInv
      <4> QED BY <4>1, <4>2, Zenon
    <3> QED BY <3>1, <3>2, Zenon
  <2>7. span_list' = span_list /\ Range(span_list)' = S
    BY <1>3, <1>5, Zenon
  <2> QED BY <2>1, <2>4, <2>5, <2>6, <2>7, <1>6, Zenon DEF ListInv
<1> QED BY <1>26, <1>27, <1>31, <1>32, <1>33, <1>34, ZenonT(60) DEF IInv

\* The list without a span of it.
LEMMA ErasedLists ==
    ASSUME NEW S, Lists(span_list, S), NEW s \in S, NEW F, NEW G,
           \A y \in S \ {s} : y \in F <=> y \in G, Sorted(span_list, F)
    PROVE  Lists(Erased(s), S \ {s}) /\ Sorted(Erased(s), G)
<1>1. /\ Range(span_list) = S /\ DOMAIN span_list = 1 .. Len(span_list)
      /\ \E i \in 1 .. Len(span_list) : span_list[i] = s
  <2>1. Range(span_list) = S
    BY Zenon DEF Lists
  <2>2. DOMAIN span_list = 1 .. Len(span_list) /\ \E i \in 1 .. Len(span_list) : span_list[i] = s
    BY ListsFacts
  <2> QED BY <2>1, <2>2, Zenon
<1>2. PICK k : k = CHOOSE i \in DOMAIN span_list : span_list[i] = s
  BY Zenon
<1>3. k \in 1 .. Len(span_list) /\ span_list[k] = s
  BY <1>1, <1>2, Zenon
<1>4. Erased(s) = Without(span_list, k)
  BY <1>1, <1>2, Zenon DEF Erased
<1>5. \A y \in S \ {span_list[k]} : y \in F <=> y \in G
  BY <1>3, Zenon
<1>6. /\ Lists(Without(span_list, k), S \ {span_list[k]})
      /\ Sorted(span_list, F) => Sorted(Without(span_list, k), G)
  BY <1>3, <1>5, RemoveLists, Zenon
<1> QED BY <1>3, <1>4, <1>6, Zenon

\* The list after a free: s is not full any more, and if it was, it had been
\* full by one object.
LEMMA RelistLists ==
    ASSUME NEW S, Lists(span_list, S), NEW s \in S, NEW F, NEW G,
           \A y \in S \ {s} : y \in F <=> y \in G, Sorted(span_list, F), s \notin G,
           NEW q, s \in F => q.use_count = q.capacity - 1, NEW L, L = Relist(s, q)
    PROVE  Lists(L, IF q.use_count = 0 THEN S \ {s} ELSE S) /\ Sorted(L, G)
<1>1. Lists(Erased(s), S \ {s}) /\ Sorted(Erased(s), G)
  BY ErasedLists, Zenon
<1>2. CASE q.use_count = 0
  BY <1>1, <1>2, Zenon DEF Relist
<1>3. CASE q.use_count # 0 /\ q.use_count = q.capacity - 1
  <2>1. PICK E, T : E = Erased(s) /\ T = S \ {s}
    BY Zenon
  <2>2. Lists(E, T) /\ Sorted(E, G) /\ s \notin T /\ T \cup {s} = S
    BY <2>1, <1>1, Zenon
  <2>3. Lists(<<s>> \o E, T \cup {s})
    BY <2>2, AheadLists, Zenon
  <2>4. Sorted(<<s>> \o E, G)
    BY <2>2, AheadSorted, Zenon
  <2>5. L = <<s>> \o E
    BY <2>1, <1>3, Zenon DEF Relist
  <2> QED BY <2>2, <2>3, <2>4, <2>5, <1>3, ZenonT(60)
<1>4. CASE q.use_count # 0 /\ q.use_count # q.capacity - 1
  <2>1. L = span_list
    BY <1>4, Zenon DEF Relist
  <2>2. span_list \in Seq(S) /\ Range(span_list) = S
    BY Zenon DEF Lists
  <2>3. \A y \in Range(span_list) : y \in F <=> y \in G
    BY <2>2, <1>4, Zenon
  <2>4. Sorted(span_list, G)
    BY <2>2, <2>3, SortedSame, Zenon
  <2> QED BY <2>1, <2>4, <1>4, Zenon
<1> QED BY <1>2, <1>3, <1>4, Zenon

LEMMA FreeToSpanKeeps ==
    ASSUME SpanLaws, IInv, NEW t \in Threads, FreeToSpan(t)
    PROVE  IInv'
<1>1. PICK l \in LocRec : l = loc[t] /\ LocOK(l)
  BY Zenon DEF IInv, Control
<1>2. PICK o : o = Head(l.chunk)
  BY Zenon
<1>3. PICK s, x : s = o[1] /\ x = o[2]
  BY Zenon
<1>4. PICK q : q = FreeObject(sp[s], x)
  BY Zenon
<1>5. PICK L : L = Relist(s, q)
  BY Zenon
<1>6. PICK h, e : h = Tail(l.chunk) /\ e = IF q.use_count = 0 THEN <<s>> \o l.empty ELSE l.empty
  BY Zenon
<1>7. PICK m : m = [l EXCEPT !.chunk = h, !.empty = e]
  BY Zenon
<1>8. /\ l.pc = "free" /\ l.chunk # <<>> /\ sp' = [sp EXCEPT ![s] = q] /\ span_list' = L
      /\ UNCHANGED <<lent, lock, transfer_cache, transfer_capacity, cache>>
  BY <1>1, <1>2, <1>3, <1>4, <1>5, Zenon DEF FreeToSpan, At
<1>9. loc' = [loc EXCEPT ![t] = m]
  BY <1>1, <1>2, <1>3, <1>4, <1>6, <1>7, ZenonT(60) DEF FreeToSpan, IInv, Control
<1>10. /\ l.fetched = {} /\ l.scratch = <<>> /\ l.span = 0 /\ l.pc \in Locking
       /\ l.extracted <= l.need + l.n
  BY <1>1, <1>8, Zenon DEF LocOK, Fetching, Locking
\* The object is out, its span is in the list.
<1>11. PICK R, C : R = Range(l.rest) /\ C = Range(l.chunk)
  BY Zenon
<1>12. /\ Lists(l.rest, R) /\ Lists(l.chunk, C) /\ C \subseteq Objects
  BY <1>1, <1>11, HandLists, Zenon
<1>13. o \in C /\ Lists(h, C \ {o})
  BY <1>2, <1>6, <1>8, <1>12, TailLists, ZenonT(60)
<1>14. h \in Seq(Objects) /\ Range(h) = C \ {o} /\ IsInjective(h)
  <2>1. PICK U : U = C \ {o}
    BY Zenon
  <2>2. Lists(h, U) /\ U \subseteq Objects
    BY <2>1, <1>12, <1>13, ZenonT(60)
  <2>3. h \in Seq(Objects) /\ Range(h) = U /\ IsInjective(h)
    BY <2>2, ListsIn, Zenon
  <2> QED BY <2>1, <2>3, Zenon
<1>15. /\ Reach(t) = Range(transfer_cache) \cup cache[t] \cup HandOf(l)
       /\ Range(transfer_cache) \cap (cache[t] \cup HandOf(l)) = {} /\ OnceIn(l, cache[t])
  BY <1>1, ReachParts, Zenon
<1>16. /\ HandOf(l) = R \cup C /\ R \cap C = {} /\ cache[t] \cap (R \cup C) = {}
       /\ Range(transfer_cache) \cap (cache[t] \cup (R \cup C)) = {}
       /\ Reach(t) = Range(transfer_cache) \cup cache[t] \cup (R \cup C)
  <2>1. Range(l.scratch) = {}
    BY <1>10, EmptyLists, Zenon
  <2>2. HandOf(l) = R \cup C
    BY <2>1, <1>10, <1>11, Zenon DEF HandOf
  <2>3. R \cap C = {} /\ cache[t] \cap HandOf(l) = {}
    BY <1>11, <1>15, Zenon DEF OnceIn
  <2> QED BY <2>2, <2>3, <1>15, Zenon
<1>17. s \in Spans /\ x \in AllSlots /\ o = <<s, x>>
  <2>1. o \in Spans \X (0 .. Capacity - 1)
    BY <1>12, <1>13, Zenon DEF Objects
  <2> QED BY <2>1, <1>3 DEF AllSlots
<1>18. s \in lent /\ x \notin sp[s].bitmap
  <2>1. o \in Reach(t)
    BY <1>13, <1>16, Zenon
  <2>2. Reach(t) \subseteq Out
    BY Zenon DEF Reach, Out
  <2>3. <<s, x>> \in Out
    BY <2>1, <2>2, <1>17, Zenon
  <2> QED BY <2>3, <1>17, Zenon DEF IInv, Match
<1>19. /\ SpanOK(q) /\ q.bitmap = sp[s].bitmap \cup {x} /\ q.use_count = sp[s].use_count - 1
       /\ sp[s].use_count > 0 /\ q.capacity = Capacity
  <2>1. SpanOK(sp[s])
    BY <1>17, SpanFacts, Zenon
  <2> QED BY <2>1, <1>4, <1>17, <1>18, Zenon DEF SpanLaws, FreeGivesBack
<1>20. sp[s].use_count \in Nat /\ q.use_count \in Nat /\ sp[s].use_count # 0
  <2>1. sp[s].use_count \in Nat /\ q.use_count \in Nat
    BY <1>17, <1>19, SpanFacts, Zenon DEF SpanOK, SpanRec
  <2> QED BY <2>1, <1>19
<1>21. PICK S : S = Range(span_list)
  BY Zenon
<1>22. Lists(span_list, S) /\ S \subseteq Spans
  BY <1>21, AsLists, Zenon DEF IInv, Data, SpansOnce
<1>23. s \in S /\ \A u \in Threads : s \notin Moving(u)
  <2>1. \A u \in Threads : s \notin Moving(u)
    BY <1>20, Zenon DEF IInv, SpansOnce
  <2>2. s \in Range(span_list) \cup UNION {Moving(u) : u \in Threads}
    BY <1>18, Zenon DEF IInv, SpansOnce
  <2> QED BY <2>1, <2>2, <1>21, Zenon
<1>24. /\ sp' \in [Spans -> SpanRec] /\ \A r \in Spans : SpanOK(sp'[r])
       /\ sp'[s] = q /\ \A r \in Spans \ {s} : sp'[r] = sp[r]
       /\ \A r \in Spans \ {s} : r \in FullSpans' <=> r \in FullSpans
       /\ s \notin FullSpans'
  <2>1. q.bitmap # {}
    BY <1>19, Zenon
  <2> QED BY <2>1, <1>8, <1>17, <1>19, SpanChange, Zenon
\* What the thread holds afterwards.
<1>25. PICK E : E = Range(l.empty)
  BY Zenon
<1>26. /\ Lists(l.empty, E) /\ E \subseteq Spans /\ Moving(t) = E /\ s \notin E
       /\ \A r \in E : sp[r].use_count = 0
  <2>1. l.empty \in Seq(Spans) /\ IsInjective(l.empty)
    BY <1>1, Zenon DEF LocRec, IInv, SpansOnce
  <2>2. Moving(t) = E
    BY <1>1, <1>10, <1>25, Zenon DEF Moving
  <2>3. \A r \in Moving(t) : sp[r].use_count = 0
    BY ZenonT(60) DEF IInv, SpansOnce
  <2>4. Lists(l.empty, E) /\ E \subseteq Spans
    BY <2>1, <1>25, AsLists, Zenon
  <2> QED BY <2>2, <2>3, <2>4, <1>23, ZenonT(60)
<1>27. PICK M : M = IF q.use_count = 0 THEN E \cup {s} ELSE E
  BY Zenon
<1>28. Lists(e, M) /\ M \subseteq Spans
  <2>1. CASE q.use_count = 0
    <3>1. Lists(<<s>> \o l.empty, E \cup {s})
      BY <1>26, AheadLists, Zenon
    <3>2. e = <<s>> \o l.empty /\ M = E \cup {s}
      BY <2>1, <1>6, <1>27, Zenon
    <3> QED BY <3>1, <3>2, <1>17, <1>26, Zenon
  <2>2. CASE q.use_count # 0
    <3>1. e = l.empty /\ M = E
      BY <2>2, <1>6, <1>27, ZenonT(60)
    <3> QED BY <3>1, <1>26, Zenon
  <2> QED BY <2>1, <2>2, Zenon
<1>29. e \in Seq(Spans) /\ Range(e) = M /\ IsInjective(e)
  BY <1>28, ListsIn, Zenon
<1>30. /\ m \in LocRec /\ m.pc = "free" /\ m.n = l.n /\ m.fetched = l.fetched
       /\ m.extracted = l.extracted /\ m.need = l.need /\ m.scratch = l.scratch
       /\ m.rest = l.rest /\ m.chunk = h /\ m.empty = e /\ m.span = l.span /\ m.drain = l.drain
  BY <1>7, <1>8, <1>14, <1>29, ZenonT(60) DEF LocRec
<1>31. LocOK(m) /\ m.pc \in Locking
  BY <1>10, <1>30, Zenon DEF LocOK, Fetching, Releasing, Locking
<1>32. Control' /\ loc'[t] = m /\ Others(t)
  BY <1>1, <1>8, <1>9, <1>10, <1>30, <1>31, ControlStep, ZenonT(60) DEF IInv
\* The list.
<1>33. PICK F, G : F = FullSpans /\ G = FullSpans'
  BY Zenon
<1>34. ~Loose /\ Sorted(span_list, F) /\ \A r \in S : sp[r].use_count > 0
  <2>1. lock = t /\ loc[t].pc \notin {"inner", "after"}
    BY <1>1, <1>8, <1>10, HolderAlone, ZenonT(60) DEF IInv
  <2> QED BY <2>1, <1>21, <1>33, NobodyLoose, Zenon
<1>35. s \in F => q.use_count = q.capacity - 1
  <2>1. SpanOK(sp[s]) /\ sp[s].capacity = Capacity
    BY <1>17, SpanFacts, Zenon DEF SpanOK, SpanRec
  <2>2. sp[s].use_count <= Capacity
    BY <2>1, Zenon DEF SpanLaws, AllocFinds
  <2>3. s \in F => sp[s].use_count >= sp[s].capacity
    BY <1>33, Zenon DEF FullSpans, IsFull
  <2> QED BY <2>1, <2>2, <2>3, <1>19, <1>20
<1>36. PICK T : T = IF q.use_count = 0 THEN S \ {s} ELSE S
  BY Zenon
<1>37. Lists(L, T) /\ Sorted(L, G) /\ T \subseteq S /\ T \subseteq Spans
  <2>1. \A y \in S \ {s} : y \in F <=> y \in G
    BY <1>22, <1>24, <1>33, Zenon
  <2>2. s \notin G
    BY <1>24, <1>33, Zenon
  <2>3. Lists(L, IF q.use_count = 0 THEN S \ {s} ELSE S) /\ Sorted(L, G)
    BY <2>1, <2>2, <1>5, <1>22, <1>23, <1>34, <1>35, RelistLists, ZenonT(60)
  <2> QED BY <2>3, <1>22, <1>36, Zenon
<1>38. L \in Seq(Spans) /\ Range(L) = T /\ IsInjective(L)
  BY <1>37, ListsIn, Zenon
<1>39. Data'
  BY <1>8, <1>24, <1>38, Zenon DEF IInv, Data
\* The object is no longer out.
<1>40. HandOf(m) = R \cup (C \ {o}) /\ OnceIn(m, cache[t])
  <2>1. Range(<<>>) = {} /\ IsInjective(<<>>)
    BY EmptyLists, Zenon
  <2>2. /\ m.fetched = {} /\ Range(m.scratch) = {} /\ IsInjective(m.scratch)
        /\ Range(m.rest) = R /\ IsInjective(m.rest)
        /\ Range(m.chunk) = C \ {o} /\ IsInjective(m.chunk)
    BY <2>1, <1>10, <1>12, <1>14, <1>30, ZenonT(60) DEF Lists
  <2>3. HandOf(m) = R \cup (C \ {o})
    BY <2>2, Zenon DEF HandOf
  <2> QED BY <2>2, <2>3, <1>16, ZenonT(60) DEF OnceIn
<1>41. Held(t)' = cache[t] \cup HandOf(m) /\ HeldOnce(t)'
  <2>1. Hand(t)' = HandOf(m)
    BY <1>32, Zenon DEF Hand, HandOf
  <2>2. Held(t)' = cache[t] \cup HandOf(m)
    BY <2>1, <1>8, Zenon DEF Held
  <2>3. HeldOnce(t)'
    BY <2>1, <1>8, <1>40, <1>32, Zenon DEF HeldOnce, OnceIn
  <2> QED BY <2>1, <2>2, <2>3, ZenonT(60)
<1>42. (Range(transfer_cache) \cap Held(t) = {})' /\ IsInjective(transfer_cache)'
  <2>1. Range(transfer_cache)' = Range(transfer_cache) /\ IsInjective(transfer_cache)'
    BY <1>8, Zenon DEF IInv, Once
  <2> QED BY <2>1, <1>16, <1>40, <1>41, Zenon
<1>43. Reach(t)' = (Reach(t) \ {o}) \cup {}
  <2>1. Reach(t)' = Range(transfer_cache) \cup (cache[t] \cup HandOf(m))
    BY <1>8, <1>41, Zenon DEF Reach
  <2> QED BY <2>1, <1>13, <1>16, <1>40, Zenon
<1>44. Once' /\ Out' = (Out \ {o}) \cup {}
  <2>1. Once /\ {o} \subseteq Reach(t) /\ {} \cap Out = {} /\ \A u \in Threads \ {t} : cache'[u] = cache[u]
    BY <1>8, <1>13, <1>16, ZenonT(60) DEF IInv
  <2> QED BY <2>1, <1>32, <1>41, <1>42, <1>43, Exchange, ZenonT(60)
<1>45. Match'
  <2>1. Out' \subseteq Objects
    BY <1>44, ZenonT(60) DEF IInv, Match
  <2>2. ASSUME NEW r \in Spans, NEW y \in AllSlots
        PROVE  <<r, y>> \in Out' <=> r \in lent' /\ y \notin sp'[r].bitmap
    <3>1. <<r, y>> \in Out <=> r \in lent /\ y \notin sp[r].bitmap
      BY Zenon DEF IInv, Match
    <3>2. <<r, y>> \in Out' <=> <<r, y>> \in Out /\ <<r, y>> # o
      BY <1>44, Zenon
    <3>3. <<r, y>> = o <=> r = s /\ y = x
      BY <1>17
    <3>4. CASE r = s
      <4>1. y \in sp'[r].bitmap <=> y \in sp[s].bitmap \/ y = x
        BY <3>4, <1>19, <1>24, Zenon
      <4> QED BY <3>1, <3>2, <3>3, <3>4, <4>1, <1>8, ZenonT(60)
    <3>5. CASE r # s
      <4>1. sp'[r] = sp[r]
        BY <3>5, <1>24, Zenon
      <4> QED BY <3>1, <3>2, <3>3, <3>5, <4>1, <1>8, ZenonT(60)
    <3> QED BY <3>4, <3>5, Zenon
  <2> QED BY <2>1, <2>2, Zenon DEF Match
<1>46. SpansOnce'
  <2>1. SpansOnce /\ IsInjective(loc'[t].empty) /\ IsInjective(L) /\ span_list' = L
    BY <1>8, <1>29, <1>30, <1>32, <1>38, ZenonT(60) DEF IInv
  <2>2. Moving(t)' = M
    BY <1>10, <1>29, <1>30, <1>32, ZenonT(60) DEF Moving
  <2>3. E \cap S = {} /\ lent' = (lent \ {}) \cup {} /\ {} \cap lent = {}
    BY <1>8, <1>21, <1>26, ZenonT(60) DEF IInv, SpansOnce
  <2>4. M \cap T = {} /\ T \cup M = S \cup E
    BY <2>3, <1>23, <1>26, <1>27, <1>36, ZenonT(60)
  <2>5. /\ M \cap Range(L) = {} /\ {} \subseteq Range(span_list) \cup Moving(t)
        /\ Range(L) \cup M = ((Range(span_list) \cup Moving(t)) \ {}) \cup {}
    BY <2>4, <1>21, <1>26, <1>38, ZenonT(60)
  <2>6. \A r \in M : sp'[r].use_count = 0
    <3> TAKE r \in M
    <3>1. CASE r = s
      BY <3>1, <1>24, <1>26, <1>27, ZenonT(60)
    <3>2. CASE r # s
      BY <3>2, <1>24, <1>26, <1>27, Zenon
    <3> QED BY <3>1, <3>2, Zenon
  <2>7. \A u \in Threads \ {t} : \A r \in Moving(u) : sp'[r] = sp[r]
    <3> TAKE u \in Threads \ {t}
    <3> TAKE r \in Moving(u)
    <3>1. r \in Spans /\ r # s
      BY <1>23, MovingIn, Zenon
    <3> QED BY <3>1, <1>24, Zenon
  <2>8. PICK none : none = {}
    BY Zenon
  <2>9. /\ none \cap lent = {} /\ none \subseteq Range(span_list) \cup Moving(t)
        /\ Range(L) \cup M = ((Range(span_list) \cup Moving(t)) \ none) \cup none
        /\ lent' = (lent \ none) \cup none
    BY <2>3, <2>5, <2>8, Zenon
  <2>10. M \cap Range(L) = {}
    BY <2>5, Zenon
  <2>11. Others(t)
    BY <1>32, Zenon
  <2> QED BY <2>1, <2>2, <2>6, <2>7, <2>9, <2>10, <2>11, SpanExchange, ZenonT(60)
<1>47. ListInv'
  <2>1. TailSorted(L, G)
    <3>1. \A y \in Range(L) : y \in G <=> y \in G
      BY Zenon
    <3> QED BY <3>1, <1>37, <1>38, SortedSame, Zenon
  <2>2. ~Loose'
    BY <1>30, <1>32, <1>34, ZenonT(60) DEF Loose, Others
  <2>3. \A r \in T : sp'[r].use_count > 0
    <3> TAKE r \in T
    <3>1. CASE r = s
      <4>1. q.use_count # 0
        BY <3>1, <1>36, Zenon
      <4>2. q.use_count > 0
        BY <4>1, <1>20
      <4> QED BY <4>2, <3>1, <1>24, Zenon
    <3>2. CASE r # s
      BY <3>2, <1>24, <1>34, <1>37, Zenon
    <3> QED BY <3>1, <3>2, Zenon
  <2>4. span_list' = L /\ Range(span_list)' = T
    BY <1>8, <1>38, Zenon
  <2> QED BY <2>1, <2>2, <2>3, <2>4, <1>33, <1>37, ZenonT(60) DEF ListInv
<1> QED BY <1>32, <1>39, <1>44, <1>45, <1>46, <1>47, ZenonT(60) DEF IInv

=============================================================================
