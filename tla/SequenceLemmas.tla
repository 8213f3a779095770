--------------------------- MODULE SequenceLemmas ---------------------------
(***************************************************************************)
(* Lemmas about sequences that the proofs about the queue and about the    *)
(* caches share: what InsertAt, RemoveAt, Append and Tail do to the        *)
(* positions and to the elements of a sequence.                            *)
(***************************************************************************)
EXTENDS SequencesExt, SequenceTheorems, FiniteSetTheorems, TLAPS

\* InsertAt, one position at a time.
LEMMA InsertAtPositions ==
    ASSUME NEW S, NEW s \in Seq(S), NEW i \in 1 .. Len(s) + 1, NEW e \in S
    PROVE  /\ InsertAt(s, i, e) \in Seq(S)
           /\ Len(InsertAt(s, i, e)) = Len(s) + 1
           /\ \A k \in 1 .. Len(s) + 1 :
                 InsertAt(s, i, e)[k] =
                    IF k < i THEN s[k] ELSE IF k = i THEN e ELSE s[k - 1]
<1> DEFINE before == SubSeq(s, 1, i - 1)
           after == SubSeq(s, i, Len(s))
<1>1. Len(s) \in Nat /\ \A k \in 1 .. Len(s) : s[k] \in S
  BY LenProperties, ElementOfSeq
<1>2. /\ before \in Seq(S)
      /\ Len(before) = i - 1
      /\ \A k \in 1 .. i - 1 : before[k] = s[k]
  <2>1. \A k \in 1 .. i - 1 : s[k] \in S
    BY <1>1
  <2> HIDE DEF before
  <2> QED
    BY <1>1, <2>1, SubSeqProperties DEF before
<1>3. /\ after \in Seq(S)
      /\ Len(after) = Len(s) + 1 - i
      /\ \A k \in 1 .. Len(s) + 1 - i : after[k] = s[k + i - 1]
  <2>1. \A k \in i .. Len(s) : s[k] \in S
    BY <1>1
  <2>2. /\ after \in Seq(S)
        /\ Len(after) = IF i <= Len(s) THEN Len(s) - i + 1 ELSE 0
        /\ \A k \in 1 .. Len(s) - i + 1 : after[k] = s[i + k - 1]
    BY <1>1, <2>1, SubSeqProperties
  <2> QED
    BY <1>1, <2>2
<1>4. /\ <<e>> \in Seq(S)
      /\ Len(<<e>>) = 1
      /\ <<e>>[1] = e
  OBVIOUS
<1> HIDE DEF before, after
<1>5. /\ before \o <<e>> \in Seq(S)
      /\ Len(before \o <<e>>) = i
      /\ \A k \in 1 .. i : (before \o <<e>>)[k] = IF k < i THEN s[k] ELSE e
  BY <1>1, <1>2, <1>4, ConcatProperties
<1> DEFINE front == before \o <<e>>
<1> HIDE DEF front
<1>6. /\ front \o after \in Seq(S)
      /\ Len(front \o after) = Len(s) + 1
      /\ \A k \in 1 .. Len(s) + 1 : (front \o after)[k] =
            IF k <= i THEN front[k] ELSE after[k - i]
  BY <1>1, <1>3, <1>5, ConcatProperties DEF front
<1>7. \A k \in 1 .. Len(s) + 1 : (front \o after)[k] =
            IF k < i THEN s[k] ELSE IF k = i THEN e ELSE s[k - 1]
  BY <1>1, <1>3, <1>5, <1>6 DEF front
<1>8. InsertAt(s, i, e) = front \o after
  BY DEF InsertAt, front, before, after
<1> QED
  BY <1>6, <1>7, <1>8

\* InsertAt adds its element and no other.
LEMMA InsertAtElements ==
    ASSUME NEW S, NEW s \in Seq(S), NEW i \in 1 .. Len(s) + 1, NEW e \in S
    PROVE  /\ Range(InsertAt(s, i, e)) = Range(s) \cup {e}
           /\ IsInjective(s) /\ e \notin Range(s) => IsInjective(InsertAt(s, i, e))
<1> DEFINE r == InsertAt(s, i, e)
           From(k) == IF k < i THEN k ELSE k - 1
<1>1. Len(s) \in Nat /\ DOMAIN s = 1 .. Len(s)
  BY LenProperties
<1>2. /\ r \in Seq(S)
      /\ Len(r) = Len(s) + 1
      /\ \A k \in 1 .. Len(s) + 1 :
            r[k] = IF k < i THEN s[k] ELSE IF k = i THEN e ELSE s[k - 1]
  BY InsertAtPositions
<1> HIDE DEF r
<1>3. DOMAIN r = 1 .. Len(s) + 1
  BY <1>2, LenProperties
<1>4. \A k \in DOMAIN r : k # i => From(k) \in DOMAIN s /\ r[k] = s[From(k)]
  BY <1>1, <1>2, <1>3
<1>5. i \in DOMAIN r /\ r[i] = e
  BY <1>1, <1>2, <1>3
<1>6. \A j \in DOMAIN s : \E k \in DOMAIN r : r[k] = s[j]
  <2> SUFFICES ASSUME NEW j \in DOMAIN s
               PROVE  \E k \in DOMAIN r : r[k] = s[j]
    OBVIOUS
  <2>1. CASE j < i
    BY <1>1, <1>2, <1>3, <2>1
  <2>2. CASE j >= i
    <3>1. j + 1 \in DOMAIN r /\ r[j + 1] = s[j]
      BY <1>1, <1>2, <1>3, <2>2
    <3> QED
      BY <3>1
  <2> QED
    BY <1>1, <2>1, <2>2
<1>7. \A j, k \in DOMAIN r : j # i /\ k # i /\ From(j) = From(k) => j = k
  BY <1>1, <1>3
<1> HIDE DEF From
<1>8. Range(r) = Range(s) \cup {e}
  BY <1>4, <1>5, <1>6 DEF Range
<1>9. ASSUME IsInjective(s), e \notin Range(s)
      PROVE  IsInjective(r)
  <2>1. \A k \in DOMAIN r : k # i => r[k] # e
    BY <1>4, <1>9 DEF Range
  <2> QED
    BY <1>4, <1>5, <1>7, <1>9, <2>1 DEF IsInjective
<1> QED
  BY <1>8, <1>9 DEF r

-----------------------------------------------------------------------------

\* RemoveAt, one position at a time.
LEMMA RemoveAtPositions ==
    ASSUME NEW S, NEW s \in Seq(S), NEW i \in 1 .. Len(s)
    PROVE  /\ RemoveAt(s, i) \in Seq(S)
           /\ Len(RemoveAt(s, i)) = Len(s) - 1
           /\ \A k \in 1 .. Len(s) - 1 :
                 RemoveAt(s, i)[k] = IF k < i THEN s[k] ELSE s[k + 1]
<1> DEFINE before == SubSeq(s, 1, i - 1)
           after == SubSeq(s, i + 1, Len(s))
<1>1. Len(s) \in Nat /\ \A k \in 1 .. Len(s) : s[k] \in S
  BY LenProperties, ElementOfSeq
<1>2. /\ before \in Seq(S)
      /\ Len(before) = i - 1
      /\ \A k \in 1 .. i - 1 : before[k] = s[k]
  <2>1. \A k \in 1 .. i - 1 : s[k] \in S
    BY <1>1
  <2> HIDE DEF before
  <2> QED
    BY <1>1, <2>1, SubSeqProperties DEF before
<1>3. /\ after \in Seq(S)
      /\ Len(after) = Len(s) - i
      /\ \A k \in 1 .. Len(s) - i : after[k] = s[k + i]
  <2>1. \A k \in i + 1 .. Len(s) : s[k] \in S
    BY <1>1
  <2>2. /\ after \in Seq(S)
        /\ Len(after) = IF i + 1 <= Len(s) THEN Len(s) - (i + 1) + 1 ELSE 0
        /\ \A k \in 1 .. Len(s) - (i + 1) + 1 : after[k] = s[i + 1 + k - 1]
    BY <1>1, <2>1, SubSeqProperties
  <2> QED
    BY <1>1, <2>2
<1> HIDE DEF before, after
<1>4. /\ before \o after \in Seq(S)
      /\ Len(before \o after) = Len(before) + Len(after)
      /\ \A k \in 1 .. Len(before) + Len(after) : (before \o after)[k] =
            IF k <= Len(before) THEN before[k] ELSE after[k - Len(before)]
  BY <1>2, <1>3, ConcatProperties
<1>5. /\ Len(before \o after) = Len(s) - 1
      /\ \A k \in 1 .. Len(s) - 1 :
            (before \o after)[k] = IF k < i THEN s[k] ELSE s[k + 1]
  <2> DEFINE both == before \o after
  <2> HIDE DEF both
  <2>1. Len(before) + Len(after) = Len(s) - 1
    BY <1>1, <1>2, <1>3
  <2>2. ASSUME NEW k \in 1 .. Len(s) - 1
        PROVE  both[k] = IF k < i THEN s[k] ELSE s[k + 1]
    <3>1. CASE k < i
      BY <1>1, <1>2, <1>4, <2>1, <3>1 DEF both
    <3>2. CASE k >= i
      <4>1. k - (i - 1) \in 1 .. Len(s) - i /\ k - (i - 1) + i = k + 1
        BY <1>1, <3>2
      <4>2. both[k] = after[k - (i - 1)]
        BY <1>1, <1>2, <1>4, <2>1, <3>2 DEF both
      <4> QED
        BY <1>1, <1>3, <3>2, <4>1, <4>2
    <3> QED
      BY <1>1, <3>1, <3>2
  <2> QED
    BY <1>4, <2>1, <2>2 DEF both
<1>6. RemoveAt(s, i) = before \o after
  BY DEF RemoveAt, before, after
<1> QED
  BY <1>4, <1>5, <1>6

\* RemoveAt drops one occurrence of the element at its position.
LEMMA RemoveAtElements ==
    ASSUME NEW S, NEW s \in Seq(S), NEW i \in 1 .. Len(s)
    PROVE  /\ Range(RemoveAt(s, i)) \subseteq Range(s)
           /\ Range(s) \ {s[i]} \subseteq Range(RemoveAt(s, i))
           /\ IsInjective(s) => /\ IsInjective(RemoveAt(s, i))
                                /\ s[i] \notin Range(RemoveAt(s, i))
<1> DEFINE r == RemoveAt(s, i)
           From(k) == IF k < i THEN k ELSE k + 1
<1>1. Len(s) \in Nat /\ DOMAIN s = 1 .. Len(s)
  BY LenProperties
<1>2. /\ r \in Seq(S)
      /\ Len(r) = Len(s) - 1
      /\ \A k \in 1 .. Len(s) - 1 : r[k] = IF k < i THEN s[k] ELSE s[k + 1]
  BY RemoveAtPositions
<1> HIDE DEF r
<1>3. DOMAIN r = 1 .. Len(s) - 1
  BY <1>2, LenProperties
<1>4. \A k \in DOMAIN r : From(k) \in DOMAIN s /\ From(k) # i /\ r[k] = s[From(k)]
  BY <1>1, <1>2, <1>3
<1>5. \A j \in DOMAIN s : j # i => \E k \in DOMAIN r : r[k] = s[j]
  <2> SUFFICES ASSUME NEW j \in DOMAIN s, j # i
               PROVE  \E k \in DOMAIN r : r[k] = s[j]
    OBVIOUS
  <2>1. CASE j < i
    BY <1>1, <1>2, <1>3, <2>1
  <2>2. CASE j > i
    <3>1. j - 1 \in DOMAIN r /\ r[j - 1] = s[j]
      BY <1>1, <1>2, <1>3, <2>2
    <3> QED
      BY <3>1
  <2> QED
    BY <1>1, <2>1, <2>2
<1>6. \A j, k \in DOMAIN r : From(j) = From(k) => j = k
  BY <1>1, <1>3
<1>7. i \in DOMAIN s
  BY <1>1
<1> HIDE DEF From
<1>8. Range(r) \subseteq Range(s) /\ Range(s) \ {s[i]} \subseteq Range(r)
  BY <1>4, <1>5 DEF Range
<1>9. ASSUME IsInjective(s)
      PROVE  IsInjective(r) /\ s[i] \notin Range(r)
  <2>1. \A k \in DOMAIN r : r[k] # s[i]
    BY <1>4, <1>7, <1>9 DEF IsInjective
  <2> QED
    BY <1>4, <1>6, <1>9, <2>1 DEF IsInjective, Range
<1> QED
  BY <1>8, <1>9 DEF r

-----------------------------------------------------------------------------

\* Append adds its element at the end.
LEMMA AppendElements ==
    ASSUME NEW S, NEW s \in Seq(S), NEW e \in S
    PROVE  /\ Range(Append(s, e)) = Range(s) \cup {e}
           /\ IsInjective(s) /\ e \notin Range(s) => IsInjective(Append(s, e))
<1> DEFINE r == Append(s, e)
<1>1. Len(s) \in Nat /\ DOMAIN s = 1 .. Len(s)
  BY LenProperties
<1>2. /\ r \in Seq(S)
      /\ Len(r) = Len(s) + 1
      /\ \A k \in 1 .. Len(s) : r[k] = s[k]
      /\ r[Len(s) + 1] = e
  BY AppendProperties
<1> HIDE DEF r
<1>3. DOMAIN r = 1 .. Len(s) + 1
  BY <1>2, LenProperties
<1> DEFINE n == Len(s) + 1
<1>4. /\ n \in DOMAIN r /\ r[n] = e
      /\ \A k \in DOMAIN r : k # n => k \in DOMAIN s /\ r[k] = s[k]
      /\ DOMAIN s \subseteq DOMAIN r /\ \A k \in DOMAIN s : r[k] = s[k]
  BY <1>1, <1>2, <1>3
<1> HIDE DEF n
<1>5. Range(r) = Range(s) \cup {e}
  BY <1>4 DEF Range
<1>6. ASSUME IsInjective(s), e \notin Range(s)
      PROVE  IsInjective(r)
  <2>1. \A k \in DOMAIN r : k # n => r[k] # e
    BY <1>4, <1>6 DEF Range
  <2> QED
    BY <1>4, <1>6, <2>1 DEF IsInjective
<1> QED
  BY <1>5, <1>6 DEF r

\* Tail drops the head, once.
LEMMA TailElements ==
    ASSUME NEW S, NEW s \in Seq(S), Len(s) > 0
    PROVE  /\ Head(s) \in Range(s)
           /\ Tail(s) \in Seq(S)
           /\ Len(Tail(s)) = Len(s) - 1
           /\ Range(Tail(s)) \subseteq Range(s)
           /\ Range(s) \ {Head(s)} \subseteq Range(Tail(s))
           /\ IsInjective(s) => IsInjective(Tail(s)) /\ Head(s) \notin Range(Tail(s))
<1> DEFINE t == Tail(s)
<1>1. Len(s) \in Nat \ {0} /\ DOMAIN s = 1 .. Len(s) /\ s # <<>>
  BY LenProperties, EmptySeq
<1>2. /\ t \in Seq(S)
      /\ Len(t) = Len(s) - 1
      /\ \A k \in 1 .. Len(t) : t[k] = s[k + 1]
  BY <1>1, HeadTailProperties
<1>3. Head(s) = s[1]
  BY <1>1
<1> HIDE DEF t
<1>4. DOMAIN t = 1 .. Len(s) - 1
  BY <1>2, LenProperties
<1>5. 1 \in DOMAIN s
  BY <1>1
<1>6. \A k \in DOMAIN t : k + 1 \in DOMAIN s /\ k + 1 # 1 /\ t[k] = s[k + 1]
  BY <1>1, <1>2, <1>4
<1>7. \A j \in DOMAIN s : j # 1 => j - 1 \in DOMAIN t /\ t[j - 1] = s[j]
  BY <1>1, <1>2, <1>4
<1>8. Range(t) \subseteq Range(s) /\ Range(s) \ {s[1]} \subseteq Range(t)
  <2>1. Range(t) \subseteq Range(s)
    BY <1>6 DEF Range
  <2>2. Range(s) \ {s[1]} \subseteq Range(t)
    BY <1>7 DEF Range
  <2> QED
    BY <2>1, <2>2
<1>9. ASSUME IsInjective(s)
      PROVE  IsInjective(t) /\ s[1] \notin Range(t)
  <2>1. \A k \in DOMAIN t : t[k] # s[1]
    BY <1>5, <1>6, <1>9 DEF IsInjective
  <2>2. \A j, k \in DOMAIN t : j + 1 = k + 1 => j = k
    BY <1>1, <1>4
  <2> QED
    BY <1>6, <1>9, <2>1, <2>2 DEF IsInjective, Range
<1> QED
  BY <1>2, <1>3, <1>5, <1>8, <1>9 DEF t, Range

\* An element of a sequence has a last occurrence: of the sets of occurrences
\* behind an occurrence, one is minimal.
LEMMA LastOccurrence ==
    ASSUME NEW S, NEW s \in Seq(S), NEW e \in Range(s)
    PROVE  \E i \in DOMAIN s : s[i] = e /\ \A j \in DOMAIN s : s[j] = e => j <= i
<1> DEFINE occurrences == {j \in DOMAIN s : s[j] = e}
           Behind(i) == {j \in occurrences : j > i}
           all == {Behind(i) : i \in occurrences}
           R == StrictSubsetOrdering(DOMAIN s)
<1>1. Len(s) \in Nat /\ DOMAIN s = 1 .. Len(s)
  BY LenProperties
<1>2. IsFiniteSet(DOMAIN s)
  BY <1>1, FS_Interval
<1>3. all \subseteq FiniteSubsetsOf(DOMAIN s)
  BY <1>2, FS_FiniteSubsetsOfFinite
<1>4. all # {}
  BY DEF Range
<1>5. PICK x \in all : \A y \in all : ~(<<y, x>> \in R)
  <2> HIDE DEF all, R
  <2>1. IsWellFoundedOn(R, FiniteSubsetsOf(DOMAIN s))
    BY FS_StrictSubsetOrderingWellFounded DEF R
  <2> QED
    BY <1>3, <1>4, <2>1, WFMin
<1>6. PICK i \in occurrences : x = Behind(i)
  OBVIOUS
<1>7. ASSUME NEW j \in DOMAIN s, s[j] = e, ~(j <= i)
      PROVE  FALSE
  <2>1. j \in Behind(i) /\ j \notin Behind(j) /\ Behind(j) \in all
    BY <1>1, <1>7
  <2>2. Behind(j) \subseteq Behind(i)
    BY <1>1, <1>7
  <2>3. Behind(i) \in SUBSET DOMAIN s /\ Behind(j) \in SUBSET DOMAIN s
    OBVIOUS
  <2> HIDE DEF Behind, all
  <2>4. <<Behind(j), Behind(i)>> \in R
    BY <2>1, <2>2, <2>3 DEF StrictSubsetOrdering
  <2> QED
    BY <1>5, <1>6, <2>1, <2>4
<1> QED
  BY <1>7

-----------------------------------------------------------------------------
(* Sequences whose elements have stamps that do not go down.                *)

SortedBy(s, f) == \A i, j \in DOMAIN s : i < j => f[s[i]] <= f[s[j]]

\* An element with a last stamp keeps a sequence sorted at its end.
LEMMA AppendSorted ==
    ASSUME NEW S, NEW s \in Seq(S), NEW e \in S, NEW f, NEW g,
           SortedBy(s, f),
           \A x \in Range(s) : g[x] = f[x] /\ f[x] <= g[e]
    PROVE  SortedBy(Append(s, e), g)
<1> DEFINE r == Append(s, e)
<1>1. Len(s) \in Nat /\ DOMAIN s = 1 .. Len(s)
  BY LenProperties
<1>2. /\ r \in Seq(S)
      /\ Len(r) = Len(s) + 1
      /\ \A k \in 1 .. Len(s) : r[k] = s[k]
      /\ r[Len(s) + 1] = e
  BY AppendProperties
<1> HIDE DEF r
<1>3. DOMAIN r = 1 .. Len(s) + 1
  BY <1>2, LenProperties
<1>4. ASSUME NEW i \in DOMAIN r, NEW j \in DOMAIN r, i < j
      PROVE  g[r[i]] <= g[r[j]]
  <2>1. i \in DOMAIN s /\ r[i] = s[i] /\ s[i] \in Range(s)
    BY <1>1, <1>2, <1>3, <1>4 DEF Range
  <2>2. CASE j = Len(s) + 1
    BY <1>2, <2>1, <2>2
  <2>3. CASE j # Len(s) + 1
    <3>1. j \in DOMAIN s /\ r[j] = s[j] /\ s[j] \in Range(s)
      BY <1>1, <1>2, <1>3, <2>3 DEF Range
    <3> QED
      BY <1>4, <2>1, <3>1 DEF SortedBy
  <2> QED
    BY <2>2, <2>3
<1> QED
  BY <1>4 DEF SortedBy, r

\* Removing an element keeps a sequence sorted.
LEMMA RemoveAtSorted ==
    ASSUME NEW S, NEW s \in Seq(S), NEW i \in 1 .. Len(s), NEW f, SortedBy(s, f)
    PROVE  SortedBy(RemoveAt(s, i), f)
<1> DEFINE r == RemoveAt(s, i)
           From(k) == IF k < i THEN k ELSE k + 1
<1>1. Len(s) \in Nat /\ DOMAIN s = 1 .. Len(s)
  BY LenProperties
<1>2. /\ r \in Seq(S)
      /\ Len(r) = Len(s) - 1
      /\ \A k \in 1 .. Len(s) - 1 : r[k] = IF k < i THEN s[k] ELSE s[k + 1]
  BY RemoveAtPositions
<1> HIDE DEF r
<1>3. DOMAIN r = 1 .. Len(s) - 1
  BY <1>2, LenProperties
<1>4. \A k \in DOMAIN r : From(k) \in DOMAIN s /\ r[k] = s[From(k)]
  BY <1>1, <1>2, <1>3
<1>5. \A j, k \in DOMAIN r : j < k => From(j) < From(k)
  BY <1>1, <1>3
<1> HIDE DEF From
<1> QED
  BY <1>4, <1>5 DEF SortedBy, r

\* A set of positions that is closed downwards is an initial segment.
LEMMA InitialSegment ==
    ASSUME NEW n \in Nat, NEW P \in SUBSET (1 .. n),
           \A i \in P : \A j \in 1 .. i : j \in P
    PROVE  /\ Cardinality(P) \in 0 .. n
           /\ P = 1 .. Cardinality(P)
<1> DEFINE k == Cardinality(P)
<1>1. IsFiniteSet(P) /\ k \in Nat /\ k <= n
  <2>1. IsFiniteSet(1 .. n) /\ Cardinality(1 .. n) = n
    BY FS_Interval
  <2>2. IsFiniteSet(P) /\ Cardinality(P) <= n
    BY <2>1, FS_Subset
  <2> QED
    BY <2>2, FS_CardinalityType
<1>2. IsFiniteSet(1 .. k) /\ Cardinality(1 .. k) = k
  BY <1>1, FS_Interval
<1>3. P \subseteq 1 .. k
  <2> SUFFICES ASSUME NEW i \in P, i > k
               PROVE  FALSE
    BY <1>1
  <2>1. i \in Nat /\ 1 .. i \in SUBSET P
    OBVIOUS
  <2>2. Cardinality(1 .. i) = i
    BY <2>1, FS_Interval
  <2>3. Cardinality(1 .. i) <= k
    BY <1>1, <2>1, FS_Subset
  <2> QED
    BY <1>1, <2>1, <2>2, <2>3
<1>4. P = 1 .. k
  BY <1>2, <1>3, FS_Subset
<1> QED
  BY <1>1, <1>4

\* Where an element goes that is put behind all with a stamp up to n.
LEMMA SortedPlace ==
    ASSUME NEW S, NEW s \in Seq(S), NEW f, SortedBy(s, f),
           \A x \in Range(s) : f[x] \in Int, NEW n \in Int
    PROVE  LET i == 1 + Cardinality({j \in DOMAIN s : f[s[j]] <= n})
           IN  /\ i \in 1 .. Len(s) + 1
               /\ \A j \in DOMAIN s : j < i <=> f[s[j]] <= n
<1> DEFINE P == {j \in DOMAIN s : f[s[j]] <= n}
<1>1. Len(s) \in Nat /\ DOMAIN s = 1 .. Len(s)
  BY LenProperties
<1>2. \A j \in DOMAIN s : f[s[j]] \in Int
  BY DEF Range
<1>3. ASSUME NEW j \in P, NEW k \in 1 .. j
      PROVE  k \in P
  <2>1. j \in DOMAIN s /\ k \in DOMAIN s /\ (k = j \/ k < j) /\ f[s[j]] <= n
    BY <1>1
  <2>2. f[s[k]] <= f[s[j]]
    BY <1>2, <2>1 DEF SortedBy
  <2> QED
    BY <1>2, <2>1, <2>2
<1>4. P \in SUBSET (1 .. Len(s)) /\ \A j \in DOMAIN s : j \in P <=> f[s[j]] <= n
  BY <1>1
<1> HIDE DEF P
<1>5. Cardinality(P) \in 0 .. Len(s) /\ P = 1 .. Cardinality(P)
  BY <1>1, <1>3, <1>4, InitialSegment
<1>6. 1 + Cardinality(P) \in 1 .. Len(s) + 1
  BY <1>1, <1>5
<1>7. \A j \in DOMAIN s : j < 1 + Cardinality(P) <=> f[s[j]] <= n
  BY <1>1, <1>4, <1>5
<1> QED
  BY <1>6, <1>7 DEF P

\* An element between those with smaller and those with greater stamps keeps a
\* sequence sorted.
LEMMA InsertAtSorted ==
    ASSUME NEW S, NEW s \in Seq(S), NEW e \in S, NEW f, NEW g,
           SortedBy(s, f),
           \A x \in Range(s) : g[x] = f[x],
           NEW i \in 1 .. Len(s) + 1,
           \A j \in DOMAIN s : j < i => f[s[j]] <= g[e],
           \A j \in DOMAIN s : j >= i => g[e] <= f[s[j]],
           g[e] \in Int
    PROVE  SortedBy(InsertAt(s, i, e), g)
<1> DEFINE r == InsertAt(s, i, e)
<1>1. Len(s) \in Nat /\ DOMAIN s = 1 .. Len(s) /\ i \in Int
  BY LenProperties
<1>2. /\ r \in Seq(S)
      /\ Len(r) = Len(s) + 1
      /\ \A k \in 1 .. Len(s) + 1 :
            r[k] = IF k < i THEN s[k] ELSE IF k = i THEN e ELSE s[k - 1]
  BY ONLY InsertAtPositions
<1>3. DOMAIN r = 1 .. Len(s) + 1
  BY <1>2, LenProperties
<1>4. \A j \in DOMAIN s : g[s[j]] = f[s[j]]
  BY DEF Range
<1> HIDE DEF r
<1>5. ASSUME NEW j \in DOMAIN r, NEW k \in DOMAIN r, j < k
      PROVE  g[r[j]] <= g[r[k]]
  <2>1. j \in Int /\ k \in Int
    BY <1>1, <1>3
  <2>2. CASE k < i
    BY <1>1, <1>2, <1>3, <1>4, <1>5, <2>1, <2>2 DEF SortedBy
  <2>3. CASE k = i
    <3>1. j \in DOMAIN s /\ r[j] = s[j] /\ r[k] = e
      BY <1>1, <1>2, <1>3, <1>5, <2>1, <2>3
    <3> QED
      BY <1>4, <1>5, <2>3, <3>1
  <2>4. CASE k > i /\ j = i
    <3>1. k - 1 \in DOMAIN s /\ k - 1 >= i /\ r[k] = s[k - 1] /\ r[j] = e
      BY <1>1, <1>2, <1>3, <1>5, <2>1, <2>4
    <3> QED
      BY <1>4, <3>1
  <2>5. CASE k > i /\ j < i
    <3>1. /\ k - 1 \in DOMAIN s /\ r[k] = s[k - 1]
          /\ j \in DOMAIN s /\ r[j] = s[j]
          /\ j < k - 1
      BY <1>1, <1>2, <1>3, <1>5, <2>1, <2>5
    <3> QED
      BY <1>4, <3>1 DEF SortedBy
  <2>6. CASE k > i /\ j > i
    <3>1. /\ k - 1 \in DOMAIN s /\ r[k] = s[k - 1]
          /\ j - 1 \in DOMAIN s /\ r[j] = s[j - 1]
          /\ j - 1 < k - 1
      BY <1>1, <1>2, <1>3, <1>5, <2>1, <2>6
    <3> QED
      BY <1>4, <3>1 DEF SortedBy
  <2> QED
    BY <1>1, <2>1, <2>2, <2>3, <2>4, <2>5, <2>6
<1> QED
  BY <1>5 DEF SortedBy, r

\* So does dropping the head, whose stamp is the first.
LEMMA TailSorted ==
    ASSUME NEW S, NEW s \in Seq(S), Len(s) > 0, NEW f,
           SortedBy(s, f), \A x \in Range(s) : f[x] \in Int
    PROVE  /\ SortedBy(Tail(s), f)
           /\ \A x \in Range(s) : f[Head(s)] <= f[x]
<1> DEFINE t == Tail(s)
<1>1. Len(s) \in Nat \ {0} /\ DOMAIN s = 1 .. Len(s) /\ s # <<>>
  BY LenProperties, EmptySeq
<1>2. /\ t \in Seq(S)
      /\ Len(t) = Len(s) - 1
      /\ \A k \in 1 .. Len(t) : t[k] = s[k + 1]
  BY <1>1, HeadTailProperties
<1>3. Head(s) = s[1]
  BY <1>1
<1> HIDE DEF t
<1>4. DOMAIN t = 1 .. Len(s) - 1
  BY <1>2, LenProperties
<1>5. \A k \in DOMAIN t : k + 1 \in DOMAIN s /\ t[k] = s[k + 1]
  BY <1>1, <1>2, <1>4
<1>6. \A j, k \in DOMAIN t : j < k => j + 1 < k + 1
  BY <1>4
<1>7. SortedBy(t, f)
  BY <1>5, <1>6 DEF SortedBy
<1>8. ASSUME NEW j \in DOMAIN s
      PROVE  f[s[1]] <= f[s[j]]
  <2>1. 1 \in DOMAIN s /\ (j = 1 \/ 1 < j)
    BY <1>1
  <2>2. f[s[1]] \in Int
    BY <2>1 DEF Range
  <2> QED
    BY <2>1, <2>2 DEF SortedBy
<1> QED
  BY <1>3, <1>7, <1>8 DEF Range, t

-----------------------------------------------------------------------------
(* The elements that stand behind an element of a sequence.                 *)

Behind(s, x) ==
    {y \in Range(s) : \E i, j \in DOMAIN s : i < j /\ s[i] = x /\ s[j] = y}

\* Only the new element comes to stand behind another, and behind the new one
\* stands nothing.
LEMMA AppendBehind ==
    ASSUME NEW S, NEW s \in Seq(S), NEW e \in S
    PROVE  /\ \A x : Behind(Append(s, e), x) \subseteq Behind(s, x) \cup {e}
           /\ e \notin Range(s) => Behind(Append(s, e), e) = {}
<1> DEFINE r == Append(s, e)
<1>1. Len(s) \in Nat /\ DOMAIN s = 1 .. Len(s)
  BY LenProperties
<1>2. /\ r \in Seq(S)
      /\ Len(r) = Len(s) + 1
      /\ \A k \in 1 .. Len(s) : r[k] = s[k]
      /\ r[Len(s) + 1] = e
  BY AppendProperties
<1> HIDE DEF r
<1>3. DOMAIN r = 1 .. Len(s) + 1
  BY <1>2, LenProperties
<1>4. \A i, j \in DOMAIN r : i < j =>
         /\ i \in DOMAIN s /\ r[i] = s[i]
         /\ r[j] = e \/ (j \in DOMAIN s /\ r[j] = s[j])
  BY <1>1, <1>2, <1>3
<1>5. \A x : Behind(r, x) \subseteq Behind(s, x) \cup {e}
  BY <1>4 DEF Behind, Range
<1>6. e \notin Range(s) => Behind(r, e) = {}
  BY <1>4 DEF Behind, Range
<1> QED
  BY <1>5, <1>6 DEF r

\* Removing an element moves no other behind a third.
LEMMA RemoveAtBehind ==
    ASSUME NEW S, NEW s \in Seq(S), NEW i \in 1 .. Len(s)
    PROVE  \A x : Behind(RemoveAt(s, i), x) \subseteq Behind(s, x)
<1> DEFINE r == RemoveAt(s, i)
           From(k) == IF k < i THEN k ELSE k + 1
<1>1. Len(s) \in Nat /\ DOMAIN s = 1 .. Len(s)
  BY LenProperties
<1>2. /\ r \in Seq(S)
      /\ Len(r) = Len(s) - 1
      /\ \A k \in 1 .. Len(s) - 1 : r[k] = IF k < i THEN s[k] ELSE s[k + 1]
  BY RemoveAtPositions
<1> HIDE DEF r
<1>3. DOMAIN r = 1 .. Len(s) - 1
  BY <1>2, LenProperties
<1>4. \A k \in DOMAIN r : From(k) \in DOMAIN s /\ r[k] = s[From(k)]
  BY <1>1, <1>2, <1>3
<1>5. \A j, k \in DOMAIN r : j < k => From(j) < From(k)
  BY <1>1, <1>3
<1> HIDE DEF From
<1>6. \A x : Behind(r, x) \subseteq Behind(s, x)
  BY <1>4, <1>5 DEF Behind, Range
<1> QED
  BY <1>6 DEF r

\* Neither does dropping the head, and all others stand behind the head.
LEMMA TailBehind ==
    ASSUME NEW S, NEW s \in Seq(S), Len(s) > 0
    PROVE  /\ \A x : Behind(Tail(s), x) \subseteq Behind(s, x)
           /\ Range(s) \ {Head(s)} \subseteq Behind(s, Head(s))
<1> DEFINE t == Tail(s)
<1>1. Len(s) \in Nat \ {0} /\ DOMAIN s = 1 .. Len(s) /\ s # <<>>
  BY LenProperties, EmptySeq
<1>2. /\ t \in Seq(S)
      /\ Len(t) = Len(s) - 1
      /\ \A k \in 1 .. Len(t) : t[k] = s[k + 1]
  BY <1>1, HeadTailProperties
<1>3. Head(s) = s[1]
  BY <1>1
<1> HIDE DEF t
<1>4. DOMAIN t = 1 .. Len(s) - 1
  BY <1>2, LenProperties
<1>5. \A k \in DOMAIN t : k + 1 \in DOMAIN s /\ t[k] = s[k + 1]
  BY <1>1, <1>2, <1>4
<1>6. \A j, k \in DOMAIN t : j < k => j + 1 < k + 1
  BY <1>4
<1>7. \A x : Behind(t, x) \subseteq Behind(s, x)
  BY <1>5, <1>6 DEF Behind, Range
<1>8. 1 \in DOMAIN s /\ \A j \in DOMAIN s : j # 1 => 1 < j
  BY <1>1
<1>9. Range(s) \ {s[1]} \subseteq Behind(s, s[1])
  BY <1>8 DEF Behind, Range
<1> QED
  BY <1>3, <1>7, <1>9 DEF t

\* As many elements as positions in the first part of a sequence that repeats none.
LEMMA FirstsCounted ==
    ASSUME NEW S, NEW s \in Seq(S), IsInjective(s), NEW n \in Nat, n <= Len(s), NEW T,
           \A i \in 1 .. n : s[i] \in T,
           \A v \in T : \E i \in 1 .. n : v = s[i]
    PROVE  IsFiniteSet(T) /\ Cardinality(T) = n
<1> DEFINE f == [i \in 1 .. n |-> s[i]]
<1>1. DOMAIN s = 1 .. Len(s) /\ Len(s) \in Nat
  BY LenProperties
<1>2. f \in [1 .. n -> T] /\ \A i \in 1 .. n : f[i] = s[i]
  OBVIOUS
<1>3. \A i, j \in 1 .. n : s[i] = s[j] => i = j
  BY <1>1 DEF IsInjective
<1> HIDE DEF f
<1>4. IsInjective(f)
  BY <1>2, <1>3 DEF IsInjective
<1>5. \A t \in T : \E i \in 1 .. n : f[i] = t
  BY <1>2
<1>6. f \in Bijection(1 .. n, T)
  BY <1>2, <1>4, <1>5 DEF Bijection, Injection, Surjection
<1>7. ExistsBijection(1 .. n, T)
  BY <1>6 DEF ExistsBijection
<1> QED
  BY <1>7, FS_CountingElements, FS_NatBijection

\* And in the whole of it.
LEMMA RangeCounted ==
    ASSUME NEW S, NEW s \in Seq(S), IsInjective(s)
    PROVE  IsFiniteSet(Range(s)) /\ Cardinality(Range(s)) = Len(s)
<1>1. Len(s) \in Nat /\ DOMAIN s = 1 .. Len(s)
  BY LenProperties
<1>2. /\ \A i \in 1 .. Len(s) : s[i] \in Range(s)
      /\ \A v \in Range(s) : \E i \in 1 .. Len(s) : v = s[i]
  BY <1>1 DEF Range
<1> QED
  BY <1>1, <1>2, FirstsCounted

=============================================================================
