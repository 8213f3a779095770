------------------------- MODULE SampleShapes_proofs -------------------------
(***************************************************************************)
(* Proofs about what a sample looks like: how far from its start node it   *)
(* reaches, that it is in one piece, and that limits of the programs cost  *)
(* it no node that they do not have to.  Most of them speak of paths, so   *)
(* the lemmas about Ball come first, by induction on the radius.           *)
(***************************************************************************)
EXTENDS Samplers_proofs

-----------------------------------------------------------------------------
(* Induction on numbers.                                                    *)

\* A set of numbers has a least element.
LEMMA LeastNumber ==
    ASSUME NEW T, T \subseteq Nat, T # {}
    PROVE  \E n \in T : \A m \in T : n <= m
<1> DEFINE less == {p \in Nat \X Nat : p[1] < p[2]}
<1>1. IsWellFoundedOn(less, Nat)
  <2>1. OpToRel(<, Nat) = less
    BY DEF OpToRel
  <2> QED
    BY <2>1, NatLessThanWellFounded
<1> HIDE DEF less
<1>2. PICK n \in T : \A m \in T : ~(<<m, n>> \in less)
  BY <1>1, WFMin
<1>3. ASSUME NEW m \in T
      PROVE  n <= m
  <2>1. m \in Nat /\ n \in Nat
    OBVIOUS
  <2>2. ~(m < n)
    <3>1. <<m, n>>[1] = m /\ <<m, n>>[2] = n
      OBVIOUS
    <3> QED
      BY <1>2, <2>1, <3>1 DEF less
  <2> QED
    BY <2>1, <2>2
<1> QED
  BY <1>3

LEMMA NumberInduction ==
    ASSUME NEW P, 0 \in P, \A n \in Nat : n \in P => n + 1 \in P
    PROVE  Nat \subseteq P
<1> SUFFICES ASSUME Nat \ P # {} PROVE FALSE
  OBVIOUS
<1>1. PICK n \in Nat \ P : \A m \in Nat \ P : n <= m
  BY LeastNumber
<1>2. n # 0
  OBVIOUS
<1>3. n - 1 \in Nat /\ n - 1 \in P
  BY <1>1, <1>2
<1> QED
  BY <1>3

-----------------------------------------------------------------------------
(* Balls.                                                                   *)

Origin(S, s) == {s} \cap S

\* One step along the edges.
Spread(S, E, X) == X \cup {v \in S : \E u \in X : <<u, v>> \in E}

\* What the definition of Ball asks of the balls up to depth.
Balls(S, E, s, depth, g) ==
    g = [d \in 0 .. depth |->
            IF d = 0 THEN {s} \cap S
            ELSE g[d - 1] \cup {v \in S : \E u \in g[d - 1] : <<u, v>> \in E}]

\* What it means for a function to be those balls, one radius at a time.
LEMMA BallsValues ==
    ASSUME NEW S, NEW E, NEW s, NEW depth \in Nat, NEW g, Balls(S, E, s, depth, g)
    PROVE  /\ g[0] = Origin(S, s)
           /\ \A d \in 0 .. depth : d # 0 => g[d] = Spread(S, E, g[d - 1])
<1> DEFINE step == [d \in 0 .. depth |->
            IF d = 0 THEN {s} \cap S
            ELSE g[d - 1] \cup {v \in S : \E u \in g[d - 1] : <<u, v>> \in E}]
<1>1. /\ step[0] = Origin(S, s)
      /\ \A d \in 0 .. depth : d # 0 => step[d] = Spread(S, E, g[d - 1])
  BY DEF Spread, Origin
<1>2. g = step
  BY DEF Balls
<1> HIDE DEF step
<1> QED
  BY <1>1, <1>2

LEMMA BallsMade ==
    ASSUME NEW S, NEW E, NEW s, NEW depth \in Nat, NEW g \in [0 .. depth -> SUBSET S],
           g[0] = Origin(S, s),
           \A d \in 0 .. depth : d # 0 => g[d] = Spread(S, E, g[d - 1])
    PROVE  Balls(S, E, s, depth, g)
<1> DEFINE step == [d \in 0 .. depth |->
            IF d = 0 THEN {s} \cap S
            ELSE g[d - 1] \cup {v \in S : \E u \in g[d - 1] : <<u, v>> \in E}]
<1>1. /\ step = [d \in 0 .. depth |-> step[d]]
      /\ step[0] = Origin(S, s)
      /\ \A d \in 0 .. depth : d # 0 => step[d] = Spread(S, E, g[d - 1])
  BY DEF Spread, Origin
<1> HIDE DEF step
<1>2. \A d \in 0 .. depth : g[d] = step[d]
  BY <1>1
<1>3. g = [d \in 0 .. depth |-> g[d]]
  OBVIOUS
<1>4. g = step
  BY <1>1, <1>2, <1>3
<1> QED
  BY <1>4 DEF Balls, step

\* There are such functions, and they agree.
LEMMA BallsExist ==
    ASSUME NEW S, NEW E, NEW s
    PROVE  \A depth \in Nat : \E g : Balls(S, E, s, depth, g)
<1> DEFINE P == {d \in Nat : \E g \in [0 .. d -> SUBSET S] : Balls(S, E, s, d, g)}
<1>1. 0 \in P
  <2> DEFINE g == [d \in 0 .. 0 |-> Origin(S, s)]
  <2>1. g \in [0 .. 0 -> SUBSET S] /\ g[0] = Origin(S, s)
    BY DEF Origin
  <2> HIDE DEF g
  <2>2. \A d \in 0 .. 0 : d = 0
    OBVIOUS
  <2>3. Balls(S, E, s, 0, g)
    BY <2>1, <2>2, BallsMade
  <2> QED
    BY <2>1, <2>3
<1>2. ASSUME NEW n \in Nat, n \in P
      PROVE  n + 1 \in P
  <2>1. PICK g \in [0 .. n -> SUBSET S] : Balls(S, E, s, n, g)
    BY <1>2
  <2>2. /\ g[0] = Origin(S, s)
        /\ \A d \in 0 .. n : d # 0 => g[d] = Spread(S, E, g[d - 1])
    BY <2>1, BallsValues
  <2> DEFINE m == n + 1
             last == Spread(S, E, g[n])
             h == [d \in 0 .. m |-> IF d = m THEN last ELSE g[d]]
  <2>3. last \in SUBSET S
    BY DEF Spread
  <2> HIDE DEF last
  <2>4. /\ h \in [0 .. m -> SUBSET S]
        /\ \A d \in 0 .. n : h[d] = g[d]
        /\ h[m] = last
    BY <2>3
  <2> HIDE DEF h
  <2>5. ASSUME NEW d \in 0 .. m, d # 0
        PROVE  h[d] = Spread(S, E, h[d - 1])
    <3>1. d - 1 \in 0 .. n /\ h[d - 1] = g[d - 1]
      BY <2>4, <2>5
    <3>2. CASE d = m
      <4>1. d - 1 = n
        BY <3>2
      <4> QED
        BY <2>4, <3>1, <3>2, <4>1 DEF last
    <3>3. CASE d # m
      <4>1. d \in 0 .. n
        BY <3>3
      <4> QED
        BY <2>2, <2>4, <2>5, <3>1, <4>1
    <3> QED
      BY <3>2, <3>3
  <2>6. m \in Nat /\ h[0] = Origin(S, s)
    BY <2>2, <2>4
  <2> HIDE DEF m
  <2>7. Balls(S, E, s, m, h)
    BY <2>4, <2>5, <2>6, BallsMade
  <2> QED
    BY <2>4, <2>6, <2>7 DEF m
<1> HIDE DEF P
<1>3. Nat \subseteq P
  BY <1>1, <1>2, NumberInduction
<1> QED
  BY <1>3 DEF P

LEMMA BallsAgree ==
    ASSUME NEW S, NEW E, NEW s, NEW c \in Nat, NEW d \in Nat,
           NEW g, Balls(S, E, s, c, g), NEW h, Balls(S, E, s, d, h)
    PROVE  \A n \in Nat : n <= c /\ n <= d => g[n] = h[n]
<1> DEFINE P == {n \in Nat : n <= c /\ n <= d => g[n] = h[n]}
<1>1. /\ g[0] = h[0]
      /\ \A n \in 0 .. c : n # 0 => g[n] = Spread(S, E, g[n - 1])
      /\ \A n \in 0 .. d : n # 0 => h[n] = Spread(S, E, h[n - 1])
  BY BallsValues
<1>2. 0 \in P
  BY <1>1
<1>3. ASSUME NEW n \in Nat, n \in P
      PROVE  n + 1 \in P
  <2> SUFFICES ASSUME n + 1 <= c, n + 1 <= d
               PROVE  g[n + 1] = h[n + 1]
    OBVIOUS
  <2>1. n + 1 \in 0 .. c /\ n + 1 \in 0 .. d /\ n + 1 # 0 /\ (n + 1) - 1 = n
    OBVIOUS
  <2>2. g[n + 1] = Spread(S, E, g[n]) /\ h[n + 1] = Spread(S, E, h[n])
    BY <1>1, <2>1
  <2>3. g[n] = h[n]
    BY <1>3
  <2> QED
    BY <2>2, <2>3
<1> HIDE DEF P
<1>4. Nat \subseteq P
  BY <1>2, <1>3, NumberInduction
<1> QED
  BY <1>4 DEF P

\* A ball, and the next larger one.
LEMMA BallSteps ==
    ASSUME NEW S, NEW E, NEW s
    PROVE  /\ Ball(S, E, s, 0) = Origin(S, s)
           /\ \A d \in Nat : Ball(S, E, s, d + 1) = Spread(S, E, Ball(S, E, s, d))
<1> DEFINE B(d) == CHOOSE g : Balls(S, E, s, d, g)
<1>1. \A d \in Nat : Ball(S, E, s, d) = B(d)[d]
  BY DEF Ball, Balls
<1>2. \A d \in Nat : Balls(S, E, s, d, B(d))
  BY BallsExist
<1> HIDE DEF B
<1>3. B(0)[0] = Origin(S, s)
  BY <1>2, BallsValues
<1>4. ASSUME NEW d \in Nat
      PROVE  B(d + 1)[d + 1] = Spread(S, E, B(d)[d])
  <2> DEFINE m == d + 1
             g == B(m)
             h == B(d)
  <2>1. m \in Nat /\ m \in 0 .. m /\ m # 0 /\ m - 1 = d /\ d <= m
    OBVIOUS
  <2> HIDE DEF m
  <2>2. Balls(S, E, s, m, g) /\ Balls(S, E, s, d, h)
    BY <1>2, <2>1
  <2> HIDE DEF g, h
  <2>3. \A n \in 0 .. m : n # 0 => g[n] = Spread(S, E, g[n - 1])
    <3>1. m \in Nat
      BY <2>1
    <3>2. Balls(S, E, s, m, g)
      BY <2>2
    <3> QED
      BY <3>1, <3>2, BallsValues
  <2>4. g[m] = Spread(S, E, g[d])
    BY <2>1, <2>3
  <2>5. g[d] = h[d]
    BY <2>1, <2>2, BallsAgree
  <2> QED
    BY <2>4, <2>5 DEF g, h, m
<1> QED
  BY <1>1, <1>3, <1>4

LEMMA BallZero ==
    ASSUME NEW S, NEW E, NEW s
    PROVE  Ball(S, E, s, 0) = {s} \cap S
<1>1. Ball(S, E, s, 0) = Origin(S, s)
  BY BallSteps
<1> QED
  BY <1>1 DEF Origin

LEMMA BallStep ==
    ASSUME NEW S, NEW E, NEW s, NEW d \in Nat
    PROVE  Ball(S, E, s, d + 1) = Spread(S, E, Ball(S, E, s, d))
BY BallSteps

LEMMA BallInside ==
    ASSUME NEW S, NEW E, NEW s
    PROVE  \A d \in Nat : Ball(S, E, s, d) \subseteq S
<1> DEFINE P == {d \in Nat : Ball(S, E, s, d) \subseteq S}
<1>1. 0 \in P
  BY BallZero
<1>2. ASSUME NEW n \in Nat, n \in P
      PROVE  n + 1 \in P
  <2>1. Ball(S, E, s, n + 1) = Spread(S, E, Ball(S, E, s, n))
    BY BallStep
  <2> QED
    BY <1>2, <2>1 DEF Spread
<1> HIDE DEF P
<1>3. Nat \subseteq P
  BY <1>1, <1>2, NumberInduction
<1> QED
  BY <1>3 DEF P

\* A larger radius.
LEMMA BallGrows ==
    ASSUME NEW S, NEW E, NEW s, NEW c \in Nat
    PROVE  \A d \in Nat : c <= d => Ball(S, E, s, c) \subseteq Ball(S, E, s, d)
<1> DEFINE P == {d \in Nat : c <= d => Ball(S, E, s, c) \subseteq Ball(S, E, s, d)}
<1>1. 0 \in P
  OBVIOUS
<1>2. ASSUME NEW n \in Nat, n \in P
      PROVE  n + 1 \in P
  <2>1. CASE c = n + 1
    BY <2>1
  <2>2. CASE c # n + 1
    <3>1. Ball(S, E, s, n) \subseteq Ball(S, E, s, n + 1)
      BY BallStep DEF Spread
    <3> QED
      BY <1>2, <2>2, <3>1
  <2> QED
    BY <2>1, <2>2
<1> HIDE DEF P
<1>3. Nat \subseteq P
  BY <1>1, <1>2, NumberInduction
<1> QED
  BY <1>3 DEF P

\* A larger graph.
LEMMA BallWider ==
    ASSUME NEW S, NEW E, NEW s, NEW T, NEW F, S \subseteq T,
           \A u, v \in S : <<u, v>> \in E => <<u, v>> \in F
    PROVE  \A d \in Nat : Ball(S, E, s, d) \subseteq Ball(T, F, s, d)
<1> DEFINE P == {d \in Nat : Ball(S, E, s, d) \subseteq Ball(T, F, s, d)}
<1>1. 0 \in P
  BY BallZero
<1>2. ASSUME NEW n \in Nat, n \in P
      PROVE  n + 1 \in P
  <2> DEFINE X == Ball(S, E, s, n)
             Y == Ball(T, F, s, n)
  <2>1. X \subseteq Y /\ X \subseteq S
    BY <1>2, BallInside
  <2>2. /\ Ball(S, E, s, n + 1) = Spread(S, E, X)
        /\ Ball(T, F, s, n + 1) = Spread(T, F, Y)
    BY BallStep
  <2> HIDE DEF X, Y
  <2>3. Spread(S, E, X) \subseteq Spread(T, F, Y)
    BY <2>1 DEF Spread
  <2> QED
    BY <2>2, <2>3
<1> HIDE DEF P
<1>3. Nat \subseteq P
  BY <1>1, <1>2, NumberInduction
<1> QED
  BY <1>3 DEF P

\* One more edge.
LEMMA BallEdge ==
    ASSUME NEW S, NEW E, NEW s, NEW d \in Nat, NEW u \in Ball(S, E, s, d),
           NEW v \in S, <<u, v>> \in E
    PROVE  v \in Ball(S, E, s, d + 1)
<1>1. Ball(S, E, s, d + 1) = Spread(S, E, Ball(S, E, s, d))
  BY BallStep
<1> QED
  BY <1>1 DEF Spread

\* No edge leads out of a closed set.
Closed(S, E, C) == \A u \in C : \A v \in S : <<u, v>> \in E => v \in C

\* A closed set with the start in it holds every ball.
LEMMA BallLeast ==
    ASSUME NEW S, NEW E, NEW s, NEW C, {s} \cap S \subseteq C, Closed(S, E, C)
    PROVE  \A d \in Nat : Ball(S, E, s, d) \subseteq C
<1> DEFINE P == {d \in Nat : Ball(S, E, s, d) \subseteq C}
<1>1. 0 \in P
  BY BallZero
<1>2. ASSUME NEW n \in Nat, n \in P
      PROVE  n + 1 \in P
  <2>1. Ball(S, E, s, n + 1) = Spread(S, E, Ball(S, E, s, n))
    BY BallStep
  <2> DEFINE X == Ball(S, E, s, n)
             Y == Ball(S, E, s, n + 1)
  <2>2. X \subseteq C
    BY <1>2
  <2>3. Y = Spread(S, E, X)
    BY <2>1
  <2> HIDE DEF X, Y
  <2>4. Y \subseteq C
    BY <2>2, <2>3 DEF Spread, Closed
  <2> QED
    BY <2>4 DEF Y
<1> HIDE DEF P
<1>3. Nat \subseteq P
  BY <1>1, <1>2, NumberInduction
<1> QED
  BY <1>3 DEF P

\* A ball has a node for each unit of its radius, or is closed.
LEMMA BallSize ==
    ASSUME NEW S, IsFiniteSet(S), NEW E, NEW s \in S
    PROVE  \A d \in Nat : \/ Cardinality(Ball(S, E, s, d)) >= d + 1
                          \/ Closed(S, E, Ball(S, E, s, d))
<1> DEFINE Big(d) == \/ Cardinality(Ball(S, E, s, d)) >= d + 1
                     \/ Closed(S, E, Ball(S, E, s, d))
           P == {d \in Nat : Big(d)}
<1>1. 0 \in P
  <2>1. Ball(S, E, s, 0) = {s}
    BY BallZero
  <2>2. Cardinality({s}) = 1
    BY FS_Singleton
  <2> QED
    BY <2>1, <2>2
<1>2. ASSUME NEW n \in Nat, n \in P
      PROVE  n + 1 \in P
  <2> DEFINE X == Ball(S, E, s, n)
             Y == Ball(S, E, s, n + 1)
  <2>1. Y = Spread(S, E, X) /\ X \subseteq S /\ Y \subseteq S
    <3>1. Y = Spread(S, E, X)
      BY BallStep
    <3>2. X \subseteq S
      BY BallInside
    <3> HIDE DEF X, Y
    <3> QED
      BY <3>1, <3>2 DEF Spread
  <2>2. Cardinality(X) >= n + 1 \/ Closed(S, E, X)
    BY <1>2
  <2> HIDE DEF X, Y
  <2>3. CASE Closed(S, E, X)
    <3>1. Y = X
      BY <2>1, <2>3 DEF Spread, Closed
    <3> QED
      BY <2>3, <3>1 DEF Y
  <2>4. CASE ~Closed(S, E, X)
    <3>1. PICK v \in S : v \notin X /\ v \in Y
      BY <2>1, <2>4 DEF Spread, Closed
    <3>2. X \subseteq Y
      BY <2>1 DEF Spread
    <3>3. IsFiniteSet(Y) /\ IsFiniteSet(X)
      BY <2>1, FS_Subset
    <3>4. Cardinality(X) \in Nat /\ Cardinality(Y) \in Nat
      BY <3>3, FS_CardinalityType
    <3>5. Cardinality(X) <= Cardinality(Y)
      BY <3>2, <3>3, FS_Subset
    <3>6. Cardinality(X) # Cardinality(Y)
      BY <3>1, <3>2, <3>3, FS_Subset
    <3>7. Cardinality(Y) >= (n + 1) + 1
      BY <2>2, <2>4, <3>4, <3>5, <3>6
    <3> QED
      BY <3>7 DEF Y
  <2> QED
    BY <2>3, <2>4
<1> HIDE DEF P
<1>3. Nat \subseteq P
  BY <1>1, <1>2, NumberInduction
<1> QED
  BY <1>3 DEF P

\* No path needs more edges than there are nodes.
LEMMA BallFills ==
    ASSUME NEW S, IsFiniteSet(S), NEW E, NEW s
    PROVE  Closed(S, E, Ball(S, E, s, Cardinality(S)))
<1> DEFINE n == Cardinality(S)
           X == Ball(S, E, s, n)
<1>1. n \in Nat
  BY FS_CardinalityType
<1>2. X \subseteq S
  BY <1>1, BallInside
<1>3. CASE s \in S
  <2>1. Cardinality(X) <= n
    BY <1>2, FS_Subset
  <2>2. IsFiniteSet(X)
    BY <1>2, FS_Subset
  <2>3. Cardinality(X) \in Nat
    BY <2>2, FS_CardinalityType
  <2>4. Cardinality(X) >= n + 1 \/ Closed(S, E, X)
    BY <1>1, <1>3, BallSize
  <2> HIDE DEF n, X
  <2>5. Closed(S, E, X)
    BY <1>1, <2>1, <2>3, <2>4
  <2> QED
    BY <2>5 DEF X, n
<1>4. CASE s \notin S
  <2>1. Closed(S, E, {}) /\ {s} \cap S \subseteq {}
    BY <1>4 DEF Closed
  <2>2. X \subseteq {}
    BY <1>1, <2>1, BallLeast
  <2> HIDE DEF X
  <2> QED
    BY <2>2 DEF Closed, X
<1> QED
  BY <1>3, <1>4

\* The largest ball.
LEMMA BallLargest ==
    ASSUME NEW S, IsFiniteSet(S), NEW E, NEW s
    PROVE  \A d \in Nat : Ball(S, E, s, d) \subseteq Ball(S, E, s, Cardinality(S))
<1> DEFINE X == Ball(S, E, s, Cardinality(S))
<1>1. Closed(S, E, X)
  BY BallFills
<1>2. Cardinality(S) \in Nat
  BY FS_CardinalityType
<1>3. {s} \cap S \subseteq X
  <2>1. Ball(S, E, s, 0) = {s} \cap S
    BY BallZero
  <2>2. Ball(S, E, s, 0) \subseteq X
    BY <1>2, BallGrows
  <2> QED
    BY <2>1, <2>2
<1> HIDE DEF X
<1> QED
  BY <1>1, <1>3, BallLeast DEF X

-----------------------------------------------------------------------------
(* What each step does to a sample.                                         *)

\* The nodes that the sample has, or has as soon as filter() returns.
Sampled == selected \cup Decided

Settled == UNCHANGED <<program, graph, start, type, dedup>>
Remembered == UNCHANGED <<vis, layer_count, node_count>>

LEMMA FilterFacts ==
    ASSUME Typed, Phases, Filters
    PROVE  /\ at = "filter" /\ method = "sample" /\ wasm
           /\ verdict = "none" /\ verdict' \in {"yes", "no"}
           /\ Settled
           /\ UNCHANGED <<method, at, wasm, cur, selected, visited, Q, distinct>>
           /\ Sampled' = IF verdict' = "yes" THEN Sampled \cup {cur} ELSE Sampled
           /\ \/ verdict' = "yes" /\ Waiting' \subseteq Waiting \cup Neighbours(cur)
              \/ UNCHANGED pending
<1>1. FilterShape
  BY FilterShapes
<1>2. Offered(graph[cur])
  BY <1>1 DEF FilterShape
<1>3. UNCHANGED <<method, at, wasm, cur, selected, visited, Q, distinct, type, dedup>>
  BY <1>2 DEF Offered, block, vars, ExtendNode, config, store, history
<1>4. verdict' = "yes" \/ UNCHANGED pending
  <2>1. Leaf("no") \/ verdict' = "yes"
    <3>1. CASE FilterLayer
      BY <3>1 DEF FilterLayer, ExtendLayer, Leaf, Extend
    <3>2. CASE FilterNode
      BY <3>2 DEF FilterNode, Leaf, Extend
    <3>3. CASE FilterSubgraph
      BY <3>3 DEF FilterSubgraph, Leaf, Extend
    <3>4. CASE FilterData
      BY <3>4 DEF FilterData, Leaf
    <3> QED
      BY <3>1, <3>2, <3>3, <3>4 DEF Filters
  <2> QED
    BY <2>1 DEF Leaf, block, vars
<1>5. Waiting' \subseteq Waiting \cup Neighbours(cur)
  BY <1>2, OfferedWaits DEF Neighbours
<1>6. at = "filter" /\ verdict = "none" /\ verdict' \in {"yes", "no"}
  BY <1>1 DEF FilterShape
<1>7. Sampled' = IF verdict' = "yes" THEN Sampled \cup {cur} ELSE Sampled
  BY <1>3, <1>6 DEF Sampled, Decided
<1>8. method = "sample" /\ wasm
  BY <1>6 DEF Phases
<1>9. Settled
  BY <1>1, <1>3 DEF Settled, FilterShape, setting
<1> QED
  BY <1>3, <1>4, <1>5, <1>6, <1>7, <1>8, <1>9

LEMMA LoadFacts ==
    ASSUME Phases, NEW ok \in BOOLEAN, Load(ok)
    PROVE  /\ method = "none" /\ method' \in {"none", "initialize"}
           /\ at' \in {"idle", "ctors"} /\ verdict = "none" /\ pending = <<>>
           /\ Settled
           /\ UNCHANGED <<verdict, Q, distinct, selected, cur, pending, visited>>
           /\ vis' = NoVisits /\ node_count' = 0
<1>1. method = "none" /\ method' \in {"none", "initialize"} /\ at' \in {"idle", "ctors"}
  BY DEF Load, Initialize, Calls
<1>2. UNCHANGED <<verdict, Q, distinct, selected, cur, pending, visited>> /\ Settled
  BY DEF Load, Initialize, setting, config, store, Settled
<1>3. verdict = "none" /\ pending = <<>>
  BY <1>1 DEF Phases
<1> QED
  BY <1>1, <1>2, <1>3 DEF Load

LEMMA SampleFacts ==
    ASSUME Typed, Phases, NEW s \in Nodes, Sample(s)
    PROVE  /\ method = "none" /\ method' = "sample" /\ at' = "poll"
           /\ verdict = "none" /\ pending = <<>>
           /\ start' = s /\ Waiting' = {s} /\ Q' = QueuePush(type, <<>>, s, 0)
           /\ selected' = {} /\ Sampled' = {} /\ visited' = <<>>
           /\ UNCHANGED <<program, graph, type, dedup, verdict, pending, wasm, cur>>
           /\ Remembered
<1>1. /\ method = "none" /\ method' = "sample" /\ at' = "poll" /\ start' = s
      /\ Q' = QueuePush(type, <<>>, s, 0) /\ selected' = {} /\ visited' = <<>>
      /\ UNCHANGED <<program, graph, type, dedup, verdict, pending, wasm, cur>>
      /\ UNCHANGED <<vis, layer_count, node_count>>
  BY DEF Sample, EnterSample, Calls, setting, memory, config
<1>2. verdict = "none" /\ pending = <<>>
  BY <1>1 DEF Phases
<1>3. Queued(Q') = {s}
  BY <1>1, SampleQueueType, PrioritiesAssumption DEF Typed, TypeOK
<1>4. Waiting' = {s}
  BY <1>1, <1>2, <1>3 DEF Waiting, Range
<1> QED
  BY <1>1, <1>2, <1>4 DEF Remembered, Sampled, Decided

LEMMA ReturnFacts ==
    ASSUME Phases, Return
    PROVE  /\ at = "filter" /\ at' \in {"poll", "finish"} /\ method = "sample" /\ wasm
           /\ verdict # "none" /\ verdict' = "none" /\ pending = <<>>
           /\ at' = "finish" => Q = <<>>
           /\ Settled /\ Remembered
           /\ UNCHANGED <<method, wasm, Q, distinct, pending, visited>>
           /\ selected' = Sampled /\ Sampled' = Sampled /\ Waiting' = Waiting
<1>1. at = "filter" /\ verdict # "none" /\ verdict' = "none" /\ pending = <<>>
  BY DEF Return, FilterReturn
<1>2. method = "sample" /\ wasm
  BY <1>1 DEF Phases
<1>3. /\ UNCHANGED method /\ at' \in {"poll", "finish"}
      /\ at' = "finish" => Q = <<>>
  BY <1>2 DEF Return, FilterReturn, PollReturns, QueueEmpty
<1>4. UNCHANGED <<wasm, Q, distinct, pending, visited>> /\ Settled /\ Remembered
  BY DEF Return, FilterReturn, setting, memory, config, store, history, Settled,
         Remembered
<1>5. selected' = Sampled
  BY DEF Return, FilterReturn, Sampled, Decided
<1>6. Sampled' = Sampled
  BY <1>1, <1>5 DEF Sampled, Decided
<1>7. Waiting' = Waiting
  BY <1>4 DEF Waiting, Queued
<1> QED
  BY <1>1, <1>2, <1>3, <1>4, <1>5, <1>6, <1>7

LEMMA PopFacts ==
    ASSUME Typed, Phases, Silent, PollPop
    PROVE  /\ at = "poll" /\ at' = "filter" /\ wasm /\ verdict = "none" /\ pending = <<>>
           /\ Settled /\ Remembered
           /\ UNCHANGED <<verdict, selected, wasm, method, pending, distinct>>
           /\ cur' \in Queued(Q) /\ cur' \in Waiting /\ Waiting' \subseteq Waiting
           /\ visited' = Append(visited, cur')
           /\ Sampled' = Sampled
<1>1. /\ at = "poll" /\ at' = "filter" /\ wasm /\ visited' = Append(visited, cur')
      /\ UNCHANGED <<selected, wasm, method, pending, distinct, type, dedup>>
  BY DEF PollPop, config
<1>2. UNCHANGED <<program, graph, start, verdict, vis, layer_count, node_count>>
  BY DEF Silent, setting, memory
<1>3. verdict = "none" /\ pending = <<>>
  BY <1>1 DEF Phases
<1>4. cur' \in Queued(Q) /\ Queued(Q') \subseteq Queued(Q)
  BY PopWaits
<1>5. cur' \in Waiting /\ Waiting' \subseteq Waiting
  BY <1>1, <1>4 DEF Waiting
<1>6. Sampled' = Sampled
  BY <1>1, <1>2, <1>3 DEF Sampled, Decided
<1> QED
  BY <1>1, <1>2, <1>3, <1>4, <1>5, <1>6 DEF Settled, Remembered

LEMMA PushFacts ==
    ASSUME Typed, Phases, Silent, ExtendStep
    PROVE  /\ at = "filter" /\ method = "sample" /\ pending # <<>>
           /\ Settled /\ Remembered
           /\ UNCHANGED <<verdict, selected, wasm, method, at, cur, visited>>
           /\ Waiting' \subseteq Waiting
           /\ Sampled' = Sampled
<1>1. pending # <<>> /\ UNCHANGED <<selected, wasm, method, at, cur, visited, type, dedup>>
  BY DEF ExtendStep, config, history
<1>2. UNCHANGED <<program, graph, start, verdict, vis, layer_count, node_count>>
  BY DEF Silent, setting, memory
<1>3. at = "filter" /\ method = "sample"
  BY <1>1 DEF Phases
<1>4. Waiting' \subseteq Waiting
  BY ExtendWaits
<1>5. Sampled' = Sampled
  BY <1>1, <1>2 DEF Sampled, Decided
<1> QED
  BY <1>1, <1>2, <1>3, <1>4, <1>5 DEF Settled, Remembered

\* The steps with nothing to do: the constructors return, poll() finds no node.
LEMMA RestFacts ==
    ASSUME Phases, Silent, Initialized \/ PollIdle
    PROVE  /\ at # "filter" /\ at' # "filter" /\ verdict = "none" /\ pending = <<>>
           /\ at' = "finish" => ~wasm \/ Q = <<>>
           /\ Settled /\ Remembered
           /\ UNCHANGED <<verdict, selected, wasm, Q, distinct, pending, cur, visited>>
           /\ method' = "sample" <=> method = "sample"
           /\ Waiting' = Waiting /\ Sampled' = Sampled
<1>1. UNCHANGED <<selected, wasm, Q, distinct, pending, cur, visited, type, dedup>>
  BY DEF Initialized, PollIdle, config, store, history
<1>2. UNCHANGED <<program, graph, start, verdict, vis, layer_count, node_count>>
  BY DEF Silent, setting, memory
<1>3. at # "filter"
  BY DEF Initialized, PollIdle
<1>4. verdict = "none" /\ pending = <<>>
  BY <1>3 DEF Phases
<1>5. /\ at' # "filter" /\ (at' = "finish" => ~wasm \/ Q = <<>>)
      /\ method' = "sample" <=> method = "sample"
  <2>1. CASE Initialized
    BY <2>1 DEF Initialized, Phases
  <2>2. CASE PollIdle
    BY <2>2 DEF PollIdle, PollReturns, QueueEmpty, Phases
  <2> QED
    BY <2>1, <2>2
<1>6. Waiting' = Waiting /\ Sampled' = Sampled
  BY <1>1, <1>2, <1>4 DEF Waiting, Sampled, Decided, Queued
<1> QED
  BY <1>1, <1>2, <1>3, <1>4, <1>5, <1>6 DEF Settled, Remembered

LEMMA EndFacts ==
    ASSUME Phases, End
    PROVE  /\ at = "finish" /\ method = "sample" /\ method' = "none" /\ at' = "idle"
           /\ verdict = "none" /\ UNCHANGED <<verdict, wasm>> /\ Settled
           /\ Q' = <<>> /\ pending' = <<>> /\ Waiting' = {}
           /\ selected' = {} /\ Sampled' = {} /\ visited' = <<>>
           /\ wasm => vis' = NoVisits /\ node_count' = 0
           /\ ~wasm => UNCHANGED <<vis, node_count>>
<1>1. at = "finish" /\ method' = "none" /\ at' = "idle" /\ pending = <<>>
  BY DEF End, Finish
<1>2. method = "sample" /\ verdict = "none"
  BY <1>1 DEF Phases
<1>3. Q' = <<>> /\ selected' = {} /\ visited' = <<>>
  BY <1>2 DEF End, Finish, ClearAll
<1>4. UNCHANGED <<verdict, wasm, pending>> /\ Settled
  BY DEF End, Finish, config, setting, Settled
<1>5. Waiting' = {}
  BY <1>1, <1>3, <1>4 DEF Waiting, Queued, Range
<1>6. Sampled' = {}
  BY <1>2, <1>3, <1>4 DEF Sampled, Decided
<1>7. /\ wasm => vis' = NoVisits /\ node_count' = 0
      /\ ~wasm => UNCHANGED <<vis, node_count>>
  BY DEF End, Reset
<1> QED
  BY <1>1, <1>2, <1>3, <1>4, <1>5, <1>6, <1>7

LEMMA GrowFacts ==
    ASSUME Typed, Grow \/ UNCHANGED samplerVars
    PROVE  /\ UNCHANGED <<program, start, verdict, method, at, wasm, cur, selected,
                          visited, Q, distinct, pending, type, dedup>>
           /\ Remembered
           /\ Waiting' = Waiting /\ Sampled' = Sampled
           /\ Edges \subseteq Edges'
<1>1. UNCHANGED <<program, start, verdict, vis, layer_count, node_count>>
  BY DEF Grow, samplerVars, memory, setting
<1>2. UNCHANGED <<method, at, wasm, cur, selected, visited, Q, distinct, pending, type,
                  dedup>>
  BY DEF Grow, samplerVars, block, vars
<1>3. Waiting' = Waiting /\ Sampled' = Sampled
  BY <1>1, <1>2 DEF Waiting, Sampled, Decided, Queued
<1>4. Edges \subseteq Edges'
  <2>1. CASE Grow
    <3>1. PICK nid \in Nodes, dst \in Nodes : graph' = EnteredBack(graph, nid, dst)
      BY <2>1 DEF Grow
    <3>2. graph' = [graph EXCEPT ![dst] = Append(graph[dst], nid)]
          /\ graph \in [Nodes -> Seq(Nodes)]
      BY <3>1 DEF EnteredBack, Typed, GuestTypeOK
    <3>3. Range(Append(graph[dst], nid)) = Range(graph[dst]) \cup {nid}
      BY <3>2, RangeOfAppend
    <3>4. \A n \in Nodes : Range(graph[n]) \subseteq Range(graph'[n])
      BY <3>2, <3>3
    <3> QED
      BY <3>4 DEF Edges, Neighbours
  <2>2. CASE UNCHANGED samplerVars
    BY <2>2 DEF samplerVars, setting, Edges, Neighbours
  <2> QED
    BY <2>1, <2>2
<1> QED
  BY <1>1, <1>2, <1>3, <1>4 DEF Remembered

\* A step that leaves the graph alone leaves its edges alone.
LEMMA SameEdges == graph' = graph => Edges' = Edges
BY DEF Edges, Neighbours

-----------------------------------------------------------------------------
(* A sample is one piece.                                                   *)

\* Between two samples nothing is left of the last one.
Between == method # "sample" => selected = {} /\ Waiting = {} /\ visited = <<>>

\* What waits is the start node or next to a sampled node.
Fetched ==
    method = "sample" =>
        /\ start \in Nodes
        /\ \A v \in Waiting : v = start \/ \E u \in Sampled : <<u, v>> \in Edges
        /\ at = "filter" => cur = start \/ \E u \in selected : <<u, cur>> \in Edges

\* No closed part of the sample with the start node in it leaves a node out.
OnePiece ==
    /\ IsFiniteSet(selected)
    /\ selected # {} => start \in selected
    /\ \A C \in SUBSET selected :
          start \in C /\ Closed(selected, Edges, C) => C = selected

Whole == Between /\ Fetched /\ OnePiece

LEMMA WholeInit == SamplerInit \/ RandomInit => Whole
<1> SUFFICES ASSUME SamplerInit \/ RandomInit
             PROVE  Whole
  OBVIOUS
<1>1. /\ method = "none" /\ at = "idle" /\ selected = {} /\ visited = <<>>
      /\ Q = <<>> /\ pending = <<>>
  BY DEF SamplerInit, RandomInit, Init
<1>2. Waiting = {}
  BY <1>1 DEF Waiting, Queued, Range
<1> QED
  BY <1>1, <1>2, FS_EmptySet DEF Whole, Between, Fetched, OnePiece

\* A sample stays in one piece as long as it stays the same.
LEMMA StillOnePiece ==
    ASSUME OnePiece, selected' = selected, start' = start, Edges \subseteq Edges'
    PROVE  OnePiece'
<1> SUFFICES ASSUME NEW C \in SUBSET selected, start \in C, Closed(selected, Edges', C)
             PROVE  C = selected
  BY DEF OnePiece
<1>1. Closed(selected, Edges, C)
  BY DEF Closed
<1> QED
  BY <1>1 DEF OnePiece

LEMMA ReturnKeepsWhole ==
    ASSUME Phases, Whole, Return
    PROVE  Whole'
<1>1. /\ at = "filter" /\ at' \in {"poll", "finish"} /\ method = "sample"
      /\ UNCHANGED <<method, start, graph>>
      /\ selected' = Sampled /\ Sampled' = Sampled /\ Waiting' = Waiting
  BY ReturnFacts DEF Settled
<1>2. Edges' = Edges
  BY <1>1, SameEdges
<1>3. Between' /\ Fetched'
  BY <1>1, <1>2 DEF Whole, Between, Fetched
<1>4. OnePiece
  BY DEF Whole
<1>5. CASE verdict = "yes"
  <2>1. selected' = selected \cup {cur}
    BY <1>1, <1>5 DEF Sampled, Decided
  <2>2. cur = start \/ \E u \in selected : <<u, cur>> \in Edges
    BY <1>1 DEF Whole, Fetched
  <2>3. IsFiniteSet(selected')
    BY <1>4, <2>1, FS_AddElement DEF OnePiece
  <2>4. start \in selected'
    BY <1>4, <2>1, <2>2 DEF OnePiece
  <2>5. ASSUME NEW C \in SUBSET selected', start \in C, Closed(selected', Edges, C)
        PROVE  C = selected'
    <3> DEFINE D == C \cap selected
    <3>1. Closed(selected, Edges, D)
      BY <2>1, <2>5 DEF Closed
    <3>2. D = selected
      <4>1. CASE selected = {}
        BY <4>1
      <4>2. CASE selected # {}
        <5>1. start \in D
          BY <1>4, <2>5, <4>2 DEF OnePiece
        <5>2. D \in SUBSET selected
          OBVIOUS
        <5> HIDE DEF D
        <5> QED
          BY <1>4, <3>1, <5>1, <5>2 DEF OnePiece
      <4> QED
        BY <4>1, <4>2
    <3>3. cur \in C
      BY <2>1, <2>2, <2>5, <3>2 DEF Closed
    <3> QED
      BY <2>1, <3>2, <3>3
  <2> QED
    BY <1>1, <1>2, <1>3, <2>3, <2>4, <2>5 DEF Whole, OnePiece
<1>6. CASE verdict # "yes"
  <2>1. selected' = selected
    BY <1>1, <1>6 DEF Sampled, Decided
  <2>2. OnePiece'
    BY <1>1, <1>2, <1>4, <2>1, StillOnePiece
  <2> QED
    BY <1>3, <2>2 DEF Whole
<1> QED
  BY <1>5, <1>6

LEMMA FilterKeepsWhole ==
    ASSUME Typed, Phases, Whole, Filters
    PROVE  Whole'
<1>1. /\ at = "filter" /\ method = "sample" /\ UNCHANGED <<graph, start>>
      /\ UNCHANGED <<method, at, cur, selected, Q>>
      /\ Sampled \subseteq Sampled' /\ (verdict' = "yes" => cur \in Sampled')
      /\ \/ verdict' = "yes" /\ Waiting' \subseteq Waiting \cup Neighbours(cur)
         \/ UNCHANGED pending
  BY FilterFacts DEF Settled
<1>2. Edges' = Edges
  BY <1>1, SameEdges
<1>3. OnePiece'
  BY <1>1, <1>2, StillOnePiece DEF Whole
<1>4. ASSUME NEW v \in Waiting'
      PROVE  v = start \/ \E u \in Sampled' : <<u, v>> \in Edges
  <2>1. CASE v \in Waiting
    BY <1>1, <2>1 DEF Whole, Fetched
  <2>2. CASE v \notin Waiting
    <3>1. verdict' = "yes" /\ v \in Neighbours(cur)
      <4>1. UNCHANGED pending => Waiting' = Waiting
        BY <1>1 DEF Waiting, Queued
      <4> QED
        BY <1>1, <1>4, <2>2, <4>1
    <3>2. <<cur, v>> \in Edges
      <4>1. cur \in Nodes /\ graph[cur] \in Seq(Nodes)
        BY <1>1, NeighboursTyped
      <4>2. v \in Nodes
        BY <3>1, <4>1, LenProperties DEF Neighbours, Range
      <4> QED
        BY <3>1, <4>1, <4>2 DEF Edges
    <3> QED
      BY <1>1, <3>1, <3>2
  <2> QED
    BY <2>1, <2>2
<1> QED
  BY <1>1, <1>2, <1>3, <1>4 DEF Whole, Between, Fetched

LEMMA WholeStep ==
    ASSUME Typed, Phases, Whole, [AnyNext]_samplerVars
    PROVE  Whole'
<1>1. CASE Filters
  BY <1>1, FilterKeepsWhole
<1>2. ASSUME NEW ok \in BOOLEAN, Load(ok)
      PROVE  Whole'
  <2>1. /\ method = "none" /\ method' # "sample"
        /\ UNCHANGED <<Q, pending, selected, visited, start, graph>>
    BY <1>2, LoadFacts DEF Settled
  <2>2. Waiting' = Waiting
    BY <2>1 DEF Waiting, Queued
  <2>3. Between' /\ Fetched'
    BY <2>1, <2>2 DEF Whole, Between, Fetched
  <2>4. selected' = {}
    BY <2>1 DEF Whole, Between
  <2>5. OnePiece'
    BY <2>4, FS_EmptySet DEF OnePiece
  <2> QED
    BY <2>3, <2>5 DEF Whole
<1>3. ASSUME NEW s \in Nodes, Sample(s)
      PROVE  Whole'
  <2>1. /\ method' = "sample" /\ at' = "poll" /\ start' = s /\ Waiting' = {s}
        /\ selected' = {}
    BY <1>3, SampleFacts
  <2>2. OnePiece'
    BY <2>1, FS_EmptySet DEF OnePiece
  <2> QED
    BY <2>1, <2>2 DEF Whole, Between, Fetched
<1>4. CASE Return
  BY <1>4, ReturnKeepsWhole
<1>5. CASE Silent
  <2>1. graph' = graph /\ start' = start
    BY <1>5 DEF Silent, setting
  <2>2. Edges' = Edges
    BY <2>1, SameEdges
  <2>3. CASE PollPop
    <3>1. /\ at = "poll" /\ verdict = "none"
          /\ UNCHANGED <<selected, method>> /\ Sampled' = Sampled
          /\ cur' \in Waiting /\ Waiting' \subseteq Waiting
      BY <1>5, <2>3, PopFacts
    <3>2. OnePiece'
      BY <2>1, <2>2, <3>1, StillOnePiece DEF Whole
    <3>3. Sampled = selected
      BY <3>1 DEF Sampled, Decided
    <3>4. method = "sample"
      BY <3>1 DEF Phases
    <3> QED
      BY <2>1, <2>2, <3>1, <3>2, <3>3, <3>4 DEF Whole, Between, Fetched
  <2>4. CASE ExtendStep
    <3>1. /\ method = "sample" /\ UNCHANGED <<selected, method, at, cur>>
          /\ Sampled' = Sampled /\ Waiting' \subseteq Waiting
      BY <1>5, <2>4, PushFacts
    <3>2. OnePiece'
      BY <2>1, <2>2, <3>1, StillOnePiece DEF Whole
    <3> QED
      BY <2>1, <2>2, <3>1, <3>2 DEF Whole, Between, Fetched
  <2>5. CASE Initialized \/ PollIdle
    <3>1. /\ at' # "filter" /\ UNCHANGED <<selected, visited>>
          /\ method' = "sample" <=> method = "sample"
          /\ Sampled' = Sampled /\ Waiting' = Waiting
      BY <1>5, <2>5, RestFacts
    <3>2. OnePiece'
      BY <2>1, <2>2, <3>1, StillOnePiece DEF Whole
    <3> QED
      BY <2>1, <2>2, <3>1, <3>2 DEF Whole, Between, Fetched
  <2> QED
    BY <1>5, <2>3, <2>4, <2>5 DEF Silent
<1>6. CASE End
  <2>1. method' = "none" /\ selected' = {} /\ visited' = <<>> /\ Waiting' = {}
    BY <1>6, EndFacts
  <2>2. OnePiece'
    BY <2>1, FS_EmptySet DEF OnePiece
  <2> QED
    BY <2>1, <2>2 DEF Whole, Between, Fetched
<1>7. CASE Grow \/ UNCHANGED samplerVars
  <2>1. /\ UNCHANGED <<method, at, cur, selected, visited, start>>
        /\ Waiting' = Waiting /\ Sampled' = Sampled /\ Edges \subseteq Edges'
    BY <1>7, GrowFacts
  <2>2. OnePiece'
    BY <2>1, StillOnePiece DEF Whole
  <2>3. Fetched'
    BY <2>1 DEF Whole, Fetched
  <2>4. Between'
    BY <2>1 DEF Whole, Between
  <2> QED
    BY <2>2, <2>3, <2>4 DEF Whole
<1> QED
  BY <1>1, <1>2, <1>3, <1>4, <1>5, <1>6, <1>7
     DEF AnyNext, SamplerNext, Run, Filters

LEMMA ProgramWhole == ProgramSpec => []Whole
<1>1. SamplerInit \/ RandomInit => Whole
  BY WholeInit
<1>2. Layered => Phases
  BY DEF Layered
<1>3. Typed /\ Phases /\ Whole /\ [AnyNext]_samplerVars => Whole'
  BY WholeStep
<1> QED
  BY <1>1, <1>2, <1>3, ProgramTyped, ProgramLayered, PTL DEF ProgramSpec

LEMMA WholeIsConnected == Whole => SampleIsConnected
<1> SUFFICES ASSUME Whole
             PROVE  selected = Ball(selected, Edges, start, Cardinality(selected))
  BY DEF SampleIsConnected
<1> DEFINE X == Ball(selected, Edges, start, Cardinality(selected))
<1>1. OnePiece
  BY DEF Whole
<1>2. Cardinality(selected) \in Nat
  BY <1>1, FS_CardinalityType DEF OnePiece
<1>3. X \subseteq selected
  BY <1>2, BallInside
<1>4. Closed(selected, Edges, X)
  BY <1>1, BallFills DEF OnePiece
<1>5. selected # {} => start \in X
  <2>1. Ball(selected, Edges, start, 0) = {start} \cap selected
    BY BallZero
  <2>2. Ball(selected, Edges, start, 0) \subseteq X
    BY <1>2, BallGrows
  <2> QED
    BY <1>1, <2>1, <2>2 DEF OnePiece
<1> HIDE DEF X
<1>6. X = selected
  BY <1>1, <1>3, <1>4, <1>5 DEF OnePiece
<1> QED
  BY <1>6 DEF X

\* Whatever a program drops, in whatever order the queue delivers and on every
\* graph, a path inside the sample leads from the start node to each of its nodes.
THEOREM SamplesAreConnected == SamplerSpec \/ RandomSpec => []SampleIsConnected
BY ProgramsRun, ProgramWhole, WholeIsConnected, PTL

-----------------------------------------------------------------------------
(* The way back along odata.                                                *)

\* An edge of idata is an edge of odata, the other way round.
LEMMA EdgesReturn ==
    ASSUME Typed, RandomTyped, EdgesMirrored, NEW u \in Nodes, NEW v \in Nodes,
           <<u, v>> \in Edges
    PROVE  u \in Range(odatas[v])
<1> DEFINE here == {i \in DOMAIN graph[u] : graph[u][i] = v}
           there == {i \in DOMAIN odatas[v] : odatas[v][i] = u}
<1>1. here # {}
  <2>1. v \in Range(graph[u])
    BY DEF Edges, Neighbours
  <2> QED
    BY <2>1 DEF Range
<1>2. IsFiniteSet(here)
  <2>1. graph[u] \in Seq(Nodes)
    BY DEF Typed, GuestTypeOK
  <2>2. Len(graph[u]) \in Nat /\ DOMAIN graph[u] = 1 .. Len(graph[u])
    BY <2>1, LenProperties
  <2>3. IsFiniteSet(DOMAIN graph[u])
    BY <2>2, FS_Interval
  <2>4. here \in SUBSET (DOMAIN graph[u])
    OBVIOUS
  <2> HIDE DEF here
  <2> QED
    BY <2>3, <2>4, FS_Subset
<1>3. Cardinality(here) # 0
  BY <1>1, <1>2, FS_EmptySet
<1>4. Cardinality(there) = Cardinality(here)
  BY DEF EdgesMirrored, Times
<1>5. there # {}
  BY <1>3, <1>4, FS_EmptySet
<1> QED
  BY <1>5 DEF Range

LEMMA WholeReturns ==
    ASSUME Typed, RandomTyped, EdgesMirrored, Whole
    PROVE  SampledReachStart
<1> SUFFICES ASSUME at = "finish"
             PROVE  selected \subseteq
                       Ball(Nodes, {e \in Nodes \X Nodes : e[1] \in Range(odatas[e[2]])},
                            start, Cardinality(Nodes))
  BY DEF SampledReachStart
<1> DEFINE back == {e \in Nodes \X Nodes : e[1] \in Range(odatas[e[2]])}
           n == Cardinality(selected)
<1>1. selected \subseteq Nodes
  BY DEF Typed, TypeOK
<1>2. n \in Nat
  BY FS_CardinalityType DEF Whole, OnePiece
<1>3. \A u, v \in selected : <<u, v>> \in Edges => <<u, v>> \in back
  BY <1>1, EdgesReturn
<1>4. selected = Ball(selected, Edges, start, n)
  BY WholeIsConnected DEF SampleIsConnected
<1> HIDE DEF back, n
<1>5. Ball(selected, Edges, start, n) \subseteq Ball(Nodes, back, start, n)
  BY <1>1, <1>2, <1>3, BallWider
<1>6. Ball(Nodes, back, start, n) \subseteq Ball(Nodes, back, start, Cardinality(Nodes))
  BY <1>2, FiniteAssumption, BallLargest
<1> QED
  BY <1>4, <1>5, <1>6 DEF back

LEMMA RandomTypes == RandomSpec => []RandomTyped
<1>1. RandomInit => RandomTyped
  BY RandomTypeInit
<1>2. RandomTyped /\ [RandomNext]_generatedVars => RandomTyped'
  BY RandomSteps
<1> QED
  BY <1>1, <1>2, PTL DEF RandomSpec

\* On the graphs that gen_random_graph makes, each sampled node reaches the start
\* node along odata, although the programs only follow idata.
THEOREM SamplesReachStart == RandomSpec => []SampledReachStart
BY RandomTypes, ProgramsRun, ProgramTyped, ProgramWhole, GraphsAreMirrored,
   WholeReturns, PTL

-----------------------------------------------------------------------------
(* A sample stays close to its start.                                       *)

\* Every node in vis is as near to the start as its entry says.
Measured ==
    program \in {Layer, Node} =>
        /\ method # "sample" \/ ~wasm => vis = NoVisits
        /\ selected \subseteq DOMAIN vis
        /\ method = "sample" => Waiting \subseteq DOMAIN vis \cup {start}
        /\ at = "filter" => cur \in DOMAIN vis \cup {start}
        /\ at = "filter" /\ verdict # "none" => cur \in DOMAIN vis
        /\ \A v \in DOMAIN vis : v \in Near(vis[v])
        /\ program = Node => \A v \in DOMAIN vis : vis[v] <= MaxDepth - 1

\* wapp never gets beyond the start node.
AtStart ==
    program = Data /\ method = "sample" =>
        /\ Waiting \subseteq {start}
        /\ at = "filter" => cur = start
        /\ selected \subseteq {start}

Placed == Measured /\ AtStart

LEMMA PlacedInit == SamplerInit \/ RandomInit => Placed
<1> SUFFICES ASSUME SamplerInit \/ RandomInit
             PROVE  Placed
  OBVIOUS
<1>1. vis = NoVisits /\ DOMAIN vis = {}
  BY DEF SamplerInit, RandomInit, NoVisits
<1>2. method = "none" /\ at = "idle" /\ selected = {}
  BY DEF SamplerInit, RandomInit, Init
<1> QED
  BY <1>1, <1>2 DEF Placed, Measured, AtStart

\* What a filter() of node_wise makes of vis.
LEMMA NodeSteps ==
    ASSUME Typed, Filters, program = Node
    PROVE  \E nids : LayerStep(nids) /\ (Range(nids) # {} => Known[cur] + 1 <= MaxDepth - 1)
<1>1. FilterNode /\ at = "filter"
  BY DEF Filters, FilterLayer, FilterNode, FilterSubgraph, FilterData, Filtering, Node,
         Layer, Subgraph, Data
<1>2. verdict' = "yes"
  BY <1>1 DEF FilterNode, Leaf, Extend
<1>3. CASE vis' = Known /\ UNCHANGED <<block, taken>>
  <2> DEFINE none == <<>>
  <2>1. Range(none) = {}
    BY DEF Range
  <2>2. Offered(none)
    BY <1>3 DEF Offered
  <2> HIDE DEF none
  <2>3. LayerStep(none)
    BY <1>2, <1>3, <2>1, <2>2 DEF LayerStep
  <2> QED
    BY <2>1, <2>3
<1>4. ASSUME ~Exhausted(cnt[cur] + 1, Known[cur]), NEW sampled \in Shuffled(graph[cur]),
             vis' = KnownWith(sampled), Extend(DefaultEntries(sampled), "yes")
      PROVE  LayerStep(sampled) /\ Known[cur] + 1 <= MaxDepth - 1
  <2>1. /\ Node \in Programs /\ cur \in Nodes /\ graph[cur] \in Seq(Nodes)
        /\ cnt \in [Nodes -> Nat]
    BY <1>1, NeighboursTyped DEF Typed, GuestTypeOK
  <2>2. sampled \in Seq(Nodes) /\ Range(sampled) \subseteq Range(graph[cur])
    BY <2>1, ShuffledFrom
  <2>3. \A v \in Range(sampled) : v \in Nodes
    BY <2>2, LenProperties DEF Range
  <2>4. Offered(sampled)
    BY <1>4, <2>2, DefaultsFrom, ExtendOffers
  <2>5. Known[cur] \in Nat /\ cnt[cur] \in Nat /\ MaxDepth \in Nat
    BY <1>1, <2>1, KnownType, LimitsAssumption
  <2>6. Known[cur] + 1 <= MaxDepth - 1
    BY <1>4, <2>5 DEF Exhausted
  <2>7. \A v \in Range(sampled) : Depth(v) <= MaxDepth
    <3>1. \A v \in DOMAIN Known : Known[v] <= MaxDepth
      BY <1>1, KnownType, LimitsAssumption
    <3> QED
      BY <2>5, <2>6, <3>1 DEF Depth
  <2>8. /\ DOMAIN vis' = DOMAIN Known \cup Range(sampled)
        /\ \A v \in DOMAIN vis' : vis'[v] = Depth(v)
    BY <1>1, <1>4, <2>3, <2>7, KnownWithType
  <2> QED
    BY <1>2, <1>4, <2>2, <2>6, <2>8, <2>4 DEF LayerStep, Depth, Neighbours
<1> QED
  BY <1>1, <1>3, <1>4 DEF FilterNode, Leaf

\* Near as a set of nodes that grows with the radius and with the graph.
LEMMA NearFacts ==
    ASSUME NEW d \in Nat
    PROVE  /\ Near(0) = {start} \cap Nodes
           /\ Near(d) \subseteq Nodes
           /\ \A u \in Near(d) : \A v \in Nodes : <<u, v>> \in Edges => v \in Near(d + 1)
<1>1. Near(0) = {start} \cap Nodes
  BY BallZero DEF Near
<1>2. Near(d) \subseteq Nodes
  BY BallInside DEF Near
<1>3. ASSUME NEW u \in Near(d), NEW v \in Nodes, <<u, v>> \in Edges
      PROVE  v \in Near(d + 1)
  BY <1>3, BallEdge DEF Near
<1> QED
  BY <1>1, <1>2, <1>3

LEMMA NearWider ==
    ASSUME start' = start, Edges \subseteq Edges', NEW d \in Nat
    PROVE  Near(d) \subseteq Near(d)'
<1>1. Ball(Nodes, Edges, start, d) \subseteq Ball(Nodes, Edges', start, d)
  <2>1. \A u, v \in Nodes : <<u, v>> \in Edges => <<u, v>> \in Edges'
    OBVIOUS
  <2> QED
    BY <2>1, BallWider
<1> QED
  BY <1>1 DEF Near

LEMMA FilterMeasured ==
    ASSUME Typed, Phases, Whole, Measured, Filters
    PROVE  Measured'
<1> SUFFICES ASSUME program' \in {Layer, Node}
             PROVE  Measured'
  BY DEF Measured
<1>1. /\ at = "filter" /\ method = "sample" /\ wasm
      /\ UNCHANGED <<program, graph, start, method, at, wasm, cur, selected>>
  BY FilterFacts DEF Settled
<1>2. PICK nids : /\ LayerStep(nids)
                  /\ program = Node /\ Range(nids) # {} => Known[cur] + 1 <= MaxDepth - 1
  BY <1>1, LayerSteps, NodeSteps
<1>3. /\ selected \subseteq DOMAIN vis
      /\ Waiting \subseteq DOMAIN vis \cup {start}
      /\ cur \in DOMAIN vis \cup {start}
      /\ \A v \in DOMAIN vis : v \in Near(vis[v])
      /\ program = Node => \A v \in DOMAIN vis : vis[v] <= MaxDepth - 1
  BY <1>1 DEF Measured
<1>4. /\ DOMAIN Known = DOMAIN vis \cup {cur}
      /\ \A n \in DOMAIN Known : Known[n] \in Nat
      /\ \A n \in DOMAIN vis : Known[n] = vis[n]
      /\ cur \notin DOMAIN vis => Known[cur] = 0
      /\ MaxDepth \in Nat \ {0}
  BY <1>1, KnownType, LimitsAssumption
<1>5. cur \in Nodes /\ start \in Nodes /\ graph[cur] \in Seq(Nodes)
  BY <1>1, NeighboursTyped DEF Whole, Fetched
<1>6. \A v \in DOMAIN Known : v \in Near(Known[v])
  <2>1. start \in Near(0)
    BY <1>5, BallZero DEF Near
  <2> QED
    BY <1>3, <1>4, <2>1
<1>7. UNCHANGED Edges
  BY <1>1, SameEdges
<1>8. ASSUME NEW v \in DOMAIN vis'
      PROVE  /\ v \in Near(vis'[v])
             /\ program = Node => vis'[v] <= MaxDepth - 1
  <2>1. CASE v \in DOMAIN Known
    <3>1. vis'[v] = Known[v]
      BY <1>2, <2>1 DEF LayerStep
    <3>2. program = Node => Known[v] <= MaxDepth - 1
      BY <1>3, <1>4, <2>1
    <3> QED
      BY <1>6, <2>1, <3>1, <3>2
  <2>2. CASE v \notin DOMAIN Known
    <3>1. v \in Range(nids) /\ v \in Neighbours(cur) /\ vis'[v] = Known[cur] + 1
      BY <1>2, <2>2 DEF LayerStep
    <3>2. v \in Nodes
      BY <1>5, <3>1, LenProperties DEF Neighbours, Range
    <3>3. <<cur, v>> \in Edges
      BY <1>5, <3>1, <3>2 DEF Edges
    <3>4. cur \in Near(Known[cur]) /\ Known[cur] \in Nat
      BY <1>4, <1>6
    <3> DEFINE m == Known[cur]
    <3> HIDE DEF m
    <3>5. v \in Near(m + 1)
      BY <3>2, <3>3, <3>4, NearFacts DEF m
    <3> QED
      BY <1>2, <3>1, <3>5 DEF m
  <2> QED
    BY <2>1, <2>2
<1>9. DOMAIN Known \subseteq DOMAIN vis' /\ Range(nids) \subseteq DOMAIN vis'
  BY <1>2 DEF LayerStep
<1>10. Waiting' \subseteq Waiting \cup Range(nids)
  BY <1>2, OfferedWaits DEF LayerStep
<1>11. Waiting' \subseteq DOMAIN vis' \cup {start}
  BY <1>3, <1>4, <1>9, <1>10
<1>12. \A v \in DOMAIN vis' : (v \in Near(vis[v]))'
  BY <1>1, <1>7, <1>8 DEF Near
<1> QED
  BY <1>1, <1>3, <1>4, <1>8, <1>9, <1>11, <1>12 DEF Measured

\* A step that forgets no entry, loses no edge and lets nothing new in.
LEMMA StillMeasured ==
    ASSUME Measured, Typed, program' = program, start' = start, vis' = vis, wasm' = wasm,
           method' = "sample" <=> method = "sample",
           Edges \subseteq Edges',
           program \in {Layer, Node} => selected' \subseteq DOMAIN vis,
           Waiting' \subseteq Waiting,
           program \in {Layer, Node} /\ at' = "filter" =>
              /\ cur' \in DOMAIN vis \cup {start}
              /\ verdict' # "none" => cur' \in DOMAIN vis
    PROVE  Measured'
<1> SUFFICES ASSUME program' \in {Layer, Node}
             PROVE  Measured'
  BY DEF Measured
<1>1. \A v \in DOMAIN vis : vis[v] \in Nat
  BY LimitsAssumption DEF Typed, GuestTypeOK
<1>2. ASSUME NEW v \in DOMAIN vis
      PROVE  (v \in Near(vis[v]))'
  <2> DEFINE m == vis[v]
  <2>1. m \in Nat /\ v \in Near(m)
    BY <1>1 DEF Measured
  <2> HIDE DEF m
  <2>2. Near(m) \subseteq Ball(Nodes, Edges', start', m)
    <3>1. \A x, y \in Nodes : <<x, y>> \in Edges => <<x, y>> \in Edges'
      OBVIOUS
    <3> QED
      BY <2>1, <3>1, BallWider DEF Near
  <2> QED
    BY <2>1, <2>2 DEF m, Near
<1> QED
  BY <1>2 DEF Measured

LEMMA MeasuredStep ==
    ASSUME Typed, Phases, Whole, Measured, [AnyNext]_samplerVars
    PROVE  Measured'
<1>1. CASE Filters
  BY <1>1, FilterMeasured
<1>2. CASE vis' = NoVisits /\ method' # "sample" /\ selected' = {} /\ at' # "filter"
  <2>1. DOMAIN vis' = {}
    BY <1>2 DEF NoVisits
  <2> QED
    BY <1>2, <2>1 DEF Measured
<1>3. ASSUME NEW ok \in BOOLEAN, Load(ok)
      PROVE  Measured'
  <2>1. /\ method = "none" /\ method' # "sample" /\ at' # "filter" /\ vis' = NoVisits
        /\ selected' = selected
    BY <1>3, LoadFacts
  <2> QED
    BY <1>2, <2>1 DEF Whole, Between
<1>4. ASSUME NEW s \in Nodes, Sample(s)
      PROVE  Measured'
  <2>1. /\ method = "none" /\ at' = "poll" /\ start' = s /\ Waiting' = {s}
        /\ selected' = {} /\ UNCHANGED <<program, vis>>
    BY <1>4, SampleFacts DEF Remembered
  <2>2. program \in {Layer, Node} => vis' = NoVisits /\ DOMAIN vis' = {}
    BY <2>1 DEF Measured, NoVisits
  <2> QED
    BY <2>1, <2>2 DEF Measured
<1>5. CASE Return
  <2>1. /\ at = "filter" /\ at' # "filter" /\ verdict # "none"
        /\ UNCHANGED <<program, graph, start, vis, wasm, method>>
        /\ selected' = Sampled /\ Waiting' = Waiting
    BY <1>5, ReturnFacts DEF Settled, Remembered
  <2>2. program \in {Layer, Node} => selected' \subseteq DOMAIN vis
    BY <2>1 DEF Measured, Sampled, Decided
  <2> QED
    BY <2>1, <2>2, SameEdges, StillMeasured
<1>6. CASE Silent
  <2>1. UNCHANGED <<program, graph, start, vis>>
    BY <1>6 DEF Silent, setting, memory
  <2>2. program \in {Layer, Node} => selected \subseteq DOMAIN vis
    BY DEF Measured
  <2>3. CASE PollPop
    <3>1. /\ at = "poll" /\ verdict' = "none" /\ UNCHANGED <<selected, wasm, method>>
          /\ cur' \in Waiting /\ Waiting' \subseteq Waiting
      BY <1>6, <2>3, PopFacts
    <3>2. method = "sample"
      BY <3>1 DEF Phases
    <3>3. program \in {Layer, Node} => cur' \in DOMAIN vis \cup {start}
      BY <3>1, <3>2 DEF Measured
    <3> QED
      BY <2>1, <2>2, <3>1, <3>3, SameEdges, StillMeasured
  <2>4. CASE ExtendStep
    <3>1. /\ at = "filter" /\ UNCHANGED <<verdict, selected, wasm, method, cur>>
          /\ Waiting' \subseteq Waiting
      BY <1>6, <2>4, PushFacts
    <3>2. program \in {Layer, Node} =>
             /\ cur \in DOMAIN vis \cup {start}
             /\ verdict # "none" => cur \in DOMAIN vis
      BY <3>1 DEF Measured
    <3> QED
      BY <2>1, <2>2, <3>1, <3>2, SameEdges, StillMeasured
  <2>5. CASE Initialized \/ PollIdle
    <3>1. /\ at' # "filter" /\ UNCHANGED <<selected, wasm>>
          /\ method' = "sample" <=> method = "sample"
          /\ Waiting' = Waiting
      BY <1>6, <2>5, RestFacts
    <3> QED
      BY <2>1, <2>2, <3>1, SameEdges, StillMeasured
  <2> QED
    BY <1>6, <2>3, <2>4, <2>5 DEF Silent
<1>7. CASE End
  <2>1. /\ method' # "sample" /\ at' # "filter" /\ selected' = {}
        /\ UNCHANGED <<program, wasm>>
        /\ wasm => vis' = NoVisits
        /\ ~wasm => vis' = vis
    BY <1>7, EndFacts DEF Settled
  <2>2. program \in {Layer, Node} => vis' = NoVisits
    BY <2>1 DEF Measured
  <2> QED
    BY <1>2, <2>1, <2>2 DEF Measured
<1>8. CASE Grow \/ UNCHANGED samplerVars
  <2>1. /\ UNCHANGED <<program, start, vis, verdict, method, at, wasm, cur, selected>>
        /\ Waiting' = Waiting /\ Edges \subseteq Edges'
    BY <1>8, GrowFacts DEF Remembered
  <2>2. program \in {Layer, Node} => selected \subseteq DOMAIN vis
    BY DEF Measured
  <2>3. program \in {Layer, Node} /\ at = "filter" =>
           /\ cur \in DOMAIN vis \cup {start}
           /\ verdict # "none" => cur \in DOMAIN vis
    BY DEF Measured
  <2> QED
    BY <2>1, <2>2, <2>3, StillMeasured
<1> QED
  BY <1>1, <1>3, <1>4, <1>5, <1>6, <1>7, <1>8
     DEF AnyNext, SamplerNext, Run, Filters

LEMMA AtStartStep ==
    ASSUME Typed, Phases, Whole, AtStart, [AnyNext]_samplerVars
    PROVE  AtStart'
<1> SUFFICES ASSUME program' = Data, method' = "sample"
             PROVE  AtStart'
  BY DEF AtStart
<1>1. CASE Filters
  <2>1. /\ at = "filter" /\ method = "sample"
        /\ UNCHANGED <<program, start, at, cur, selected, Q>>
    BY <1>1, FilterFacts DEF Settled
  <2>2. FilterData
    BY <1>1, <2>1 DEF Filters, FilterLayer, FilterNode, FilterSubgraph, Filtering, Node,
       Layer, Subgraph, Data
  <2>3. pending' = pending
    BY <2>2 DEF FilterData, Leaf, block, vars
  <2>4. Waiting' = Waiting
    BY <2>1, <2>3 DEF Waiting, Queued
  <2> QED
    BY <2>1, <2>4 DEF AtStart
<1>2. ASSUME NEW ok \in BOOLEAN, Load(ok)
      PROVE  FALSE
  BY <1>2, LoadFacts
<1>3. ASSUME NEW s \in Nodes, Sample(s)
      PROVE  AtStart'
  BY <1>3, SampleFacts DEF AtStart
<1>4. CASE Return
  <2>1. /\ at = "filter" /\ at' # "filter" /\ UNCHANGED <<program, start, method>>
        /\ selected' = Sampled /\ Waiting' = Waiting
    BY <1>4, ReturnFacts DEF Settled
  <2> QED
    BY <2>1 DEF AtStart, Sampled, Decided
<1>5. CASE Silent
  <2>1. CASE PollPop
    <3>1. /\ UNCHANGED <<program, start, selected, method>>
          /\ cur' \in Waiting /\ Waiting' \subseteq Waiting
      BY <1>5, <2>1, PopFacts DEF Settled
    <3> QED
      BY <3>1 DEF AtStart
  <2>2. CASE ExtendStep
    <3>1. /\ UNCHANGED <<program, start, selected, method, at, cur>>
          /\ Waiting' \subseteq Waiting
      BY <1>5, <2>2, PushFacts DEF Settled
    <3> QED
      BY <3>1 DEF AtStart
  <2>3. CASE Initialized \/ PollIdle
    <3>1. /\ UNCHANGED <<program, start, selected>> /\ at' # "filter"
          /\ method' = "sample" <=> method = "sample"
          /\ Waiting' = Waiting
      BY <1>5, <2>3, RestFacts DEF Settled
    <3> QED
      BY <3>1 DEF AtStart
  <2> QED
    BY <1>5, <2>1, <2>2, <2>3 DEF Silent
<1>6. CASE End
  BY <1>6, EndFacts
<1>7. CASE Grow \/ UNCHANGED samplerVars
  BY <1>7, GrowFacts DEF AtStart
<1> QED
  BY <1>1, <1>2, <1>3, <1>4, <1>5, <1>6, <1>7
     DEF AnyNext, SamplerNext, Run, Filters

LEMMA PlacedRadius ==
    ASSUME Typed, Phases, Whole, Placed
    PROVE  WithinRadius
<1> SUFFICES ASSUME program # Subgraph, NEW v \in selected
             PROVE  v \in Near(Radius)
  BY DEF WithinRadius
<1>1. /\ program \in {Layer, Node, Data} /\ MaxDepth \in Nat \ {0}
      /\ \A u \in DOMAIN vis : vis[u] \in 0 .. MaxDepth
      /\ DOMAIN vis \subseteq Nodes
  BY ProgramsAssumption, LimitsAssumption DEF Typed, GuestTypeOK
<1>2. CASE program \in {Layer, Node}
  <2>1. v \in DOMAIN vis /\ v \in Near(vis[v])
    BY <1>2 DEF Placed, Measured
  <2>2. vis[v] \in Nat /\ Radius \in Nat /\ vis[v] <= Radius
    BY <1>1, <1>2, <2>1 DEF Radius, Placed, Measured, Layer, Node, Data
  <2>3. Near(vis[v]) \subseteq Near(Radius)
    BY <2>2, BallGrows DEF Near
  <2> QED
    BY <2>1, <2>3
<1>3. CASE program = Data
  <2>1. method = "sample"
    BY DEF Whole, Between
  <2>2. v = start /\ start \in Nodes
    BY <1>3, <2>1 DEF Placed, AtStart, Whole, Fetched
  <2>3. Radius = 0
    BY <1>3 DEF Radius, Node, Data
  <2> QED
    BY <2>2, <2>3, BallZero DEF Near
<1> QED
  BY <1>1, <1>2, <1>3

\* Whatever the order of the visits, and for node_wise also with repeated visits, a
\* sample stays within the radius of its program.
THEOREM SamplesStayClose == SamplerSpec \/ RandomSpec => []WithinRadius
<1>1. SamplerInit \/ RandomInit => Placed
  BY PlacedInit
<1>2. Layered => Phases
  BY DEF Layered
<1>3. Typed /\ Phases /\ Whole /\ Placed /\ [AnyNext]_samplerVars => Placed'
  BY MeasuredStep, AtStartStep DEF Placed
<1>4. Typed /\ Phases /\ Whole /\ Placed => WithinRadius
  BY PlacedRadius
<1> QED
  BY <1>1, <1>2, <1>3, <1>4, ProgramsRun, ProgramTyped, ProgramLayered, ProgramWhole, PTL
     DEF ProgramSpec

-----------------------------------------------------------------------------
(* The visits of a sample.                                                  *)

\* What the sample has come across: visited, queued or about to be pushed.
Met == Range(visited) \cup Waiting

\* How many visits are decided: all but the one whose filter() still runs.
Ran == Len(visited) - (IF at = "filter" /\ verdict = "none" THEN 1 ELSE 0)

Visits ==
    /\ dedup = (program # Node)
    /\ at = "filter" => visited # <<>> /\ visited[Len(visited)] = cur
    /\ ~wasm => visited = <<>>
    /\ at = "finish" /\ wasm => Q = <<>>
    /\ method = "sample" => start \in Range(visited) \cup Queued(Q)

\* What a filter() offers is met from then on.
LEMMA OfferedMeets ==
    ASSUME NEW nids, Offered(nids)
    PROVE  Met \subseteq Met'
<1>1. CASE UNCHANGED <<block, taken>>
  BY <1>1 DEF block, vars, Met, Waiting, Queued
<1>2. ASSUME NEW entries, ExtendNode(entries)
      PROVE  Met \subseteq Met'
  <2>1. UNCHANGED <<Q, visited>> /\ pending = <<>>
    BY <1>2 DEF ExtendNode, HostCall, store, history
  <2>2. Waiting = Queued(Q)
    BY <2>1 DEF Waiting, Range
  <2>3. Queued(Q) \subseteq Waiting'
    BY <2>1 DEF Waiting, Queued
  <2> QED
    BY <2>1, <2>2, <2>3 DEF Met
<1> QED
  BY <1>1, <1>2 DEF Offered

\* A pop moves a node from the queue to the visits.
LEMMA PopMeets ==
    ASSUME Typed, Phases, Silent, PollPop
    PROVE  /\ Met' = Met
           /\ Range(visited') \cup Queued(Q') = Range(visited) \cup Queued(Q)
           /\ Len(visited') = Len(visited) + 1 /\ visited' # <<>>
           /\ visited'[Len(visited')] = cur'
           /\ \A i \in 1 .. Len(visited) : visited'[i] = visited[i]
<1>1. /\ Q \in Seq(Entry) /\ Q # <<>> /\ Q' = Tail(Q) /\ cur' = Head(Q).nid
      /\ visited' = Append(visited, cur') /\ visited \in Seq(Nodes) /\ pending' = pending
  BY DEF PollPop, QueueTop, QueuePop, QueueEmpty, Typed, TypeOK
<1>2. Queued(Q) = {cur'} \cup Queued(Q')
  BY <1>1, TailOfQueue
<1>3. cur' \in Nodes
  <2>1. Head(Q) \in Entry
    BY <1>1, HeadTailProperties
  <2> QED
    BY <1>1, <2>1 DEF Entry
<1>4. Range(visited') = Range(visited) \cup {cur'}
  BY <1>1, <1>3, RangeOfAppend
<1>5. Range(visited') \cup Queued(Q') = Range(visited) \cup Queued(Q)
  BY <1>2, <1>4
<1>6. Met' = Met
  BY <1>1, <1>2, <1>4 DEF Met, Waiting
<1>7. /\ visited' \in Seq(Nodes) /\ Len(visited') = Len(visited) + 1 /\ Len(visited) \in Nat
      /\ visited'[Len(visited) + 1] = cur'
      /\ \A i \in 1 .. Len(visited) : visited'[i] = visited[i]
  BY <1>1, <1>3, AppendProperties, LenProperties
<1>8. visited' # <<>>
  BY <1>1, <1>3, AppendProperties
<1> QED
  BY <1>5, <1>6, <1>7, <1>8

\* A node that push() refuses is met already.
LEMMA PushMeets ==
    ASSUME Typed, Accounted, ExtendStep
    PROVE  /\ Met \subseteq Met'
           /\ Queued(Q) \subseteq Queued(Q') /\ visited' = visited
           /\ \A e \in Range(pending) : \/ e \in Range(pending')
                                        \/ e.nid \in Range(visited') \cup Queued(Q')
           /\ Range(pending') \subseteq Range(pending)
<1>1. /\ pending \in Seq(Entry) /\ pending # <<>>
      /\ Q \in Seq(Entry) /\ type \in QueueTypes
      /\ PushNode(Head(pending).nid, Head(pending).p) /\ pending' = Tail(pending)
      /\ visited' = visited
  BY DEF ExtendStep, Typed, TypeOK, history
<1> DEFINE first == Head(pending)
<1>2. /\ first \in Entry /\ first = pending[1]
      /\ \A i \in DOMAIN pending : i = 1 \/ pending[i] \in Range(pending')
  <2>1. /\ Len(pending) \in Nat /\ DOMAIN pending = 1 .. Len(pending)
        /\ pending' \in Seq(Entry) /\ Len(pending') = Len(pending) - 1
        /\ first \in Entry /\ first = pending[1]
        /\ \A i \in 1 .. Len(pending') : pending'[i] = pending[i + 1]
    BY <1>1, HeadTailProperties, LenProperties
  <2>2. ASSUME NEW i \in DOMAIN pending, i # 1
        PROVE  pending[i] \in Range(pending')
    <3>1. i - 1 \in 1 .. Len(pending') /\ (i - 1) + 1 = i
      BY <2>1, <2>2
    <3>2. i - 1 \in DOMAIN pending' /\ pending'[i - 1] = pending[i]
      BY <2>1, <3>1, LenProperties
    <3> QED
      BY <3>2 DEF Range
  <2> QED
    BY <2>1, <2>2
<1> HIDE DEF first
<1>3. first.nid \in Nodes /\ first.p \in Priorities
  BY <1>2 DEF Entry
<1>4. Queued(QueuePush(type, Q, first.nid, first.p)) = Queued(Q) \cup {first.nid}
  BY <1>1, <1>3, StoredType, QueuePushGains
<1>5. \/ Q' = QueuePush(type, Q, first.nid, first.p)
      \/ dedup /\ first.nid \in distinct /\ Q' = Q
  BY <1>1 DEF PushNode, store, first
<1>6. /\ Queued(Q) \subseteq Queued(Q')
      /\ first.nid \in Range(visited') \cup Queued(Q')
  BY <1>1, <1>4, <1>5 DEF Accounted, NothingLost
<1>7. \A e \in Range(pending) : e = first \/ e \in Range(pending')
  BY <1>2 DEF Range
<1>8. Range(pending') \subseteq Range(pending)
  <2>1. \A i \in DOMAIN pending' : i + 1 \in DOMAIN pending /\ pending'[i] = pending[i + 1]
    BY <1>1, HeadTailProperties, LenProperties
  <2> QED
    BY <2>1 DEF Range
<1>9. Met \subseteq Met'
  BY <1>1, <1>6, <1>7 DEF Met, Waiting
<1> QED
  BY <1>1, <1>6, <1>7, <1>8, <1>9

LEMMA VisitsInit == SamplerInit \/ RandomInit => Visits
BY DEF SamplerInit, RandomInit, Init, Visits

LEMMA VisitsStep ==
    ASSUME Typed, Phases, Accounted, Whole, Visits, [AnyNext]_samplerVars
    PROVE  Visits'
<1>1. CASE Filters
  <2>1. /\ at = "filter" /\ method = "sample" /\ wasm
        /\ UNCHANGED <<program, start, dedup, method, at, wasm, cur, visited, Q>>
    BY <1>1, FilterFacts DEF Settled
  <2> QED
    BY <2>1 DEF Visits
<1>2. ASSUME NEW ok \in BOOLEAN, Load(ok)
      PROVE  Visits'
  <2>1. /\ method = "none" /\ method' # "sample" /\ at' \notin {"filter", "finish"}
        /\ UNCHANGED <<program, dedup, visited>>
    BY <1>2, LoadFacts DEF Settled
  <2> QED
    BY <2>1 DEF Visits, Whole, Between
<1>3. ASSUME NEW s \in Nodes, Sample(s)
      PROVE  Visits'
  <2>1. /\ at' = "poll" /\ start' = s /\ Waiting' = {s} /\ visited' = <<>>
        /\ UNCHANGED <<program, dedup, pending>> /\ pending = <<>>
    BY <1>3, SampleFacts
  <2>2. Queued(Q') = {s}
    BY <2>1 DEF Waiting, Range
  <2> QED
    BY <2>1, <2>2 DEF Visits
<1>4. CASE Return
  <2>1. /\ at' # "filter" /\ (at' = "finish" => Q = <<>>) /\ wasm
        /\ UNCHANGED <<program, start, dedup, method, wasm, visited, Q>>
    BY <1>4, ReturnFacts DEF Settled
  <2> QED
    BY <2>1 DEF Visits
<1>5. CASE Silent
  <2>1. CASE PollPop
    <3>1. at' = "filter" /\ wasm /\ UNCHANGED <<program, start, dedup, wasm, method>>
      BY <1>5, <2>1, PopFacts DEF Settled
    <3>2. /\ Range(visited') \cup Queued(Q') = Range(visited) \cup Queued(Q)
          /\ visited' # <<>> /\ visited'[Len(visited')] = cur'
      BY <1>5, <2>1, PopMeets
    <3> QED
      BY <3>1, <3>2 DEF Visits
  <2>2. CASE ExtendStep
    <3>1. /\ at = "filter"
          /\ UNCHANGED <<program, start, dedup, method, at, wasm, cur, visited>>
      BY <1>5, <2>2, PushFacts DEF Settled
    <3>2. Queued(Q) \subseteq Queued(Q')
      BY <2>2, PushMeets
    <3> QED
      BY <3>1, <3>2 DEF Visits
  <2>3. CASE Initialized \/ PollIdle
    <3>1. /\ at' # "filter" /\ (at' = "finish" => ~wasm \/ Q = <<>>)
          /\ UNCHANGED <<program, start, dedup, wasm, visited, Q>>
          /\ method' = "sample" <=> method = "sample"
      BY <1>5, <2>3, RestFacts DEF Settled
    <3> QED
      BY <3>1 DEF Visits
  <2> QED
    BY <1>5, <2>1, <2>2, <2>3 DEF Silent
<1>6. CASE End
  <2>1. /\ at' = "idle" /\ method' = "none" /\ visited' = <<>>
        /\ UNCHANGED <<program, dedup>>
    BY <1>6, EndFacts DEF Settled
  <2> QED
    BY <2>1 DEF Visits
<1>7. CASE Grow \/ UNCHANGED samplerVars
  <2>1. /\ UNCHANGED <<program, start, dedup, method, at, wasm, cur, visited, Q>>
    BY <1>7, GrowFacts
  <2> QED
    BY <2>1 DEF Visits
<1> QED
  BY <1>1, <1>2, <1>3, <1>4, <1>5, <1>6, <1>7
     DEF AnyNext, SamplerNext, Run, Filters

LEMMA ProgramVisits == ProgramSpec => [](Accounted /\ Visits)
<1>1. SamplerInit \/ RandomInit => Accounted /\ Visits
  BY VisitsInit, AccountedInit DEF SamplerInit, RandomInit
<1>2. Layered => Phases
  BY DEF Layered
<1>3. Typed /\ Phases /\ Whole /\ (Accounted /\ Visits) /\ [AnyNext]_samplerVars
         => (Accounted /\ Visits)'
  BY VisitsStep, ProgramAccountedStep
<1> QED
  BY <1>1, <1>2, <1>3, ProgramTyped, ProgramLayered, ProgramWhole, PTL DEF ProgramSpec

-----------------------------------------------------------------------------
(* subgraph_wise takes all it can.                                          *)

\* What subgraph_wise has taken: the first K of the visits, whose neighbours it met.
Taking ==
    program = Subgraph =>
        /\ node_count = Ran
        /\ \A i \in 1 .. Ran : i <= K[Subgraph] => visited[i] \in Sampled
        /\ \A v \in Sampled : \E i \in 1 .. Ran : i <= K[Subgraph] /\ v = visited[i]

\* The neighbours of what it has taken are met; of the running node they are pushed.
Spreading ==
    program = Subgraph =>
        /\ \A u \in Sampled : Neighbours(u) \subseteq Met
        /\ \A u \in selected : Neighbours(u) \subseteq Range(visited) \cup Queued(Q)
        /\ pending # <<>> =>
              /\ verdict = "yes"
              /\ \A e \in Range(pending) : e.nid \in Neighbours(cur)

LEMMA SmallerOfTwo ==
    ASSUME NEW a \in Nat, NEW b \in Nat
    PROVE  Min({a, b}) = IF a <= b THEN a ELSE b
BY DEF Min

\* The entries for a list of nodes leave none of them out.
LEMMA PrioritisedCovers ==
    ASSUME NEW nids \in Seq(Nodes), NEW entries \in Prioritised(nids)
    PROVE  \A v \in Range(nids) : \E e \in Range(entries) : e.nid = v
<1>1. PICK ps \in [DOMAIN nids -> Priorities] : entries = PairedEntries(nids, ps)
  BY DEF Prioritised
<1>2. Len(nids) \in Nat /\ DOMAIN nids = 1 .. Len(nids)
  BY LenProperties
<1>3. ps \in Seq(Priorities) /\ Len(ps) = Len(nids)
  BY <1>1, <1>2
<1>4. Min({Len(nids), Len(ps)}) = Len(nids)
  <2>1. Len(ps) \in Nat
    BY <1>2, <1>3
  <2> QED
    BY <1>2, <1>3, <2>1, SmallerOfTwo
<1>5. entries = [i \in 1 .. Len(nids) |-> [nid |-> nids[i], p |-> ps[i]]]
  BY <1>1, <1>4 DEF PairedEntries
<1>6. \A i \in DOMAIN nids : i \in DOMAIN entries /\ entries[i].nid = nids[i]
  BY <1>2, <1>5
<1> QED
  BY <1>6 DEF Range

LEMMA SubgraphFilters ==
    ASSUME Typed, Filters, program = Subgraph
    PROVE  /\ node_count' = node_count + 1
           /\ verdict' = IF node_count + 1 > K[Subgraph] THEN "no" ELSE "yes"
           /\ verdict' = "yes" => Neighbours(cur) \subseteq Waiting'
           /\ pending' # <<>> /\ pending = <<>> =>
                 /\ verdict' = "yes"
                 /\ \A e \in Range(pending') : e.nid \in Neighbours(cur)
<1>1. FilterSubgraph /\ at = "filter"
  BY DEF Filters, FilterLayer, FilterNode, FilterSubgraph, FilterData, Filtering, Node,
         Layer, Subgraph, Data
<1>2. graph[cur] \in Seq(Nodes)
  BY <1>1, NeighboursTyped
<1>3. CASE Leaf("no") /\ node_count + 1 > K[Subgraph]
  BY <1>1, <1>3 DEF FilterSubgraph, Leaf, block, vars
<1>4. CASE ~(node_count + 1 > K[Subgraph]) /\ Leaf("yes") /\ graph[cur] = <<>>
  <2>1. Neighbours(cur) = {}
    BY <1>4 DEF Neighbours, Range
  <2> QED
    BY <1>1, <1>4, <2>1 DEF FilterSubgraph, Leaf, block, vars
<1>5. ASSUME ~(node_count + 1 > K[Subgraph]),
             NEW entries \in Prioritised(graph[cur]), Extend(entries, "yes")
      PROVE  /\ verdict' = "yes" /\ Neighbours(cur) \subseteq Waiting'
             /\ \A e \in Range(pending') : e.nid \in Neighbours(cur)
  <2>1. pending' = entries /\ verdict' = "yes"
    BY <1>5 DEF Extend, ExtendNode
  <2>2. \A v \in Neighbours(cur) : \E e \in Range(entries) : e.nid = v
    BY <1>2, PrioritisedCovers DEF Neighbours
  <2>3. \A e \in Range(entries) : e.nid \in Neighbours(cur)
    BY <1>2, PrioritisedFrom DEF NodesFrom, Neighbours
  <2> QED
    BY <2>1, <2>2, <2>3 DEF Waiting
<1> QED
  BY <1>1, <1>3, <1>4, <1>5 DEF FilterSubgraph

LEMMA TakingInit == SamplerInit \/ RandomInit => Taking /\ Spreading
<1> SUFFICES ASSUME SamplerInit \/ RandomInit
             PROVE  Taking /\ Spreading
  OBVIOUS
<1>1. /\ node_count = 0 /\ selected = {} /\ verdict = "none" /\ visited = <<>>
      /\ at = "idle" /\ pending = <<>>
  BY DEF SamplerInit, RandomInit, Init
<1>2. Sampled = {} /\ Ran = 0
  BY <1>1 DEF Sampled, Decided, Ran
<1> QED
  BY <1>1, <1>2 DEF Taking, Spreading

\* Nothing is taken, and what has run stays as it was.
LEMMA StillTaking ==
    ASSUME Taking, program' = program, node_count' = node_count, Sampled' = Sampled,
           Ran' = Ran, \A i \in 1 .. Ran : visited'[i] = visited[i]
    PROVE  Taking'
BY DEF Taking

LEMMA StillSpreading ==
    ASSUME Spreading, program' = program, graph' = graph, Sampled' = Sampled,
           selected' = selected, Met \subseteq Met',
           Range(visited) \cup Queued(Q) \subseteq Range(visited') \cup Queued(Q'),
           pending' # <<>> => /\ UNCHANGED <<verdict, cur>> /\ pending # <<>>
                              /\ Range(pending') \subseteq Range(pending)
    PROVE  Spreading'
BY DEF Spreading, Neighbours

LEMMA TakingStep ==
    ASSUME Typed, Phases, Accounted, Whole, Visits, Taking, [AnyNext]_samplerVars
    PROVE  Taking'
<1>0. Len(visited) \in Nat
  BY LenProperties DEF Typed, TypeOK
<1>1. CASE Filters
  <2> SUFFICES ASSUME program' = Subgraph
               PROVE  Taking'
    BY DEF Taking
  <2>1. /\ at = "filter" /\ verdict = "none" /\ verdict' \in {"yes", "no"}
        /\ UNCHANGED <<program, at, cur, visited>>
        /\ Sampled' = IF verdict' = "yes" THEN Sampled \cup {cur} ELSE Sampled
    BY <1>1, FilterFacts DEF Settled
  <2>2. /\ node_count' = node_count + 1
        /\ verdict' = IF node_count + 1 > K[Subgraph] THEN "no" ELSE "yes"
    BY <1>1, <2>1, SubgraphFilters
  <2>3. Ran = Len(visited) - 1 /\ Ran' = Len(visited) /\ visited[Len(visited)] = cur
    BY <2>1 DEF Ran, Visits
  <2>4. K[Subgraph] \in Nat
    BY <2>1, LimitsAssumption DEF Typed, GuestTypeOK, Subgraph, Data
  <2>5. Ran \in Nat /\ Ran' = Ran + 1
    <3>1. Len(visited) # 0
      BY <2>1, EmptySeq, LenProperties DEF Visits, Typed, TypeOK
    <3> QED
      BY <1>0, <2>3, <3>1
  <2>6. /\ node_count = Ran
        /\ \A i \in 1 .. Ran : i <= K[Subgraph] => visited[i] \in Sampled
        /\ \A v \in Sampled : \E i \in 1 .. Ran : i <= K[Subgraph] /\ v = visited[i]
    BY <2>1 DEF Taking
  <2> HIDE DEF Ran, Sampled
  <2>7. ASSUME NEW i \in 1 .. Ran', i <= K[Subgraph]
        PROVE  visited'[i] \in Sampled'
    <3>1. CASE i \in 1 .. Ran
      BY <2>1, <2>6, <2>7, <3>1
    <3>2. CASE i \notin 1 .. Ran
      <4>1. i = Ran'
        BY <2>5, <3>2
      <4>2. verdict' = "yes"
        BY <2>2, <2>4, <2>5, <2>6, <2>7, <4>1
      <4> QED
        BY <2>1, <2>3, <4>1, <4>2
    <3> QED
      BY <3>1, <3>2
  <2>8. ASSUME NEW v \in Sampled'
        PROVE  \E i \in 1 .. Ran' : i <= K[Subgraph] /\ v = visited'[i]
    <3>1. CASE v \in Sampled
      BY <2>1, <2>5, <2>6, <3>1
    <3>2. CASE v \notin Sampled
      <4>1. v = cur /\ verdict' = "yes"
        BY <2>1, <2>8, <3>2
      <4>2. Ran' \in 1 .. Ran' /\ Ran' <= K[Subgraph] /\ visited'[Ran'] = v
        BY <2>1, <2>2, <2>3, <2>4, <2>5, <2>6, <4>1
      <4> QED
        BY <4>2
    <3> QED
      BY <3>1, <3>2
  <2> QED
    BY <2>2, <2>5, <2>6, <2>7, <2>8 DEF Taking
<1>2. CASE node_count' = 0 /\ Sampled' = {} /\ visited' = <<>> /\ at' # "filter"
  BY <1>2 DEF Taking, Ran
<1>3. ASSUME NEW ok \in BOOLEAN, Load(ok)
      PROVE  Taking'
  <2>1. /\ method = "none" /\ node_count' = 0 /\ at' # "filter" /\ verdict' = "none"
        /\ UNCHANGED <<selected, visited>>
    BY <1>3, LoadFacts
  <2> QED
    BY <1>2, <2>1 DEF Whole, Between, Sampled, Decided
<1>4. ASSUME NEW s \in Nodes, Sample(s)
      PROVE  Taking'
  <2>1. /\ method = "none" /\ at' # "filter" /\ Sampled' = {} /\ visited' = <<>>
        /\ UNCHANGED <<program, node_count>> /\ verdict = "none"
    BY <1>4, SampleFacts DEF Remembered
  <2>2. visited = <<>> /\ at # "filter"
    BY <2>1 DEF Whole, Between, Phases
  <2>3. program = Subgraph => node_count = 0
    BY <2>2 DEF Taking, Ran
  <2> QED
    BY <2>1, <2>3 DEF Taking, Ran
<1>5. CASE Return
  <2>1. /\ at = "filter" /\ verdict # "none" /\ at' # "filter"
        /\ UNCHANGED <<program, node_count, visited>>
        /\ Sampled' = Sampled
    BY <1>5, ReturnFacts DEF Settled, Remembered
  <2>2. Ran' = Ran
    BY <2>1 DEF Ran
  <2> QED
    BY <2>1, <2>2, StillTaking
<1>6. CASE Silent
  <2>1. CASE PollPop
    <3>1. /\ at = "poll" /\ at' = "filter" /\ verdict' = "none"
          /\ UNCHANGED <<program, node_count>> /\ Sampled' = Sampled
      BY <1>6, <2>1, PopFacts DEF Settled, Remembered
    <3>2. /\ Len(visited') = Len(visited) + 1
          /\ \A i \in 1 .. Len(visited) : visited'[i] = visited[i]
      BY <1>6, <2>1, PopMeets
    <3>3. Ran' = Ran /\ Ran = Len(visited)
      BY <1>0, <3>1, <3>2 DEF Ran
    <3> QED
      BY <3>1, <3>2, <3>3, StillTaking
  <2>2. CASE ExtendStep
    <3>1. /\ UNCHANGED <<program, node_count, verdict, at, visited>> /\ Sampled' = Sampled
      BY <1>6, <2>2, PushFacts DEF Settled, Remembered
    <3>2. Ran' = Ran
      BY <3>1 DEF Ran
    <3> QED
      BY <3>1, <3>2, StillTaking
  <2>3. CASE Initialized \/ PollIdle
    <3>1. /\ at # "filter" /\ at' # "filter" /\ Sampled' = Sampled
          /\ UNCHANGED <<program, node_count, visited>>
      BY <1>6, <2>3, RestFacts DEF Settled, Remembered
    <3>2. Ran' = Ran
      BY <3>1 DEF Ran
    <3> QED
      BY <3>1, <3>2, StillTaking
  <2> QED
    BY <1>6, <2>1, <2>2, <2>3 DEF Silent
<1>7. CASE End
  <2>1. /\ at = "finish" /\ at' # "filter" /\ visited' = <<>> /\ Sampled' = {}
        /\ wasm => node_count' = 0
        /\ ~wasm => node_count' = node_count
        /\ program' = program
    BY <1>7, EndFacts DEF Settled
  <2>2. program = Subgraph /\ ~wasm => node_count = 0
    BY <2>1 DEF Taking, Ran, Visits
  <2> QED
    BY <1>2, <2>1, <2>2 DEF Taking
<1>8. CASE Grow \/ UNCHANGED samplerVars
  <2>1. /\ UNCHANGED <<program, node_count, verdict, at, visited>> /\ Sampled' = Sampled
    BY <1>8, GrowFacts DEF Remembered
  <2>2. Ran' = Ran
    BY <2>1 DEF Ran
  <2> QED
    BY <2>1, <2>2, StillTaking
<1> QED
  BY <1>1, <1>3, <1>4, <1>5, <1>6, <1>7, <1>8
     DEF AnyNext, SamplerNext, Run, Filters

LEMMA SpreadingStep ==
    ASSUME Typed, Phases, Accounted, Whole, Visits, Spreading, [AnyNext]_samplerVars
    PROVE  Spreading'
<1>1. CASE Filters
  <2> SUFFICES ASSUME program' = Subgraph
               PROVE  Spreading'
    BY DEF Spreading
  <2>1. /\ at = "filter" /\ verdict = "none"
        /\ UNCHANGED <<program, graph, cur, selected, visited, Q>>
        /\ Sampled' = IF verdict' = "yes" THEN Sampled \cup {cur} ELSE Sampled
    BY <1>1, FilterFacts DEF Settled
  <2>2. pending = <<>>
    BY <2>1 DEF Spreading
  <2>3. /\ verdict' = "yes" => Neighbours(cur) \subseteq Waiting'
        /\ pending' # <<>> =>
              /\ verdict' = "yes"
              /\ \A e \in Range(pending') : e.nid \in Neighbours(cur)
    BY <1>1, <2>1, <2>2, SubgraphFilters
  <2>4. Met \subseteq Met' /\ Waiting' \subseteq Met'
    BY <1>1, FilterShapes, OfferedMeets DEF FilterShape, Met
  <2>5. \A u : Neighbours(u)' = Neighbours(u)
    BY <2>1 DEF Neighbours
  <2>6. \A u \in Sampled' : Neighbours(u) \subseteq Met'
    BY <2>1, <2>3, <2>4 DEF Spreading
  <2> QED
    BY <2>1, <2>3, <2>5, <2>6 DEF Spreading
<1>2. CASE Sampled' = {} /\ selected' = {} /\ pending' = <<>>
  BY <1>2 DEF Spreading
<1>3. ASSUME NEW ok \in BOOLEAN, Load(ok)
      PROVE  Spreading'
  <2>1. /\ method = "none" /\ verdict' = "none" /\ pending' = <<>>
        /\ UNCHANGED selected
    BY <1>3, LoadFacts
  <2> QED
    BY <1>2, <2>1 DEF Whole, Between, Sampled, Decided
<1>4. ASSUME NEW s \in Nodes, Sample(s)
      PROVE  Spreading'
  BY <1>2, <1>4, SampleFacts
<1>5. CASE Return
  <2>1. /\ pending = <<>> /\ pending' = <<>>
        /\ UNCHANGED <<program, graph, visited, Q>>
        /\ selected' = Sampled /\ Sampled' = Sampled
    BY <1>5, ReturnFacts DEF Settled
  <2>2. Met = Range(visited) \cup Queued(Q) /\ Met' = Met
    BY <2>1 DEF Met, Waiting, Range, Queued
  <2> QED
    BY <2>1, <2>2 DEF Spreading, Neighbours
<1>6. CASE Silent
  <2>1. CASE PollPop
    <3>1. /\ pending' = <<>> /\ UNCHANGED <<program, graph, selected>>
          /\ Sampled' = Sampled
      BY <1>6, <2>1, PopFacts DEF Settled
    <3>2. /\ Met' = Met
          /\ Range(visited') \cup Queued(Q') = Range(visited) \cup Queued(Q)
      BY <1>6, <2>1, PopMeets
    <3> QED
      BY <3>1, <3>2, StillSpreading
  <2>2. CASE ExtendStep
    <3>1. /\ pending # <<>> /\ UNCHANGED <<program, graph, selected, verdict, cur>>
          /\ Sampled' = Sampled
      BY <1>6, <2>2, PushFacts DEF Settled
    <3>2. /\ Met \subseteq Met' /\ Range(pending') \subseteq Range(pending)
          /\ Queued(Q) \subseteq Queued(Q') /\ visited' = visited
      BY <2>2, PushMeets
    <3> QED
      BY <3>1, <3>2, StillSpreading
  <2>3. CASE Initialized \/ PollIdle
    <3>1. /\ pending' = <<>> /\ UNCHANGED <<program, graph, selected, visited, Q>>
          /\ Sampled' = Sampled /\ Waiting' = Waiting
      BY <1>6, <2>3, RestFacts DEF Settled
    <3> QED
      BY <3>1, StillSpreading DEF Met
  <2> QED
    BY <1>6, <2>1, <2>2, <2>3 DEF Silent
<1>7. CASE End
  BY <1>2, <1>7, EndFacts
<1>8. CASE Grow
  <2>1. /\ method = "none" /\ UNCHANGED <<pending, selected>> /\ Sampled' = Sampled
    BY <1>8, GrowFacts DEF Grow
  <2>2. pending = <<>> /\ verdict = "none" /\ selected = {}
    BY <2>1 DEF Phases, Whole, Between
  <2> QED
    BY <1>2, <2>1, <2>2 DEF Sampled, Decided
<1>9. CASE UNCHANGED samplerVars
  <2>1. /\ UNCHANGED <<program, graph, pending, selected, verdict, cur, visited, Q>>
        /\ Waiting' = Waiting /\ Sampled' = Sampled
    BY <1>9, GrowFacts DEF samplerVars, setting
  <2> QED
    BY <2>1, StillSpreading DEF Met
<1> QED
  BY <1>1, <1>3, <1>4, <1>5, <1>6, <1>7, <1>8, <1>9
     DEF AnyNext, SamplerNext, Run, Filters

LEMMA ProgramTaking == ProgramSpec => [](Taking /\ Spreading)
<1>1. SamplerInit \/ RandomInit => Taking /\ Spreading
  BY TakingInit
<1>2. Layered => Phases
  BY DEF Layered
<1>3. Typed /\ Phases /\ Whole /\ (Accounted /\ Visits) /\ (Taking /\ Spreading)
         /\ [AnyNext]_samplerVars => (Taking /\ Spreading)'
  BY TakingStep, SpreadingStep
<1> QED
  BY <1>1, <1>2, <1>3, ProgramTyped, ProgramLayered, ProgramWhole, ProgramVisits, PTL
     DEF ProgramSpec

\* What is sampled can be reached.
LEMMA SampledReachable ==
    ASSUME Typed, Whole, at = "finish"
    PROVE  selected \subseteq Reachable
<1> DEFINE n == Cardinality(selected)
<1>1. n \in Nat
  BY FS_CardinalityType DEF Whole, OnePiece
<1>2. selected \subseteq Nodes
  BY DEF Typed, TypeOK
<1>3. selected = Ball(selected, Edges, start, n)
  BY WholeIsConnected DEF SampleIsConnected
<1> HIDE DEF n
<1>4. Ball(selected, Edges, start, n) \subseteq Ball(Nodes, Edges, start, n)
  BY <1>1, <1>2, BallWider
<1>5. Ball(Nodes, Edges, start, n) \subseteq Reachable
  BY <1>1, FiniteAssumption, BallLargest DEF Reachable, Near
<1> QED
  BY <1>3, <1>4, <1>5

LEMMA TakingIsFull ==
    ASSUME Typed, Phases, Accounted, Whole, Visits, Taking, Spreading
    PROVE  SubgraphIsFull
<1> SUFFICES ASSUME program = Subgraph, at = "finish", wasm
             PROVE  Cardinality(selected) = Min({K[Subgraph], Cardinality(Reachable)})
  BY DEF SubgraphIsFull
<1>1. /\ visited \in Seq(Nodes) /\ Len(visited) \in Nat
      /\ DOMAIN visited = 1 .. Len(visited)
      /\ K[Subgraph] \in Nat
  BY LenProperties, LimitsAssumption DEF Typed, TypeOK, GuestTypeOK, Subgraph, Data
<1>2. IsInjective(visited)
  BY DEF Visits, Accounted, VisitedOnce, Subgraph, Node
<1>3. /\ Sampled = selected /\ Ran = Len(visited) /\ Met = Range(visited)
      /\ Queued(Q) = {} /\ method = "sample"
  <2>1. verdict = "none" /\ pending = <<>> /\ Q = <<>> /\ method = "sample"
    BY DEF Phases, Visits
  <2> QED
    BY <1>1, <2>1 DEF Sampled, Decided, Ran, Met, Waiting, Queued, Range
<1>4. /\ \A i \in 1 .. Len(visited) : i <= K[Subgraph] => visited[i] \in selected
      /\ \A v \in selected :
            \E i \in 1 .. Len(visited) : i <= K[Subgraph] /\ v = visited[i]
      /\ \A u \in selected : Neighbours(u) \subseteq Range(visited)
      /\ start \in Range(visited) /\ start \in Nodes
  BY <1>3 DEF Taking, Spreading, Visits, Whole, Fetched
<1>5. selected \subseteq Reachable
  BY SampledReachable
<1>6. IsFiniteSet(Reachable) /\ Cardinality(Reachable) \in Nat
  <2>1. Reachable \in SUBSET Nodes
    BY BallInside, FS_CardinalityType, FiniteAssumption DEF Reachable, Near
  <2> QED
    BY <2>1, FiniteAssumption, FS_Subset, FS_CardinalityType
<1> HIDE DEF Reachable
<1>7. CASE Len(visited) <= K[Subgraph]
  <2>1. selected = Range(visited)
    BY <1>1, <1>4, <1>7 DEF Range
  <2>2. Closed(Nodes, Edges, selected)
    BY <1>4, <2>1 DEF Closed, Edges
  <2>3. Reachable \subseteq selected
    <3>1. Cardinality(Nodes) \in Nat
      BY FiniteAssumption, FS_CardinalityType
    <3>2. {start} \cap Nodes \subseteq selected
      BY <1>4, <2>1
    <3>3. \A d \in Nat : Ball(Nodes, Edges, start, d) \subseteq selected
      BY <2>2, <3>2, BallLeast
    <3> QED
      BY <3>1, <3>3 DEF Reachable, Near
  <2>4. Cardinality(selected) = Len(visited)
    BY <1>1, <1>2, <1>4, <1>7, FirstsCounted
  <2>5. Cardinality(Reachable) = Len(visited)
    <3>1. selected = Reachable
      BY <1>5, <2>3
    <3> QED
      BY <2>4, <3>1
  <2> QED
    BY <1>1, <1>7, <2>4, <2>5, SmallerOfTwo
<1>8. CASE Len(visited) > K[Subgraph]
  <2>1. \A i \in 1 .. K[Subgraph] : visited[i] \in selected
    BY <1>1, <1>4, <1>8
  <2>2. \A v \in selected : \E i \in 1 .. K[Subgraph] : v = visited[i]
    BY <1>1, <1>4
  <2>3. Cardinality(selected) = K[Subgraph]
    BY <1>1, <1>2, <1>8, <2>1, <2>2, FirstsCounted
  <2>4. Cardinality(selected) <= Cardinality(Reachable)
    BY <1>5, <1>6, FS_Subset
  <2> QED
    BY <1>1, <1>6, <2>3, <2>4, SmallerOfTwo
<1> QED
  BY <1>1, <1>7, <1>8

\* subgraph_wise takes min(K, all that can be reached), on every graph, with every
\* queue, in every sample of a container: the visits count up to K from zero, and
\* below K they end only when the sample is closed under the edges.
THEOREM SubgraphsAreFull == SamplerSpec \/ RandomSpec => []SubgraphIsFull
<1>1. Layered => Phases
  BY DEF Layered
<1>2. Typed /\ Phases /\ Whole /\ (Accounted /\ Visits) /\ (Taking /\ Spreading)
         => SubgraphIsFull
  BY TakingIsFull
<1> QED
  BY <1>1, <1>2, ProgramsRun, ProgramTyped, ProgramLayered, ProgramWhole, ProgramVisits,
     ProgramTaking, PTL

-----------------------------------------------------------------------------
(* With a FIFO queue subgraph_wise takes the nearest.                       *)

\* No ball around the start has v in it and leaves u out.
Nearer(u, v) == \A d \in Nat : v \in Near(d) => u \in Near(d)

\* What is visited, or to be visited, before another node is at least as near.
NearestFirst ==
    program = Subgraph /\ type = FIFO =>
        /\ \A i, j \in DOMAIN visited : i <= j => Nearer(visited[i], visited[j])
        /\ \A u \in Range(visited) : \A v \in Queued(Q) : Nearer(u, v)
        /\ \A i, j \in DOMAIN Q : i <= j => Nearer(Q[i].nid, Q[j].nid)

LEMMA NearerSelf == \A u : Nearer(u, u)
BY DEF Nearer

\* A set with the start in it that the edges leave only beyond depth d has all that
\* is within that depth.
LEMMA Frontier ==
    ASSUME NEW d \in Nat, NEW X, Near(0) \subseteq X,
           \A u \in X : \A v \in Nodes :
              u \in Near(d) /\ v \in Near(d) /\ <<u, v>> \in Edges => v \in X
    PROVE  Near(d) \subseteq X
<1> DEFINE P == {e \in Nat : e <= d => Near(e) \subseteq X}
<1>1. 0 \in P
  OBVIOUS
<1>2. ASSUME NEW n \in Nat, n \in P
      PROVE  n + 1 \in P
  <2> SUFFICES ASSUME n + 1 <= d, NEW v \in Near(n + 1)
               PROVE  v \in X
    OBVIOUS
  <2> DEFINE m == n + 1
  <2>1. m \in Nat /\ n <= d /\ m <= d
    OBVIOUS
  <2>2. Near(n) \subseteq X
    BY <1>2, <2>1
  <2>3. Near(m) = Spread(Nodes, Edges, Near(n))
    BY BallStep DEF Near
  <2>4. Near(n) \subseteq Near(d) /\ Near(m) \subseteq Near(d)
    BY <2>1, BallGrows DEF Near
  <2>5. v \in Near(m)
    OBVIOUS
  <2> HIDE DEF m, P
  <2> USE DEF Spread
  <2>6. CASE v \in Near(n)
    BY <2>2, <2>6
  <2>7. CASE v \notin Near(n)
    <3>1. v \in Nodes /\ \E u \in Near(n) : <<u, v>> \in Edges
      BY <2>3, <2>5, <2>7
    <3>2. PICK u \in Near(n) : <<u, v>> \in Edges
      BY <3>1
    <3> HIDE DEF Spread
    <3> QED
      BY <2>2, <2>4, <2>5, <3>1, <3>2
  <2> QED
    BY <2>6, <2>7
<1> HIDE DEF P
<1>3. Nat \subseteq P
  BY <1>1, <1>2, NumberInduction
<1> QED
  BY <1>3 DEF P

\* What a sample takes is visited, and has been decided.
LEMMA TakenIsVisited ==
    ASSUME Typed, Taking, program = Subgraph
    PROVE  Sampled \subseteq Range(visited)
<1>1. Len(visited) \in Nat /\ DOMAIN visited = 1 .. Len(visited)
  BY LenProperties DEF Typed, TypeOK
<1>2. \A i \in 1 .. Ran : i \in DOMAIN visited
  BY <1>1 DEF Ran
<1>3. \A v \in Sampled : \E i \in 1 .. Ran : v = visited[i]
  BY DEF Taking
<1> HIDE DEF Ran, Sampled
<1> QED
  BY <1>2, <1>3 DEF Range

\* While the running node is extended all visits so far have been taken.
LEMMA AllTaken ==
    ASSUME Typed, Phases, Accounted, Visits, Taking, Spreading, program = Subgraph,
           pending # <<>>
    PROVE  /\ at = "filter" /\ method = "sample" /\ cur \in Range(visited)
           /\ \A u \in Range(visited) : u = cur \/ u \in selected
<1>1. /\ verdict = "yes" /\ at = "filter" /\ method = "sample" /\ dedup
  BY DEF Spreading, Phases, Visits, Subgraph, Node
<1>2. /\ visited \in Seq(Nodes) /\ Len(visited) \in Nat
      /\ DOMAIN visited = 1 .. Len(visited) /\ K[Subgraph] \in Nat
  BY LenProperties, LimitsAssumption DEF Typed, TypeOK, GuestTypeOK, Subgraph, Data
<1>3. Ran = Len(visited) /\ Sampled = selected \cup {cur}
  BY <1>1, <1>2 DEF Ran, Sampled, Decided
<1>4. Len(visited) \in DOMAIN visited /\ visited[Len(visited)] = cur
  <2>1. Len(visited) # 0
    BY <1>1, <1>2, EmptySeq DEF Visits
  <2> QED
    BY <1>1, <1>2, <2>1 DEF Visits
<1>5. PICK i \in 1 .. Len(visited) : i <= K[Subgraph] /\ cur = visited[i]
  BY <1>3 DEF Taking
<1>6. i = Len(visited)
  BY <1>1, <1>2, <1>4, <1>5 DEF Accounted, VisitedOnce, IsInjective
<1>7. \A j \in 1 .. Len(visited) : visited[j] \in Sampled
  BY <1>2, <1>3, <1>5, <1>6 DEF Taking
<1> QED
  BY <1>1, <1>2, <1>3, <1>4, <1>7 DEF Range

\* A neighbour of the running node that is new to the sample is at least as far away
\* as all that is visited or queued.
LEMMA NewIsFarther ==
    ASSUME Typed, Phases, Accounted, Whole, Visits, Taking, Spreading, NearestFirst,
           program = Subgraph, type = FIFO, pending # <<>>,
           NEW y \in Neighbours(cur), y \notin Range(visited) \cup Queued(Q),
           NEW u \in Range(visited) \cup Queued(Q)
    PROVE  Nearer(u, y)
<1> SUFFICES ASSUME NEW d \in Nat, y \in Near(d), u \notin Near(d)
             PROVE  FALSE
  BY DEF Nearer
<1>1. /\ at = "filter" /\ method = "sample" /\ cur \in Range(visited)
      /\ \A w \in Range(visited) : w = cur \/ w \in selected
  BY AllTaken
<1>2. /\ start \in Nodes /\ start \in Range(visited) \cup Queued(Q)
      /\ \A v \in Waiting : v = start \/ \E w \in Sampled : <<w, v>> \in Edges
      /\ \A w \in selected : Neighbours(w) \subseteq Range(visited) \cup Queued(Q)
  BY <1>1 DEF Whole, Fetched, Visits, Spreading
<1>3. /\ \A i, j \in DOMAIN visited : i <= j => Nearer(visited[i], visited[j])
      /\ \A w \in Range(visited) : \A v \in Queued(Q) : Nearer(w, v)
  BY DEF NearestFirst
<1>4. \A w \in Range(visited) : Nearer(w, cur)
  <2>1. /\ Len(visited) \in Nat /\ DOMAIN visited = 1 .. Len(visited)
        /\ visited[Len(visited)] = cur
    BY <1>1, LenProperties DEF Visits, Typed, TypeOK
  <2>2. Len(visited) \in DOMAIN visited
    BY <1>1, <2>1 DEF Range
  <2>3. \A i \in DOMAIN visited : Nearer(visited[i], cur)
    BY <1>3, <2>1, <2>2
  <2> QED
    BY <2>3 DEF Range
<1>5. Sampled \subseteq Range(visited)
  BY TakenIsVisited
<1>6. start \in Near(0) /\ Near(0) = {start}
  BY <1>2, BallZero DEF Near
<1>7. \A e \in Nat : Near(0) \subseteq Near(e)
  BY BallGrows DEF Near
<1>8. d # 0
  BY <1>2, <1>6
<1> DEFINE e == d - 1
<1>9. e \in Nat /\ d = e + 1
  BY <1>8
<1> HIDE DEF e
<1>10. Near(e) \subseteq Nodes /\ Near(e) \subseteq Near(d)
  BY <1>9, BallInside, BallGrows DEF Near
<1>11. CASE cur \in Near(e)
  <2>1. \A w \in Range(visited) : w \in Near(e)
    BY <1>4, <1>9, <1>11 DEF Nearer
  <2>2. u \in Queued(Q)
    BY <1>10, <2>1
  <2>3. u \in Waiting /\ u \in Nodes
    <3>1. Queued(Q) \subseteq Nodes
      <4>1. \A i \in DOMAIN Q : Q[i] \in Entry
        BY ElementOfSeq, LenProperties DEF Typed, TypeOK
      <4> QED
        BY <4>1 DEF Queued, Entry
    <3> QED
      BY <2>2, <3>1 DEF Waiting
  <2>4. u # start
    BY <1>6, <1>7
  <2>5. PICK w \in Sampled : <<w, u>> \in Edges
    BY <1>2, <2>3, <2>4
  <2>6. w \in Near(e)
    BY <1>5, <2>1, <2>5
  <2> QED
    BY <1>9, <2>3, <2>5, <2>6, BallEdge DEF Near
<1>12. CASE cur \notin Near(e)
  <2> DEFINE X == Range(visited) \ {cur}
  <2>1. \A v \in Queued(Q) : v \notin Near(e)
    BY <1>1, <1>3, <1>9, <1>12 DEF Nearer
  <2>2. Near(0) \subseteq X
    BY <1>2, <1>6, <1>7, <1>9, <1>12, <2>1
  <2>3. ASSUME NEW w \in X, NEW v \in Nodes, v \in Near(e), <<w, v>> \in Edges
        PROVE  v \in X
    <3>1. v \in Range(visited) \cup Queued(Q)
      BY <1>1, <1>2, <2>3 DEF Edges
    <3> QED
      BY <1>12, <2>1, <2>3, <3>1
  <2> HIDE DEF X
  <2>4. Near(e) \subseteq X
    BY <1>9, <2>2, <2>3, Frontier
  <2>5. Near(d) = Spread(Nodes, Edges, Near(e))
    BY <1>9, BallStep DEF Near
  <2>6. y \notin Near(e)
    BY <2>4 DEF X
  <2>7. PICK w \in Near(e) : <<w, y>> \in Edges
    BY <2>5, <2>6 DEF Spread
  <2>8. w \in selected /\ y \in Neighbours(w)
    BY <1>1, <2>4, <2>7 DEF X, Edges
  <2> QED
    BY <1>2, <2>8
<1> QED
  BY <1>11, <1>12

LEMMA SameNearer ==
    ASSUME start' = start, graph' = graph, NEW u, NEW v
    PROVE  Nearer(u, v)' <=> Nearer(u, v)
<1>1. Edges' = Edges
  BY SameEdges
<1> QED
  BY <1>1 DEF Nearer, Near

LEMMA PopKeepsOrder ==
    ASSUME Typed, Phases, NearestFirst, Silent, PollPop
    PROVE  NearestFirst'
<1> SUFFICES ASSUME program' = Subgraph, type' = FIFO
             PROVE  NearestFirst'
  BY DEF NearestFirst
<1>1. UNCHANGED <<program, graph, start, type>>
  BY PopFacts DEF Settled
<1>2. /\ Len(visited') = Len(visited) + 1 /\ visited'[Len(visited')] = cur'
      /\ \A i \in 1 .. Len(visited) : visited'[i] = visited[i]
      /\ visited' = Append(visited, cur')
  BY PopMeets, PopFacts
<1>3. /\ Q \in Seq(Entry) /\ Q # <<>> /\ Q' = Tail(Q) /\ cur' = Head(Q).nid
      /\ visited \in Seq(Nodes)
  BY DEF PollPop, QueueTop, QueuePop, QueueEmpty, Typed, TypeOK
<1>4. /\ 1 \in DOMAIN Q /\ Head(Q) = Q[1]
      /\ DOMAIN Q' \subseteq Nat \ {0}
      /\ \A i \in DOMAIN Q' : i + 1 \in DOMAIN Q /\ Q'[i] = Q[i + 1]
      /\ Queued(Q) = {cur'} \cup Queued(Q')
  BY <1>3, TailOfQueue, LenProperties
<1>5. /\ Len(visited) \in Nat /\ DOMAIN visited = 1 .. Len(visited)
      /\ DOMAIN visited' = 1 .. Len(visited) + 1
  <2>1. cur' \in Nodes
    <3>1. Head(Q) \in Entry
      BY <1>3, HeadTailProperties
    <3> QED
      BY <1>3, <3>1 DEF Entry
  <2> QED
    BY <1>2, <1>3, <2>1, AppendProperties, LenProperties
<1>6. /\ \A i, j \in DOMAIN visited : i <= j => Nearer(visited[i], visited[j])
      /\ \A u \in Range(visited) : \A v \in Queued(Q) : Nearer(u, v)
      /\ \A i, j \in DOMAIN Q : i <= j => Nearer(Q[i].nid, Q[j].nid)
  BY <1>1 DEF NearestFirst
<1>7. \A u, v : Nearer(u, v)' <=> Nearer(u, v)
  BY <1>1, SameNearer
<1>8. \A i \in DOMAIN visited' :
         \/ i = Len(visited) + 1 /\ visited'[i] = cur'
         \/ i \in DOMAIN visited /\ visited'[i] = visited[i] /\ i # Len(visited) + 1
  BY <1>2, <1>5
<1>9. ASSUME NEW i \in DOMAIN visited', NEW j \in DOMAIN visited', i <= j
      PROVE  Nearer(visited'[i], visited'[j])
  <2>1. CASE j = Len(visited) + 1
    <3>1. CASE i = j
      BY <3>1, NearerSelf
    <3>2. CASE i # j
      <4>1. i \in DOMAIN visited /\ visited'[i] = visited[i]
        BY <1>8, <2>1, <3>2
      <4>2. visited[i] \in Range(visited)
        BY <4>1 DEF Range
      <4> QED
        BY <1>4, <1>6, <1>8, <2>1, <4>1, <4>2
    <3> QED
      BY <3>1, <3>2
  <2>2. CASE j # Len(visited) + 1
    <3>1. i # Len(visited) + 1
      BY <1>5, <1>9, <2>2
    <3> QED
      BY <1>6, <1>8, <1>9, <2>2, <3>1
  <2> QED
    BY <2>1, <2>2
<1>10. ASSUME NEW u \in Range(visited'), NEW v \in Queued(Q')
       PROVE  Nearer(u, v)
  <2>1. CASE u \in Range(visited)
    BY <1>4, <1>6, <1>10, <2>1
  <2>2. CASE u \notin Range(visited)
    <3>1. u = Q[1].nid
      BY <1>3, <1>4, <1>8, <1>10, <2>2 DEF Range
    <3>2. PICK i \in DOMAIN Q' : v = Q'[i].nid
      BY <1>10 DEF Queued
    <3> QED
      BY <1>4, <1>6, <3>1, <3>2
  <2> QED
    BY <2>1, <2>2
<1>11. ASSUME NEW i \in DOMAIN Q', NEW j \in DOMAIN Q', i <= j
       PROVE  Nearer(Q'[i].nid, Q'[j].nid)
  <2>1. i + 1 <= j + 1
    BY <1>4, <1>11
  <2> QED
    BY <1>4, <1>6, <2>1
<1>12. /\ \A i, j \in DOMAIN visited' : i <= j => Nearer(visited[i], visited[j])'
       /\ \A u \in Range(visited') : \A v \in Queued(Q') : Nearer(u, v)'
       /\ \A i, j \in DOMAIN Q' : i <= j => Nearer(Q[i].nid, Q[j].nid)'
  <2>1. \A i, j \in DOMAIN visited' : i <= j => Nearer(visited[i], visited[j])'
    BY <1>1, <1>9, SameEdges DEF Nearer, Near
  <2>2. \A u \in Range(visited') : \A v \in Queued(Q') : Nearer(u, v)'
    BY <1>7, <1>10
  <2>3. \A i, j \in DOMAIN Q' : i <= j => Nearer(Q[i].nid, Q[j].nid)'
    BY <1>1, <1>11, SameEdges DEF Nearer, Near
  <2> QED
    BY <2>1, <2>2, <2>3
<1> QED
  BY <1>12 DEF NearestFirst

LEMMA PushKeepsOrder ==
    ASSUME Typed, Phases, Accounted, Whole, Visits, Taking, Spreading, NearestFirst,
           Silent, ExtendStep
    PROVE  NearestFirst'
<1> SUFFICES ASSUME program' = Subgraph, type' = FIFO
             PROVE  NearestFirst'
  BY DEF NearestFirst
<1>1. UNCHANGED <<program, graph, start, type, visited>> /\ pending # <<>>
  BY PushFacts DEF Settled
<1>2. /\ pending \in Seq(Entry) /\ Q \in Seq(Entry) /\ visited \in Seq(Nodes)
      /\ PushNode(Head(pending).nid, Head(pending).p)
  BY DEF ExtendStep, Typed, TypeOK
<1> DEFINE y == Head(pending).nid
           e == Stored(FIFO, y, Head(pending).p)
<1>3. Head(pending) \in Range(pending) /\ Head(pending) \in Entry
  BY <1>1, <1>2, HeadTailProperties, LenProperties DEF Range
<1>4. e \in Entry /\ e.nid = y
  <2>1. Head(pending).nid \in Nodes /\ Head(pending).p \in Priorities
    BY <1>3 DEF Entry
  <2> QED
    BY <2>1, StoredType DEF Stored
<1>5. y \in Neighbours(cur)
  BY <1>1, <1>3 DEF Spreading
<1>6. \/ Q' = Q
      \/ Q' = Append(Q, e) /\ y \notin Range(visited) \cup Queued(Q)
  <2>1. \/ Q' = Q
        \/ Q' = QueuePush(type, Q, y, Head(pending).p) /\ (dedup => y \notin distinct)
    BY <1>2 DEF PushNode, store
  <2>2. dedup /\ distinct = Range(visited) \cup Queued(Q)
    BY <1>1 DEF Visits, Subgraph, Node, Accounted, NothingLost
  <2>3. QueuePush(FIFO, Q, y, Head(pending).p) = Append(Q, e)
    BY <1>2, <1>4, FifoPushAppends
  <2> QED
    BY <1>1, <2>1, <2>2, <2>3
<1> HIDE DEF y, e
<1>7. /\ \A i, j \in DOMAIN visited : i <= j => Nearer(visited[i], visited[j])
      /\ \A u \in Range(visited) : \A v \in Queued(Q) : Nearer(u, v)
      /\ \A i, j \in DOMAIN Q : i <= j => Nearer(Q[i].nid, Q[j].nid)
  BY <1>1 DEF NearestFirst
<1>8. \A u, v : Nearer(u, v)' <=> Nearer(u, v)
  BY <1>1, SameNearer
<1>9. CASE Q' = Q
  BY <1>1, <1>7, <1>8, <1>9, SameEdges DEF NearestFirst, Nearer, Near
<1>10. CASE Q' = Append(Q, e) /\ y \notin Range(visited) \cup Queued(Q)
  <2>1. \A u \in Range(visited) \cup Queued(Q) : Nearer(u, y)
    BY <1>1, <1>5, <1>10, NewIsFarther
  <2>2. /\ Len(Q) \in Nat /\ DOMAIN Q = 1 .. Len(Q)
        /\ DOMAIN Q' = 1 .. Len(Q) + 1
        /\ \A i \in 1 .. Len(Q) : Q'[i] = Q[i]
        /\ Q'[Len(Q) + 1].nid = y
    BY <1>2, <1>4, <1>10, AppendProperties, LenProperties
  <2>3. \A i \in DOMAIN Q' :
           \/ i = Len(Q) + 1 /\ Q'[i].nid = y
           \/ i \in DOMAIN Q /\ i # Len(Q) + 1 /\ Q'[i] = Q[i] /\ Q[i].nid \in Queued(Q)
    BY <2>2 DEF Queued
  <2>4. ASSUME NEW u \in Range(visited), NEW v \in Queued(Q')
        PROVE  Nearer(u, v)
    <3>1. v = y \/ v \in Queued(Q)
      BY <2>3, <2>4 DEF Queued
    <3> QED
      BY <1>7, <2>1, <2>4, <3>1
  <2>5. ASSUME NEW i \in DOMAIN Q', NEW j \in DOMAIN Q', i <= j
        PROVE  Nearer(Q'[i].nid, Q'[j].nid)
    <3>1. CASE j = Len(Q) + 1
      <4>1. CASE i = j
        BY <4>1, NearerSelf
      <4>2. CASE i # j
        BY <2>1, <2>3, <3>1, <4>2
      <4> QED
        BY <4>1, <4>2
    <3>2. CASE j # Len(Q) + 1
      <4>1. i # Len(Q) + 1
        BY <2>2, <2>5, <3>2
      <4> QED
        BY <1>7, <2>3, <2>5, <3>2, <4>1
    <3> QED
      BY <3>1, <3>2
  <2>6. \A i, j \in DOMAIN visited' : i <= j => Nearer(visited[i], visited[j])'
    BY <1>1, <1>7, SameEdges DEF Nearer, Near
  <2>7. \A u \in Range(visited') : \A v \in Queued(Q') : Nearer(u, v)'
    BY <1>1, <1>8, <2>4
  <2>8. \A i, j \in DOMAIN Q' : i <= j => Nearer(Q[i].nid, Q[j].nid)'
    BY <1>1, <2>5, SameEdges DEF Nearer, Near
  <2> QED
    BY <2>6, <2>7, <2>8 DEF NearestFirst
<1> QED
  BY <1>6, <1>9, <1>10

LEMMA NearestFirstStep ==
    ASSUME Typed, Phases, Accounted, Whole, Visits, Taking, Spreading, NearestFirst,
           [AnyNext]_samplerVars
    PROVE  NearestFirst'
<1>1. CASE UNCHANGED <<program, graph, start, type, visited, Q>>
  <2>1. Edges' = Edges
    BY <1>1, SameEdges
  <2> QED
    BY <1>1, <2>1 DEF NearestFirst, Nearer, Near
<1>2. CASE visited' = <<>> /\ Queued(Q') \subseteq {start'}
  <2>1. DOMAIN visited' = {} /\ Range(visited') = {}
    BY <1>2 DEF Range
  <2>2. \A i \in DOMAIN Q' : Q'[i].nid = start'
    BY <1>2 DEF Queued
  <2> QED
    BY <2>1, <2>2 DEF NearestFirst, Nearer
<1>3. CASE Filters
  BY <1>1, <1>3, FilterFacts DEF Settled
<1>4. ASSUME NEW ok \in BOOLEAN, Load(ok)
      PROVE  NearestFirst'
  BY <1>1, <1>4, LoadFacts DEF Settled
<1>5. ASSUME NEW s \in Nodes, Sample(s)
      PROVE  NearestFirst'
  <2>1. visited' = <<>> /\ Waiting' = {s} /\ start' = s
    BY <1>5, SampleFacts
  <2>2. Queued(Q') \subseteq {start'}
    BY <2>1 DEF Waiting
  <2> QED
    BY <1>2, <2>1, <2>2
<1>6. CASE Return
  BY <1>1, <1>6, ReturnFacts DEF Settled
<1>7. CASE Silent
  <2>1. CASE Initialized \/ PollIdle
    BY <1>1, <1>7, <2>1, RestFacts DEF Settled
  <2> QED
    BY <1>7, <2>1, PopKeepsOrder, PushKeepsOrder DEF Silent
<1>8. CASE End
  <2>1. visited' = <<>> /\ Waiting' = {}
    BY <1>8, EndFacts
  <2>2. Queued(Q') \subseteq {start'}
    BY <2>1 DEF Waiting
  <2> QED
    BY <1>2, <2>1, <2>2
<1>9. CASE Grow
  <2>1. method = "none" /\ UNCHANGED <<visited, Q>>
    BY <1>9, GrowFacts DEF Grow
  <2>2. visited = <<>> /\ Queued(Q) = {}
    BY <2>1 DEF Whole, Between, Waiting
  <2>3. Queued(Q') = {}
    BY <2>1, <2>2 DEF Queued
  <2> QED
    BY <1>2, <2>1, <2>2, <2>3
<1>10. CASE UNCHANGED samplerVars
  <2>1. UNCHANGED <<program, graph, start, type, visited, Q>>
    BY <1>10 DEF samplerVars, setting, block, vars
  <2> QED
    BY <1>1, <2>1
<1> QED
  BY <1>3, <1>4, <1>5, <1>6, <1>7, <1>8, <1>9, <1>10
     DEF AnyNext, SamplerNext, Run, Filters

LEMMA FirstIsNearest ==
    ASSUME Typed, Phases, Accounted, Whole, Visits, Taking, Spreading, NearestFirst
    PROVE  SubgraphIsNearest
<1> SUFFICES ASSUME program = Subgraph, type = FIFO, at = "finish",
                    NEW d \in 0 .. Cardinality(Nodes),
                    NEW u \in selected, u \notin Near(d)
             PROVE  Near(d) \subseteq selected
  BY DEF SubgraphIsNearest
<1>1. d \in Nat
  BY FiniteAssumption, FS_CardinalityType
<1>2. method = "sample" /\ verdict = "none" /\ pending = <<>> /\ dedup
  BY DEF Phases, Visits, Subgraph, Node
<1>3. Sampled = selected
  BY <1>2 DEF Sampled, Decided
<1>4. /\ Len(visited) \in Nat /\ DOMAIN visited = 1 .. Len(visited)
      /\ Ran = Len(visited) /\ K[Subgraph] \in Nat
  BY <1>2, LenProperties, LimitsAssumption
     DEF Ran, Typed, TypeOK, GuestTypeOK, Subgraph, Data
<1>5. PICK j \in 1 .. Len(visited) : j <= K[Subgraph] /\ u = visited[j]
  BY <1>3, <1>4 DEF Taking
<1>6. Q = <<>> /\ Met = Range(visited)
  <2>1. visited # <<>>
    BY <1>4, <1>5
  <2>2. Q = <<>>
    BY <2>1 DEF Visits
  <2> QED
    BY <1>2, <2>2 DEF Met, Waiting, Queued, Range
<1>7. Near(0) \subseteq selected
  <2>1. start \in selected
    BY DEF Whole, OnePiece
  <2> QED
    BY <2>1, BallZero DEF Near
<1>8. ASSUME NEW w \in selected, NEW v \in Nodes, v \in Near(d), <<w, v>> \in Edges
      PROVE  v \in selected
  <2>1. v \in Range(visited)
    BY <1>3, <1>6, <1>8 DEF Spreading, Edges
  <2>2. PICK i \in 1 .. Len(visited) : v = visited[i]
    BY <1>4, <2>1 DEF Range
  <2>3. ~(j <= i)
    <3>1. j <= i => Nearer(u, v)
      BY <1>4, <1>5, <2>2 DEF NearestFirst
    <3> QED
      BY <1>1, <1>8, <3>1 DEF Nearer
  <2> QED
    BY <1>3, <1>4, <1>5, <2>2, <2>3 DEF Taking
<1> QED
  BY <1>1, <1>7, <1>8, Frontier

\* With a FIFO queue the sample of subgraph_wise is made of the nodes nearest to its
\* start: a ball around the start is inside the sample or has the sample inside it.
THEOREM SubgraphsAreNearest == SamplerSpec \/ RandomSpec => []SubgraphIsNearest
<1>1. SamplerInit \/ RandomInit => NearestFirst
  <2> SUFFICES ASSUME SamplerInit \/ RandomInit
               PROVE  NearestFirst
    OBVIOUS
  <2>1. visited = <<>> /\ Q = <<>>
    BY DEF SamplerInit, RandomInit, Init
  <2> QED
    BY <2>1 DEF NearestFirst, Range, Queued
<1>2. Layered => Phases
  BY DEF Layered
<1>3. Typed /\ Phases /\ (Accounted /\ Visits) /\ Whole /\ (Taking /\ Spreading)
         /\ NearestFirst /\ [AnyNext]_samplerVars => NearestFirst'
  BY NearestFirstStep
<1>4. Typed /\ Phases /\ (Accounted /\ Visits) /\ Whole /\ (Taking /\ Spreading)
         /\ NearestFirst => SubgraphIsNearest
  BY FirstIsNearest
<1> QED
  BY <1>1, <1>2, <1>3, <1>4, ProgramsRun, ProgramTyped, ProgramLayered, ProgramWhole,
     ProgramVisits, ProgramTaking, PTL DEF ProgramSpec

-----------------------------------------------------------------------------
(* layer_wise fills its layers.                                             *)

\* The nodes of S in layer d.
InLayer(S, f, d) == {v \in S : f[v] = d}

\* The nodes whose filter() has decided.
Judged == {visited[i] : i \in 1 .. Ran}

\* Every layer counts its nodes that were judged, and has taken the first K of them;
\* what is known is judged or still to come.
Filled ==
    program = Layer =>
        /\ Judged \subseteq DOMAIN vis
        /\ Sampled \subseteq Judged
        /\ DOMAIN vis \subseteq Met
        /\ \A d \in 0 .. MaxDepth :
              /\ vis # NoVisits => layer_count[d] = Cardinality(InLayer(Judged, vis, d))
              /\ Cardinality(InLayer(Sampled, vis, d)) =
                    Min({K[Layer], Cardinality(InLayer(Judged, vis, d))})

\* f and g put the nodes of S into the same layers.
SameLayers(S, f, g) == \A v \in S : g[v] = f[v]

LEMMA LayerStays ==
    ASSUME NEW S, NEW f, NEW g, SameLayers(S, f, g), NEW d
    PROVE  InLayer(S, g, d) = InLayer(S, f, d)
BY DEF InLayer, SameLayers

LEMMA LayerCounts ==
    ASSUME NEW S, IsFiniteSet(S), NEW f, NEW d
    PROVE  IsFiniteSet(InLayer(S, f, d)) /\ Cardinality(InLayer(S, f, d)) \in Nat
<1>1. InLayer(S, f, d) \in SUBSET S
  BY DEF InLayer
<1> QED
  BY <1>1, FS_Subset, FS_CardinalityType

\* One more node.
LEMMA LayerGains ==
    ASSUME NEW S, IsFiniteSet(S), NEW f, NEW g, NEW c, c \notin S,
           SameLayers(S, f, g), NEW d
    PROVE  Cardinality(InLayer(S \cup {c}, g, d)) =
              Cardinality(InLayer(S, f, d)) + IF g[c] = d THEN 1 ELSE 0
<1> DEFINE X == InLayer(S, f, d)
<1>1. IsFiniteSet(X) /\ Cardinality(X) \in Nat /\ c \notin X
  <2>1. IsFiniteSet(X) /\ Cardinality(X) \in Nat
    BY LayerCounts
  <2>2. c \notin X
    BY DEF InLayer
  <2> QED
    BY <2>1, <2>2
<1>2. CASE g[c] = d
  <2>1. InLayer(S \cup {c}, g, d) = X \cup {c}
    BY <1>2 DEF InLayer, SameLayers
  <2> HIDE DEF X
  <2>2. Cardinality(X \cup {c}) = Cardinality(X) + 1
    BY <1>1, FS_AddElement
  <2> QED
    BY <1>2, <2>1, <2>2 DEF X
<1>3. CASE g[c] # d
  <2>1. InLayer(S \cup {c}, g, d) = X
    BY <1>3 DEF InLayer, SameLayers
  <2> HIDE DEF X
  <2> QED
    BY <1>1, <1>3, <2>1 DEF X
<1> QED
  BY <1>2, <1>3

\* What a filter() of layer_wise decides, and that what it admits waits afterwards.
LEMMA LayerFilters ==
    ASSUME Typed, Filters, program = Layer
    PROVE  /\ layer_count' = Counted
           /\ verdict' = IF LayerFull(Counted[Known[cur]]) THEN "no" ELSE "yes"
           /\ \A v \in DOMAIN Known : v \in DOMAIN vis' /\ vis'[v] = Known[v]
           /\ DOMAIN vis' \subseteq DOMAIN Known \cup Waiting'
<1>1. FilterLayer /\ at = "filter"
  BY DEF Filters, FilterLayer, FilterNode, FilterSubgraph, FilterData, Filtering, Node,
         Layer, Subgraph, Data
<1>2. CASE LayerFull(Counted[Known[cur]]) /\ vis' = Known /\ Leaf("no")
  BY <1>1, <1>2 DEF FilterLayer, Leaf
<1>3. CASE ~LayerFull(Counted[Known[cur]]) /\ ExtendLayer("yes")
  <2>1. PICK kept \in Kept(graph[cur]) :
           /\ vis' = KnownWith(kept)
           /\ IF graph[cur] = <<>> THEN Leaf("yes")
              ELSE \E entries \in Prioritised(kept) : Extend(entries, "yes")
    BY <1>3 DEF ExtendLayer
  <2>2. /\ kept \in Seq(Nodes)
        /\ \A v \in Range(kept) : v \in Range(graph[cur]) /\ Admits(v)
    BY <1>1, KeptFrom, NeighboursTyped
  <2>3. \A v \in Range(kept) : v \in Nodes /\ Depth(v) <= MaxDepth
    BY <2>2, LenProperties DEF Range, Admits
  <2>4. /\ DOMAIN vis' = DOMAIN Known \cup Range(kept)
        /\ \A v \in DOMAIN vis' : vis'[v] = Depth(v)
    BY <1>1, <2>1, <2>3, KnownWithType
  <2>5. \A v \in DOMAIN Known : v \in DOMAIN vis' /\ vis'[v] = Known[v]
    BY <2>4 DEF Depth
  <2>6. verdict' = "yes"
    BY <2>1 DEF Leaf, Extend
  <2>7. Range(kept) \subseteq Waiting'
    <3>1. CASE graph[cur] = <<>>
      <4>1. Range(graph[cur]) = {}
        BY <3>1 DEF Range
      <4> QED
        BY <2>2, <4>1
    <3>2. ASSUME NEW entries \in Prioritised(kept), Extend(entries, "yes")
          PROVE  Range(kept) \subseteq Waiting'
      <4>1. pending' = entries
        BY <3>2 DEF Extend, ExtendNode
      <4>2. \A v \in Range(kept) : \E e \in Range(entries) : e.nid = v
        BY <2>2, PrioritisedCovers
      <4> QED
        BY <4>1, <4>2 DEF Waiting
    <3> QED
      BY <2>1, <3>1, <3>2
  <2> QED
    BY <1>1, <1>3, <2>4, <2>5, <2>6, <2>7 DEF FilterLayer
<1> QED
  BY <1>1, <1>2, <1>3 DEF FilterLayer

LEMMA EmptyLayers ==
    ASSUME Layer \in Programs, NEW f, NEW d
    PROVE  Cardinality(InLayer({}, f, d)) = 0 /\ Min({K[Layer], 0}) = 0
<1>1. InLayer({}, f, d) = {}
  BY DEF InLayer
<1>2. K[Layer] \in Nat \ {0}
  BY LimitsAssumption DEF Layer, Data
<1>3. Min({K[Layer], 0}) = 0
  BY <1>2, SmallerOfTwo
<1> QED
  BY <1>1, <1>3, FS_EmptySet

LEMMA StillFilled ==
    ASSUME Filled, program' = program, vis' = vis, layer_count' = layer_count,
           Judged' = Judged, Sampled' = Sampled, Met \subseteq Met'
    PROVE  Filled'
BY DEF Filled

LEMMA JudgedFacts ==
    ASSUME Typed
    PROVE  IsFiniteSet(Judged) /\ Judged \subseteq Range(visited)
<1>1. /\ Len(visited) \in Nat /\ DOMAIN visited = 1 .. Len(visited)
      /\ Range(visited) \subseteq Nodes
  BY LenProperties DEF Typed, TypeOK, Range
<1>2. \A i \in 1 .. Ran : i \in DOMAIN visited
  BY <1>1 DEF Ran
<1> HIDE DEF Ran
<1>3. Judged \subseteq Range(visited)
  BY <1>2 DEF Judged, Range
<1>4. Judged \in SUBSET Nodes
  BY <1>1, <1>3
<1> QED
  BY <1>3, <1>4, FiniteAssumption, FS_Subset

LEMMA FilterFills ==
    ASSUME Typed, Layered, Accounted, Visits, Filled, Filters
    PROVE  Filled'
<1> SUFFICES ASSUME program' = Layer
             PROVE  Filled'
  BY DEF Filled
<1>1. /\ at = "filter" /\ verdict = "none" /\ verdict' \in {"yes", "no"}
      /\ UNCHANGED <<program, at, cur, visited>>
      /\ Sampled' = IF verdict' = "yes" THEN Sampled \cup {cur} ELSE Sampled
  BY FilterFacts DEF Settled, Layered
<1>2. /\ layer_count' = Counted
      /\ verdict' = IF LayerFull(Counted[Known[cur]]) THEN "no" ELSE "yes"
      /\ \A v \in DOMAIN Known : v \in DOMAIN vis' /\ vis'[v] = Known[v]
      /\ DOMAIN vis' \subseteq DOMAIN Known \cup Waiting'
  BY <1>1, LayerFilters
<1>3. /\ DOMAIN Known = DOMAIN vis \cup {cur}
      /\ \A v \in DOMAIN vis : Known[v] = vis[v]
      /\ cur \in DOMAIN Known /\ Known[cur] \in 0 .. MaxDepth
  BY <1>1, KnownType
<1>4. /\ Len(visited) \in Nat /\ DOMAIN visited = 1 .. Len(visited)
      /\ K[Layer] \in Nat \ {0}
  BY <1>1, LenProperties, LimitsAssumption
     DEF Typed, TypeOK, GuestTypeOK, Layer, Data
<1>5. Len(visited) \in DOMAIN visited /\ visited[Len(visited)] = cur
  <2>1. Len(visited) # 0
    BY <1>1, <1>4, EmptySeq DEF Visits, Typed, TypeOK
  <2> QED
    BY <1>1, <1>4, <2>1 DEF Visits
<1>6. Ran = Len(visited) - 1 /\ Ran' = Len(visited)
  BY <1>1 DEF Ran, Visits
<1>7. Judged' = Judged \cup {cur}
  <2> HIDE DEF Ran
  <2>0. Len(visited) \in Nat /\ Len(visited) >= 1
    BY <1>4, <1>5
  <2>1. \A i \in 1 .. Ran' : i \in 1 .. Ran \/ i = Len(visited)
    BY <1>6, <2>0
  <2>2. 1 .. Ran \subseteq 1 .. Ran' /\ Len(visited) \in 1 .. Ran'
    BY <1>6, <2>0
  <2>3. Judged' = {visited[i] : i \in 1 .. Ran'}
    BY <1>1 DEF Judged
  <2> QED
    BY <1>5, <2>1, <2>2, <2>3 DEF Judged
<1>8. cur \notin Judged
  <2>1. IsInjective(visited)
    BY <1>1 DEF Accounted, VisitedOnce, Visits, Layer, Node
  <2> HIDE DEF Ran
  <2>0. Len(visited) \in Nat /\ DOMAIN visited = 1 .. Len(visited)
    BY <1>4
  <2>2. \A i \in 1 .. Ran : i \in DOMAIN visited /\ i # Len(visited)
    BY <1>6, <2>0
  <2> QED
    BY <1>5, <2>1, <2>2 DEF Judged, IsInjective
<1>9. /\ Judged \subseteq DOMAIN vis /\ Sampled \subseteq Judged /\ DOMAIN vis \subseteq Met
      /\ \A d \in 0 .. MaxDepth :
            /\ vis # NoVisits => layer_count[d] = Cardinality(InLayer(Judged, vis, d))
            /\ Cardinality(InLayer(Sampled, vis, d)) =
                  Min({K[Layer], Cardinality(InLayer(Judged, vis, d))})
  BY <1>1 DEF Filled
<1>10. IsFiniteSet(Judged) /\ IsFiniteSet(Sampled)
  <2>1. IsFiniteSet(Judged)
    BY JudgedFacts
  <2>2. Sampled \in SUBSET Judged
    BY <1>9
  <2> QED
    BY <2>1, <2>2, FS_Subset
<1>11. \A v \in Judged : vis'[v] = vis[v]
  BY <1>2, <1>3, <1>9
<1>12. \A v \in Sampled : vis'[v] = vis[v]
  BY <1>9, <1>11
<1>13. vis'[cur] = Known[cur] /\ vis' # NoVisits
  BY <1>2, <1>3 DEF NoVisits
<1> HIDE DEF Judged, Sampled, Ran
<1> DEFINE grown == vis'
<1>14. /\ \A v \in Judged : grown[v] = vis[v]
      /\ \A v \in Sampled : grown[v] = vis[v]
      /\ grown[cur] = Known[cur]
  BY <1>11, <1>12, <1>13
<1> HIDE DEF grown
<1>15. ASSUME NEW d
      PROVE  Cardinality(InLayer(Judged \cup {cur}, grown, d)) =
                Cardinality(InLayer(Judged, vis, d)) + IF grown[cur] = d THEN 1 ELSE 0
  <2>1. IsFiniteSet(Judged) /\ SameLayers(Judged, vis, grown)
    BY <1>10, <1>14 DEF SameLayers
  <2> QED
    BY <1>8, <2>1, LayerGains
<1>16. ASSUME NEW d
      PROVE  Cardinality(InLayer(Sampled \cup {cur}, grown, d)) =
                Cardinality(InLayer(Sampled, vis, d)) + IF grown[cur] = d THEN 1 ELSE 0
  <2>1. cur \notin Sampled
    BY <1>8, <1>9
  <2>2. IsFiniteSet(Sampled) /\ SameLayers(Sampled, vis, grown)
    BY <1>10, <1>14 DEF SameLayers
  <2> QED
    BY <2>1, <2>2, LayerGains
<1>17. ASSUME NEW d \in 0 .. MaxDepth
       PROVE  Counted[d] = Cardinality(InLayer(Judged', vis', d))
  <2> DEFINE before == IF vis = NoVisits THEN NoLayers ELSE layer_count
  <2>1. before \in [0 .. MaxDepth -> Nat]
    BY DEF NoLayers, Typed, GuestTypeOK
  <2>2. Counted = [before EXCEPT ![Known[cur]] = @ + 1]
    BY DEF Counted
  <2>3. before[d] = Cardinality(InLayer(Judged, vis, d))
    <3>1. CASE vis = NoVisits
      <4>1. Judged = {}
        BY <1>9, <3>1 DEF NoVisits
      <4>2. InLayer(Judged, vis, d) = {}
        BY <4>1 DEF InLayer
      <4> QED
        BY <3>1, <4>2, FS_EmptySet DEF NoLayers
    <3>2. CASE vis # NoVisits
      BY <1>9, <3>2
    <3> QED
      BY <3>1, <3>2
  <2> HIDE DEF before
  <2>4. Counted[d] = before[d] + IF Known[cur] = d THEN 1 ELSE 0
    BY <1>3, <2>1, <2>2
  <2>5. Cardinality(InLayer(Judged \cup {cur}, vis', d)) =
           Cardinality(InLayer(Judged, vis, d)) + IF vis'[cur] = d THEN 1 ELSE 0
    BY <1>15 DEF grown
  <2> QED
    BY <1>7, <1>13, <2>3, <2>4, <2>5
<1>18. ASSUME NEW d \in 0 .. MaxDepth
       PROVE  Cardinality(InLayer(Sampled', vis', d)) =
                 Min({K[Layer], Cardinality(InLayer(Judged', vis', d))})
  <2> DEFINE m == Cardinality(InLayer(Sampled, vis, d))
             c == Cardinality(InLayer(Judged, vis, d))
  <2>1. m \in Nat /\ c \in Nat /\ m = Min({K[Layer], c})
    BY <1>9, <1>10, LayerCounts
  <2>2. Cardinality(InLayer(Judged', vis', d)) = c + IF Known[cur] = d THEN 1 ELSE 0
    <3>1. Cardinality(InLayer(Judged \cup {cur}, vis', d)) =
             c + IF vis'[cur] = d THEN 1 ELSE 0
      BY <1>15 DEF grown
    <3> QED
      BY <1>7, <1>13, <3>1
  <2>3. verdict' = "yes" =>
           Cardinality(InLayer(Sampled', vis', d)) = m + IF Known[cur] = d THEN 1 ELSE 0
    <3>1. Cardinality(InLayer(Sampled \cup {cur}, vis', d)) =
             m + IF vis'[cur] = d THEN 1 ELSE 0
      BY <1>16 DEF grown
    <3> QED
      BY <1>1, <1>13, <3>1
  <2>4. verdict' # "yes" => Cardinality(InLayer(Sampled', vis', d)) = m
    BY <1>1, <1>12, LayerStays DEF SameLayers
  <2>5. Known[cur] = d => Counted[Known[cur]] = c + 1
    BY <1>17, <2>2
  <2> HIDE DEF m, c
  <2>6. m = IF K[Layer] <= c THEN K[Layer] ELSE c
    BY <1>4, <2>1, SmallerOfTwo
  <2>7. CASE Known[cur] # d
    BY <2>1, <2>2, <2>3, <2>4, <2>7
  <2>8. CASE Known[cur] = d
    <3>1. Min({K[Layer], c + 1}) = IF K[Layer] <= c + 1 THEN K[Layer] ELSE c + 1
      BY <1>4, <2>1, SmallerOfTwo
    <3>2. verdict' = IF c + 1 > K[Layer] THEN "no" ELSE "yes"
      BY <1>2, <2>5, <2>8 DEF LayerFull
    <3>3. K[Layer] \in Nat
      BY <1>4
    <3>4. Cardinality(InLayer(Judged', vis', d)) = c + 1
      BY <2>2, <2>8
    <3>5. CASE c + 1 > K[Layer]
      <4>1. Cardinality(InLayer(Sampled', vis', d)) = m
        BY <2>4, <3>2, <3>5
      <4> QED
        BY <2>1, <2>6, <3>1, <3>3, <3>4, <3>5, <4>1
    <3>6. CASE ~(c + 1 > K[Layer])
      <4>1. Cardinality(InLayer(Sampled', vis', d)) = m + 1
        BY <2>3, <2>8, <3>2, <3>6
      <4> QED
        BY <2>1, <2>6, <3>1, <3>3, <3>4, <3>6, <4>1
    <3> QED
      BY <3>5, <3>6
  <2> QED
    BY <2>7, <2>8
<1>19. Judged' \subseteq DOMAIN vis' /\ Sampled' \subseteq Judged'
  BY <1>1, <1>2, <1>3, <1>7, <1>9
<1>20. DOMAIN vis' \subseteq Met'
  <2>1. Met \subseteq Met' /\ Waiting' \subseteq Met'
    BY FilterShapes, OfferedMeets DEF FilterShape, Met
  <2>2. cur \in Met
    BY <1>5 DEF Met, Range
  <2> QED
    BY <1>2, <1>3, <1>9, <2>1, <2>2
<1> QED
  BY <1>2, <1>13, <1>17, <1>18, <1>19, <1>20 DEF Filled

LEMMA FilledStep ==
    ASSUME Typed, Layered, Accounted, Whole, Visits, Filled, [AnyNext]_samplerVars
    PROVE  Filled'
<1>0. Phases /\ Len(visited) \in Nat
  BY LenProperties DEF Layered, Typed, TypeOK
<1>1. CASE Filters
  BY <1>1, FilterFills
<1>2. CASE /\ program' = program /\ visited' = <<>> /\ Sampled' = {}
           /\ program = Layer => vis' = NoVisits
  <2> SUFFICES ASSUME program' = Layer
               PROVE  Filled'
    BY DEF Filled
  <2>1. Layer \in Programs
    BY <1>2 DEF Typed, GuestTypeOK
  <2>2. Judged' = {}
    <3>1. Ran' = 0 \/ Ran' = -1
      BY <1>2 DEF Ran
    <3>2. 1 .. Ran' = {}
      BY <3>1
    <3> HIDE DEF Ran
    <3> QED
      BY <3>2 DEF Judged
  <2>3. vis' = NoVisits /\ DOMAIN vis' = {}
    BY <1>2 DEF NoVisits
  <2>4. \A d : /\ Cardinality(InLayer(Judged', vis', d)) = 0
               /\ Cardinality(InLayer(Sampled', vis', d)) = 0
               /\ Min({K[Layer], 0}) = 0
    BY <1>2, <2>1, <2>2, EmptyLayers
  <2> QED
    BY <1>2, <2>2, <2>3, <2>4 DEF Filled
<1>3. ASSUME NEW ok \in BOOLEAN, Load(ok)
      PROVE  Filled'
  <2>1. /\ method = "none" /\ vis' = NoVisits /\ verdict' = "none"
        /\ UNCHANGED <<program, selected, visited>>
    BY <1>0, <1>3, LoadFacts DEF Settled
  <2> QED
    BY <1>2, <2>1 DEF Whole, Between, Sampled, Decided
<1>4. ASSUME NEW s \in Nodes, Sample(s)
      PROVE  Filled'
  <2>1. /\ method = "none" /\ vis' = vis /\ Sampled' = {}
        /\ visited' = <<>> /\ program' = program
    BY <1>0, <1>4, SampleFacts DEF Remembered
  <2> QED
    BY <1>2, <2>1 DEF Layered, ClearedBetween
<1>5. CASE Return
  <2>1. /\ at = "filter" /\ verdict # "none" /\ at' # "filter"
        /\ UNCHANGED <<program, vis, layer_count, visited>>
        /\ Sampled' = Sampled /\ Waiting' = Waiting
    BY <1>0, <1>5, ReturnFacts DEF Settled, Remembered
  <2>2. Ran' = Ran
    BY <2>1 DEF Ran
  <2>3. Judged' = Judged /\ Met' = Met
    BY <2>1, <2>2 DEF Judged, Met
  <2> QED
    BY <2>1, <2>3, StillFilled
<1>6. CASE Silent
  <2>1. CASE PollPop
    <3>1. /\ at = "poll" /\ at' = "filter" /\ verdict' = "none"
          /\ UNCHANGED <<program, vis, layer_count>> /\ Sampled' = Sampled
      BY <1>0, <1>6, <2>1, PopFacts DEF Settled, Remembered
    <3>2. /\ Len(visited') = Len(visited) + 1
          /\ \A i \in 1 .. Len(visited) : visited'[i] = visited[i]
          /\ Met' = Met
      BY <1>0, <1>6, <2>1, PopMeets
    <3>3. Ran' = Ran /\ Ran = Len(visited)
      BY <1>0, <3>1, <3>2 DEF Ran
    <3> HIDE DEF Ran
    <3>4. Judged' = Judged
      BY <3>2, <3>3 DEF Judged
    <3> QED
      BY <3>1, <3>2, <3>4, StillFilled
  <2>2. CASE ExtendStep
    <3>1. /\ UNCHANGED <<program, vis, layer_count, verdict, at, visited>>
          /\ Sampled' = Sampled
      BY <1>0, <1>6, <2>2, PushFacts DEF Settled, Remembered
    <3>2. Ran' = Ran
      BY <3>1 DEF Ran
    <3>3. Judged' = Judged
      BY <3>1, <3>2 DEF Judged
    <3> QED
      BY <2>2, <3>1, <3>3, StillFilled, PushMeets
  <2>3. CASE Initialized \/ PollIdle
    <3>1. /\ at # "filter" /\ at' # "filter" /\ Sampled' = Sampled
          /\ UNCHANGED <<program, vis, layer_count, visited>> /\ Waiting' = Waiting
      BY <1>0, <1>6, <2>3, RestFacts DEF Settled, Remembered
    <3>2. Ran' = Ran
      BY <3>1 DEF Ran
    <3>3. Judged' = Judged /\ Met' = Met
      BY <3>1, <3>2 DEF Judged, Met
    <3> QED
      BY <3>1, <3>3, StillFilled
  <2> QED
    BY <1>6, <2>1, <2>2, <2>3 DEF Silent
<1>7. CASE End
  <2>1. /\ visited' = <<>> /\ Sampled' = {} /\ program' = program
        /\ wasm => vis' = NoVisits
        /\ ~wasm => vis' = vis
    BY <1>0, <1>7, EndFacts DEF Settled
  <2> QED
    BY <1>2, <2>1 DEF Layered, ClearedBetween
<1>8. CASE Grow \/ UNCHANGED samplerVars
  <2>1. /\ UNCHANGED <<program, vis, layer_count, verdict, at, visited>>
        /\ Sampled' = Sampled /\ Waiting' = Waiting
    BY <1>8, GrowFacts DEF Remembered
  <2>2. Ran' = Ran
    BY <2>1 DEF Ran
  <2>3. Judged' = Judged /\ Met' = Met
    BY <2>1, <2>2 DEF Judged, Met
  <2> QED
    BY <2>1, <2>3, StillFilled
<1> QED
  BY <1>1, <1>3, <1>4, <1>5, <1>6, <1>7, <1>8
     DEF AnyNext, SamplerNext, Run, Filters

\* At the end of a sample every node that is known is judged.
LEMMA FilledLayers ==
    ASSUME Typed, Layered, Visits, Filled
    PROVE  LayersAreFull
<1> SUFFICES ASSUME program = Layer, at = "finish", NEW d \in 0 .. MaxDepth
             PROVE  LET layer == {v \in DOMAIN vis : vis[v] = d}
                    IN  Cardinality(layer \cap selected) = Min({K[Layer], Cardinality(layer)})
  BY DEF LayersAreFull
<1>1. verdict = "none" /\ pending = <<>> /\ Len(visited) \in Nat
  BY LenProperties DEF Layered, Phases, Typed, TypeOK
<1>2. Sampled = selected
  BY <1>1 DEF Sampled, Decided
<1>3. Ran = Len(visited) /\ DOMAIN visited = 1 .. Len(visited)
  BY <1>1, LenProperties DEF Ran, Typed, TypeOK
<1>4. Judged = Range(visited)
  <2> HIDE DEF Ran
  <2> QED
    BY <1>3 DEF Judged, Range
<1>5. DOMAIN vis = Judged
  <2>1. CASE wasm
    <3>1. Met = Range(visited)
      BY <1>1, <2>1 DEF Visits, Met, Waiting, Queued, Range
    <3> QED
      BY <1>4, <3>1 DEF Filled
  <2>2. CASE ~wasm
    BY <1>4, <2>2 DEF Filled, Layered, ClearedBetween, NoVisits
  <2> QED
    BY <2>1, <2>2
<1>6. /\ {v \in DOMAIN vis : vis[v] = d} = InLayer(Judged, vis, d)
      /\ {v \in DOMAIN vis : vis[v] = d} \cap selected = InLayer(Sampled, vis, d)
  BY <1>2, <1>5 DEF InLayer, Filled
<1> QED
  BY <1>6 DEF Filled

\* Every layer of a sample of layer_wise is full: it has K nodes, or all that were found.
THEOREM LayersFillUp == SamplerSpec \/ RandomSpec => []LayersAreFull
<1>1. SamplerInit \/ RandomInit => Filled
  <2> SUFFICES ASSUME SamplerInit \/ RandomInit
               PROVE  Filled
    OBVIOUS
  <2>1. /\ visited = <<>> /\ vis = NoVisits /\ selected = {} /\ verdict = "none"
        /\ program \in Programs
    BY DEF SamplerInit, RandomInit, Init
  <2>2. Judged = {} /\ Sampled = {}
    <3>1. 1 .. Ran = {}
      <4>1. Ran = 0 \/ Ran = -1
        BY <2>1 DEF Ran
      <4> QED
        BY <4>1
    <3> HIDE DEF Ran
    <3>2. Judged = {}
      BY <3>1 DEF Judged
    <3> QED
      BY <2>1, <3>2 DEF Sampled, Decided
  <2>3. program = Layer =>
           \A d : /\ Cardinality(InLayer(Judged, vis, d)) = 0
                  /\ Cardinality(InLayer(Sampled, vis, d)) = 0
                  /\ Min({K[Layer], 0}) = 0
    BY <2>1, <2>2, EmptyLayers
  <2>4. DOMAIN vis = {}
    BY <2>1 DEF NoVisits
  <2> QED
    BY <2>1, <2>2, <2>3, <2>4 DEF Filled
<1>2. Typed /\ Layered /\ Whole /\ (Accounted /\ Visits) /\ Filled
         /\ [AnyNext]_samplerVars => Filled'
  BY FilledStep
<1>3. Typed /\ Layered /\ (Accounted /\ Visits) /\ Filled => LayersAreFull
  BY FilledLayers
<1> QED
  BY <1>1, <1>2, <1>3, ProgramsRun, ProgramTyped, ProgramLayered, ProgramWhole,
     ProgramVisits, PTL DEF ProgramSpec

=============================================================================
