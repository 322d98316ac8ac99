------------------------ MODULE PlanContracts_proofs -------------------------
(***************************************************************************)
(* Theorems about plans, for every draft of the planner, every proposal    *)
(* and every set of findings: what the checks of the planner let through   *)
(* the bundle never refuses, nor what those of the replan let through      *)
(* unless a dependency is named twice, subtasks come after all they depend *)
(* on, a draft is refused for a cycle exactly if keys of it wait for each  *)
(* other, and more evidence opens no gap. The argument is one about        *)
(* rounds: what is placed grows until a round places nothing, and what is  *)
(* left then waits for itself. Least elements stand for induction          *)
(* throughout.                                                             *)
(***************************************************************************)
EXTENDS PlanContracts, FiniteSetTheorems, SequenceTheorems, WellFoundedInduction, TLAPS

---------------------------------------------------------------------------
(* Least elements, injections, enumerations *)

\* A set of naturals that is not empty has a least element.
LEMMA LeastNumberOf ==
  ASSUME NEW S \in SUBSET Nat, S # {}
  PROVE  \E m \in S : \A k \in S : m <= k
<1>1. PICK m \in S : \A k \in S : ~ (<<k, m>> \in OpToRel(<, Nat))
  BY WFMin, NatLessThanWellFounded
<1>2. \A k \in S : ~ (k < m)
  BY <1>1 DEF OpToRel
<1>3. \A k \in S : m <= k
  BY <1>2
<1> QED
  BY <1>3

\* A numbering without repetition numbers as many as there are numbers.
LEMMA NumberedOnce ==
  ASSUME NEW n \in Nat, NEW f, DOMAIN f = 1..n, f = [i \in 1..n |-> f[i]],
         \A i, j \in 1..n : i < j => f[i] # f[j]
  PROVE  LET S == {f[i] : i \in 1..n} IN IsFiniteSet(S) /\ Cardinality(S) = n
<1> DEFINE S == {f[i] : i \in 1..n}
<1>1. f \in [1..n -> S]
  BY Zenon
<1>2. \A i, j \in 1..n : f[i] = f[j] => i = j
  <2> SUFFICES ASSUME NEW i \in 1..n, NEW j \in 1..n, f[i] = f[j], i # j
               PROVE  FALSE
    OBVIOUS
  <2>1. i < j \/ j < i
    OBVIOUS
  <2> QED
    BY <2>1
<1>3. \A s \in S : \E i \in 1..n : f[i] = s
  OBVIOUS
<1> HIDE DEF S
<1>4. f \in Surjection(1..n, S) /\ f \in Injection(1..n, S)
  BY <1>1, <1>2, <1>3 DEF Surjection, Injection, IsInjective
<1>5. IsFiniteSet(1..n) /\ Cardinality(1..n) = n
  BY FS_Interval
<1>6. IsFiniteSet(S) /\ Cardinality(S) = n
  BY <1>4, <1>5, FS_Surjection
<1> QED
  BY <1>6 DEF S

\* Numbered without repetition by as many numbers as it has elements, a set is numbered whole.
LEMMA NumberedWhole ==
  ASSUME NEW S, IsFiniteSet(S), NEW f \in [1..Cardinality(S) -> S],
         \A i, j \in 1..Cardinality(S) : i < j => f[i] # f[j]
  PROVE  \A s \in S : \E i \in 1..Cardinality(S) : f[i] = s
<1> DEFINE n == Cardinality(S)
<1>1. n \in Nat
  BY FS_CardinalityType
<1>2. \A i, j \in 1..n : f[i] = f[j] => i = j
  <2> SUFFICES ASSUME NEW i \in 1..n, NEW j \in 1..n, f[i] = f[j], i # j
               PROVE  FALSE
    OBVIOUS
  <2>1. i < j \/ j < i
    BY <1>1
  <2> QED
    BY <2>1
<1>3. f \in Injection(1..n, S)
  BY <1>2 DEF Injection, IsInjective
<1>4. IsFiniteSet(1..n) /\ Cardinality(1..n) = n
  BY <1>1, FS_Interval
<1>5. f \in Surjection(1..n, S)
  BY <1>3, <1>4, FS_Injection
<1> QED
  BY <1>5 DEF Surjection

\* A finite set that is not empty has a last element in any strict order that compares all.
StrictOn(S, R) ==
    /\ \A s \in S : <<s, s>> \notin R
    /\ \A s, t \in S : s # t => <<s, t>> \in R \/ <<t, s>> \in R
    /\ \A s, t, u \in S : <<s, t>> \in R /\ <<t, u>> \in R => <<s, u>> \in R
LastOf(T, R, m) == m \in T /\ \A t \in T : t # m => <<t, m>> \in R
LEMMA SomeIsLast ==
  ASSUME NEW S, NEW R, StrictOn(S, R),
         NEW T \in SUBSET S, IsFiniteSet(T), T # {}
  PROVE  \E m : LastOf(T, R, m)
<1> DEFINE Fails(U) == U \in SUBSET S /\ IsFiniteSet(U) /\ U # {} /\ ~\E m : LastOf(U, R, m)
           Sizes == {n \in Nat : \E U : Fails(U) /\ Cardinality(U) = n}
<1> SUFFICES ASSUME Fails(T) PROVE FALSE
  OBVIOUS
<1>1. Cardinality(T) \in Sizes
  BY FS_CardinalityType
<1>2. PICK n \in Sizes : \A k \in Sizes : n <= k
  <2>1. Sizes \in SUBSET Nat /\ Sizes # {}
    BY <1>1
  <2> HIDE DEF Sizes
  <2> QED
    BY <2>1, LeastNumberOf
<1>3. PICK U : Fails(U) /\ Cardinality(U) = n
  OBVIOUS
<1>4. PICK x : x \in U
  BY <1>3
<1> DEFINE V == U \ {x}
<1>5. IsFiniteSet(V) /\ Cardinality(V) = n - 1
  BY <1>3, <1>4, FS_RemoveElement
<1>6. V # {}
  <2> SUFFICES ASSUME V = {} PROVE FALSE
    OBVIOUS
  <2>1. LastOf(U, R, x)
    BY <1>4 DEF LastOf
  <2> QED
    BY <2>1, <1>3
<1>7. ~Fails(V)
  <2> SUFFICES ASSUME Fails(V) PROVE FALSE
    OBVIOUS
  <2>1. n - 1 \in Nat
    BY <1>5, FS_CardinalityType
  <2>2. n - 1 \in Sizes
    BY <1>5, <2>1
  <2>3. n \in Nat
    OBVIOUS
  <2> HIDE DEF Sizes, Fails, V
  <2> QED
    BY <1>2, <2>2, <2>3
<1>8. PICK m : LastOf(V, R, m)
  BY <1>3, <1>5, <1>6, <1>7
<1>9. m \in V /\ m \in S /\ x \in S /\ m # x /\ U \subseteq S
  BY <1>3, <1>4, <1>8 DEF LastOf
<1>10. CASE <<x, m>> \in R
  <2>1. LastOf(U, R, m)
    BY <1>8, <1>9, <1>10 DEF LastOf
  <2> QED
    BY <2>1, <1>3
<1>11. CASE <<m, x>> \in R
  <2>1. \A t \in V : <<t, x>> \in R
    <3> TAKE t \in V
    <3>1. CASE t = m
      BY <3>1, <1>11
    <3>2. CASE t # m
      <4>1. <<t, m>> \in R /\ t \in S
        BY <3>2, <1>8, <1>9 DEF LastOf
      <4> QED
        BY <4>1, <1>9, <1>11 DEF StrictOn
    <3> QED
      BY <3>1, <3>2
  <2>2. LastOf(U, R, x)
    BY <1>4, <2>1 DEF LastOf
  <2> QED
    BY <2>2, <1>3
<1> QED
  BY <1>9, <1>10, <1>11 DEF StrictOn

\* A finite set can be listed in any strict order that compares all.
Listing(T, R, f) ==
    /\ f \in [1..Cardinality(T) -> T]
    /\ \A i, j \in 1..Cardinality(T) : i < j => <<f[i], f[j]>> \in R
LEMMA ListingExists ==
  ASSUME NEW S, NEW R, StrictOn(S, R),
         NEW T \in SUBSET S, IsFiniteSet(T)
  PROVE  \E f : Listing(T, R, f)
<1> DEFINE Fails(U) == U \in SUBSET S /\ IsFiniteSet(U) /\ ~\E f : Listing(U, R, f)
           Sizes == {n \in Nat : \E U : Fails(U) /\ Cardinality(U) = n}
<1> SUFFICES ASSUME Fails(T) PROVE FALSE
  OBVIOUS
<1>1. Cardinality(T) \in Sizes
  BY FS_CardinalityType
<1>2. PICK n \in Sizes : \A k \in Sizes : n <= k
  <2>1. Sizes \in SUBSET Nat /\ Sizes # {}
    BY <1>1
  <2> HIDE DEF Sizes
  <2> QED
    BY <2>1, LeastNumberOf
<1>3. PICK U : Fails(U) /\ Cardinality(U) = n
  OBVIOUS
<1>4. n \in Nat
  OBVIOUS
<1>5. U # {}
  <2> SUFFICES ASSUME U = {} PROVE FALSE
    OBVIOUS
  <2>1. Cardinality(U) = 0
    BY FS_EmptySet
  <2>2. Listing(U, R, [i \in 1..0 |-> i])
    BY <2>1 DEF Listing
  <2> QED
    BY <2>2, <1>3
<1>6. PICK m : LastOf(U, R, m)
  BY <1>3, <1>5, SomeIsLast
<1> DEFINE V == U \ {m}
<1>7. m \in U /\ IsFiniteSet(V) /\ Cardinality(V) = n - 1
  BY <1>3, <1>6, FS_RemoveElement DEF LastOf
<1>8. n - 1 \in Nat
  BY <1>7, FS_CardinalityType
<1>9. ~Fails(V)
  <2> SUFFICES ASSUME Fails(V) PROVE FALSE
    OBVIOUS
  <2>1. n - 1 \in Sizes
    BY <1>7, <1>8
  <2> HIDE DEF Sizes, Fails, V
  <2> QED
    BY <1>2, <2>1, <1>4
<1>10. PICK f : Listing(V, R, f)
  BY <1>3, <1>7, <1>9
<1> DEFINE g == [i \in 1..n |-> IF i = n THEN m ELSE f[i]]
<1>11. f \in [1..(n - 1) -> V] /\ \A i, j \in 1..(n - 1) : i < j => <<f[i], f[j]>> \in R
  BY <1>7, <1>10 DEF Listing
<1>12. g \in [1..n -> U]
  <2>1. \A i \in 1..n : (IF i = n THEN m ELSE f[i]) \in U
    <3> TAKE i \in 1..n
    <3>1. i # n => i \in 1..(n - 1)
      BY <1>4
    <3> QED
      BY <3>1, <1>7, <1>11
  <2> QED
    BY <2>1
<1>13. \A i, j \in 1..n : i < j => <<g[i], g[j]>> \in R
  <2> SUFFICES ASSUME NEW i \in 1..n, NEW j \in 1..n, i < j
               PROVE  <<g[i], g[j]>> \in R
    OBVIOUS
  <2>1. i \in 1..(n - 1) /\ g[i] = f[i] /\ f[i] \in V
    BY <1>4, <1>11
  <2>2. CASE j = n
    <3>1. g[j] = m /\ f[i] # m /\ f[i] \in U
      BY <2>1, <2>2
    <3> HIDE DEF g
    <3> QED
      BY <3>1, <2>1, <1>6 DEF LastOf
  <2>3. CASE j # n
    <3>1. j \in 1..(n - 1) /\ g[j] = f[j]
      BY <1>4, <2>3
    <3> HIDE DEF g
    <3> QED
      BY <3>1, <2>1, <1>11
  <2> QED
    BY <2>2, <2>3
<1> HIDE DEF g
<1>14. Listing(U, R, g)
  BY <1>3, <1>12, <1>13 DEF Listing
<1> QED
  BY <1>3, <1>14

---------------------------------------------------------------------------
(* The rounds in which subtasks are placed *)

Rounds(after, n, placed) ==
    placed = [m \in 0..n |-> IF m = 0 THEN {} ELSE {k \in DOMAIN after : after[k] \subseteq placed[m - 1]}]
LEMMA SomeRounds ==
  ASSUME NEW after, NEW n \in Nat
  PROVE  \E placed : Rounds(after, n, placed)
<1> DEFINE Bad == {m \in Nat : ~\E placed : Rounds(after, m, placed)}
<1> SUFFICES ASSUME Bad # {} PROVE FALSE
  OBVIOUS
<1>1. PICK b \in Bad : \A m \in Bad : b <= m
  <2>1. Bad \in SUBSET Nat
    OBVIOUS
  <2> HIDE DEF Bad
  <2> QED
    BY <2>1, LeastNumberOf
<1>2. b \in Nat /\ ~\E placed : Rounds(after, b, placed)
  OBVIOUS
<1>3. b # 0
  <2> SUFFICES ASSUME b = 0 PROVE FALSE
    OBVIOUS
  <2> DEFINE none == [m \in 0..0 |-> {}]
  <2>1. \A m \in 0..0 : m = 0
    OBVIOUS
  <2>2. Rounds(after, 0, none)
    BY <2>1, Zenon DEF Rounds
  <2> QED
    BY <1>2, <2>2
<1>4. b - 1 \in Nat /\ b - 1 \notin Bad
  BY <1>1, <1>2, <1>3
<1>5. PICK f : Rounds(after, b - 1, f)
  BY <1>4
<1> DEFINE g == [m \in 0..b |-> IF m = b THEN {k \in DOMAIN after : after[k] \subseteq f[b - 1]} ELSE f[m]]
<1>6. \A m \in 0..(b - 1) : f[m] = IF m = 0 THEN {} ELSE {k \in DOMAIN after : after[k] \subseteq f[m - 1]}
  BY <1>5 DEF Rounds
<1>7. \A m \in 0..b : g[m] = IF m = 0 THEN {} ELSE {k \in DOMAIN after : after[k] \subseteq g[m - 1]}
  <2> TAKE m \in 0..b
  <2>1. m # 0 => m - 1 \in 0..(b - 1) /\ m - 1 \in 0..b /\ g[m - 1] = f[m - 1]
    BY <1>2
  <2>2. CASE m = b
    <3>1. g[m] = {k \in DOMAIN after : after[k] \subseteq f[m - 1]}
      BY <2>2
    <3> HIDE DEF g
    <3> QED
      BY <3>1, <2>1, <2>2, <1>3
  <2>3. CASE m # b
    <3>1. m \in 0..(b - 1) /\ g[m] = f[m]
      BY <2>3, <1>2
    <3> HIDE DEF g
    <3> QED
      BY <3>1, <2>1, <1>6
  <2> QED
    BY <2>2, <2>3
<1>8. Rounds(after, b, g)
  <2>1. g = [m \in 0..b |-> g[m]]
    OBVIOUS
  <2> HIDE DEF g
  <2> QED
    BY <2>1, <1>7 DEF Rounds
<1> QED
  BY <1>2, <1>8

\* Nothing is placed at first, and then, round after round, what waits for nothing else.
LEMMA PlacedIs ==
  ASSUME NEW after, Cardinality(DOMAIN after) \in Nat
  PROVE  /\ DOMAIN Placed(after) = 0..Cardinality(DOMAIN after)
         /\ Placed(after)[0] = {}
         /\ \A n \in 1..Cardinality(DOMAIN after) :
                Placed(after)[n] = {k \in DOMAIN after : after[k] \subseteq Placed(after)[n - 1]}
<1> DEFINE N == Cardinality(DOMAIN after)
           R(placed) ==
             placed = [n \in 0..N |-> IF n = 0 THEN {} ELSE {k \in DOMAIN after : after[k] \subseteq placed[n - 1]}]
<1>1. Placed(after) = CHOOSE placed : R(placed)
  BY DEF Placed
<1>2. \A placed : R(placed) <=> Rounds(after, N, placed)
  BY DEF Rounds
<1>3. \E placed : R(placed)
  BY <1>2, SomeRounds
<1> HIDE DEF R
<1>4. R(CHOOSE placed : R(placed))
  BY <1>3
<1>5. Rounds(after, N, Placed(after))
  BY <1>1, <1>2, <1>4
<1> DEFINE P == Placed(after)
<1>6. P = [n \in 0..N |-> IF n = 0 THEN {} ELSE {k \in DOMAIN after : after[k] \subseteq P[n - 1]}]
  BY <1>5 DEF Rounds
<1> HIDE DEF P
<1>7. DOMAIN P = 0..N /\ \A n \in 0..N : P[n] = IF n = 0 THEN {} ELSE {k \in DOMAIN after : after[k] \subseteq P[n - 1]}
  BY <1>6
<1>8. \A n \in 1..N : n \in 0..N /\ n # 0
  OBVIOUS
<1> QED
  BY <1>7, <1>8 DEF P

\* What is placed stays placed.
LEMMA PlacedGrows ==
  ASSUME NEW after, Cardinality(DOMAIN after) \in Nat
  PROVE  \A m, n \in 0..Cardinality(DOMAIN after) : m <= n => Placed(after)[m] \subseteq Placed(after)[n]
<1> DEFINE N == Cardinality(DOMAIN after)
           P == Placed(after)
<1>1. /\ P[0] = {}
      /\ \A n \in 1..N : P[n] = {k \in DOMAIN after : after[k] \subseteq P[n - 1]}
  BY PlacedIs
<1> HIDE DEF P
<1>2. \A n \in 1..N : P[n - 1] \subseteq P[n]
  <2> DEFINE Bad == {n \in Nat : n \in 1..N /\ ~(P[n - 1] \subseteq P[n])}
  <2> SUFFICES ASSUME Bad # {} PROVE FALSE
    OBVIOUS
  <2>1. PICK b \in Bad : \A m \in Bad : b <= m
    <3>1. Bad \in SUBSET Nat
      OBVIOUS
    <3> HIDE DEF Bad
    <3> QED
      BY <3>1, LeastNumberOf
  <2>2. b \in Nat /\ b \in 1..N /\ ~(P[b - 1] \subseteq P[b])
    OBVIOUS
  <2>3. b # 1
    BY <1>1, <2>2
  <2>4. b - 1 \in 1..N /\ b - 1 \in Nat /\ b - 1 \notin Bad
    BY <2>1, <2>2, <2>3
  <2>5. P[(b - 1) - 1] \subseteq P[b - 1]
    BY <2>4
  <2> HIDE DEF Bad
  <2> QED
    BY <1>1, <2>2, <2>4, <2>5
<1> DEFINE Far == {d \in Nat : \E m \in 0..N : m + d \in 0..N /\ ~(P[m] \subseteq P[m + d])}
<1>3. Far = {}
  <2> SUFFICES ASSUME Far # {} PROVE FALSE
    OBVIOUS
  <2>1. PICK d \in Far : \A e \in Far : d <= e
    <3>1. Far \in SUBSET Nat
      OBVIOUS
    <3> HIDE DEF Far
    <3> QED
      BY <3>1, LeastNumberOf
  <2>2. PICK m \in 0..N : m + d \in 0..N /\ ~(P[m] \subseteq P[m + d])
    OBVIOUS
  <2>3. d \in Nat /\ d # 0
    <3>1. d \in Nat
      OBVIOUS
    <3>2. d # 0
      <4> SUFFICES ASSUME d = 0 PROVE FALSE
        OBVIOUS
      <4>1. m + d = m
        OBVIOUS
      <4> QED
        BY <4>1, <2>2
    <3> QED
      BY <3>1, <3>2
  <2>4. d - 1 \in Nat /\ m + (d - 1) \in 0..N /\ m + d \in 1..N /\ (m + d) - 1 = m + (d - 1)
    BY <2>2, <2>3
  <2>6. d - 1 \notin Far
    <3> HIDE DEF Far
    <3> QED
      BY <2>1, <2>3, <2>4
  <2>5. P[m] \subseteq P[m + (d - 1)]
    BY <2>4, <2>6
  <2> HIDE DEF Far
  <2> QED
    BY <1>2, <2>2, <2>4, <2>5
<1>4. SUFFICES ASSUME NEW m \in 0..N, NEW n \in 0..N, m <= n
               PROVE  P[m] \subseteq P[n]
  BY DEF P
<1>5. n - m \in Nat /\ m + (n - m) = n
  BY <1>4
<1>6. n - m \notin Far
  BY <1>3
<1> QED
  BY <1>5, <1>6

\* After as many rounds as there are subtasks, nothing more can be placed.
LEMMA PlacedIsAll ==
  ASSUME NEW after, IsFiniteSet(DOMAIN after), NEW k \in DOMAIN after,
         after[k] \subseteq Placed(after)[Cardinality(DOMAIN after)]
  PROVE  k \in Placed(after)[Cardinality(DOMAIN after)]
<1> DEFINE K == DOMAIN after
           N == Cardinality(K)
           P == Placed(after)
<1>1. N \in Nat
  BY FS_CardinalityType
<1>2. /\ P[0] = {}
      /\ \A n \in 1..N : P[n] = {x \in K : after[x] \subseteq P[n - 1]}
      /\ \A m, n \in 0..N : m <= n => P[m] \subseteq P[n]
  BY <1>1, PlacedIs, PlacedGrows
<1> HIDE DEF P, K
<1> SUFFICES ASSUME k \notin P[N] PROVE FALSE
  BY DEF P, K
<1>3. \A n \in 0..N : P[n] \subseteq K
  <2> TAKE n \in 0..N
  <2>1. n = 0 \/ n \in 1..N
    BY <1>1
  <2> QED
    BY <2>1, <1>2
<1>4. k \in K /\ after[k] \subseteq P[N] /\ IsFiniteSet(K)
  BY DEF P, K
\* A round that places nothing is the last one: k would have been placed.
<1>5. \A n \in 1..N : P[n] # P[n - 1]
  <2> SUFFICES ASSUME NEW n \in 1..N, P[n] = P[n - 1] PROVE FALSE
    OBVIOUS
  <2> DEFINE Bad == {m \in Nat : m \in n..N /\ P[m] # P[n]}
  <2>1. Bad = {}
    <3> SUFFICES ASSUME Bad # {} PROVE FALSE
      OBVIOUS
    <3>1. PICK b \in Bad : \A m \in Bad : b <= m
      <4>1. Bad \in SUBSET Nat
        OBVIOUS
      <4> HIDE DEF Bad
      <4> QED
        BY <4>1, LeastNumberOf
    <3>2. b \in Nat /\ b \in n..N /\ P[b] # P[n]
      OBVIOUS
    <3>3. b - 1 \in Nat /\ b - 1 \in n..N /\ b \in 1..N /\ b - 1 \in 0..N
      <4>1. b # n
        BY <3>2
      <4> HIDE DEF Bad
      <4> QED
        BY <3>2, <4>1, <1>1
    <3>7. b - 1 \notin Bad
      <4> HIDE DEF Bad
      <4> QED
        BY <3>1, <3>2, <3>3
    <3>4. P[b - 1] = P[n]
      BY <3>3, <3>7
    <3>5. P[b - 1] = P[n - 1]
      BY <3>4
    <3> HIDE DEF Bad
    <3>6. P[b] = P[n]
      <4>1. P[b] = {x \in K : after[x] \subseteq P[b - 1]}
        BY <3>3, <1>2
      <4>2. P[n] = {x \in K : after[x] \subseteq P[n - 1]}
        BY <1>2
      <4> QED
        BY <4>1, <4>2, <3>5
    <3> QED
      BY <3>2, <3>6
  <2>2. N \in n..N /\ N \notin Bad
    BY <1>1, <2>1
  <2>3. P[N] = P[n]
    BY <1>1, <2>2
  <2>4. P[N] = P[n - 1]
    BY <2>3
  <2>5. k \in P[n]
    BY <1>2, <1>4, <2>4
  <2> QED
    BY <2>3, <2>5
\* So every round places something, and they are as many as the subtasks.
<1> DEFINE Small == {n \in Nat : n \in 0..N /\ ~(Cardinality(P[n]) >= n)}
<1>6. Small = {}
  <2> SUFFICES ASSUME Small # {} PROVE FALSE
    OBVIOUS
  <2>1. PICK s \in Small : \A m \in Small : s <= m
    <3>1. Small \in SUBSET Nat
      OBVIOUS
    <3> HIDE DEF Small
    <3> QED
      BY <3>1, LeastNumberOf
  <2>2. s \in Nat /\ s \in 0..N /\ ~(Cardinality(P[s]) >= s)
    OBVIOUS
  <2>3. s # 0
    <3>1. Cardinality({}) = 0
      BY FS_EmptySet
    <3> QED
      BY <3>1, <2>2, <1>2
  <2>4. s - 1 \in Nat /\ s - 1 \in 0..N /\ s \in 1..N
    BY <2>2, <2>3, <1>1
  <2>11. s - 1 \notin Small
    <3> HIDE DEF Small
    <3> QED
      BY <2>1, <2>2, <2>4
  <2>5. Cardinality(P[s - 1]) >= s - 1
    BY <2>4, <2>11
  <2> HIDE DEF Small
  <2>6. P[s - 1] \in SUBSET P[s] /\ P[s] \in SUBSET K
    BY <1>2, <1>3, <2>2, <2>4
  <2>7. IsFiniteSet(P[s]) /\ IsFiniteSet(P[s - 1])
    BY <1>4, <2>6, FS_Subset
  <2>8. Cardinality(P[s]) \in Nat /\ Cardinality(P[s - 1]) \in Nat
    BY <2>7, FS_CardinalityType
  <2>9. Cardinality(P[s - 1]) <= Cardinality(P[s])
    BY <2>6, <2>7, FS_Subset
  <2>10. Cardinality(P[s]) = Cardinality(P[s - 1]) => P[s] = P[s - 1]
    BY <2>6, <2>7, FS_Subset
  <2> QED
    BY <1>5, <2>2, <2>4, <2>5, <2>8, <2>9, <2>10
<1>7. N \in 0..N /\ N \notin Small
  BY <1>1, <1>6
<1>8. Cardinality(P[N]) >= N
  BY <1>1, <1>7
<1>9. P[N] \in SUBSET K
  BY <1>3, <1>7
<1>10. Cardinality(P[N]) \in Nat
  <2>1. IsFiniteSet(P[N])
    BY <1>4, <1>9, FS_Subset
  <2> QED
    BY <2>1, FS_CardinalityType
<1>11. Cardinality(P[N]) <= N
  BY <1>4, <1>9, FS_Subset
<1>12. P[N] = K
  <2>1. Cardinality(K) = Cardinality(P[N])
    BY <1>1, <1>8, <1>10, <1>11
  <2> QED
    BY <2>1, <1>4, <1>9, FS_Subset
<1> QED
  BY <1>4, <1>12

\* What waits for each other is never placed; and what is not placed waits for each other.
LEMMA CycleIsWaiting ==
  ASSUME NEW after, IsFiniteSet(DOMAIN after), \A k \in DOMAIN after : after[k] \subseteq DOMAIN after
  PROVE  HasCycle(after) <=> WaitForEachOther(after)
<1> DEFINE K == DOMAIN after
           N == Cardinality(K)
           P == Placed(after)
<1>1. N \in Nat
  BY FS_CardinalityType
<1>2. /\ P[0] = {}
      /\ \A n \in 1..N : P[n] = {x \in K : after[x] \subseteq P[n - 1]}
  BY <1>1, PlacedIs
<1>3. HasCycle(after) <=> P[N] # K
  BY DEF HasCycle
<1>4. \A k \in K : after[k] \subseteq P[N] => k \in P[N]
  BY PlacedIsAll
<1> HIDE DEF P
<1>5. P[N] \subseteq K
  <2>1. N = 0 \/ N \in 1..N
    BY <1>1
  <2> QED
    BY <2>1, <1>2
<1>6. ASSUME HasCycle(after) PROVE WaitForEachOther(after)
  <2> DEFINE U == K \ P[N]
  <2>1. U # {} /\ U \in SUBSET K
    BY <1>3, <1>5, <1>6
  <2>2. \A k \in U : after[k] \cap U # {}
    BY <1>4
  <2> HIDE DEF U
  <2> QED
    BY <2>1, <2>2 DEF WaitForEachOther
<1>7. ASSUME WaitForEachOther(after) PROVE HasCycle(after)
  <2>1. PICK U \in SUBSET K : U # {} /\ \A k \in U : after[k] \cap U # {}
    BY <1>7 DEF WaitForEachOther
  <2> DEFINE Bad == {n \in Nat : n \in 0..N /\ P[n] \cap U # {}}
  <2>2. Bad = {}
    <3> SUFFICES ASSUME Bad # {} PROVE FALSE
      OBVIOUS
    <3>1. PICK b \in Bad : \A m \in Bad : b <= m
      <4>1. Bad \in SUBSET Nat
        OBVIOUS
      <4> HIDE DEF Bad
      <4> QED
        BY <4>1, LeastNumberOf
    <3>2. b \in Nat /\ b \in 0..N /\ P[b] \cap U # {}
      OBVIOUS
    <3>3. b # 0
      BY <1>2, <3>2
    <3>4. b \in 1..N /\ b - 1 \in Nat /\ b - 1 \in 0..N
      BY <3>2, <3>3, <1>1
    <3>8. b - 1 \notin Bad
      <4> HIDE DEF Bad
      <4> QED
        BY <3>1, <3>2, <3>4
    <3>5. P[b - 1] \cap U = {}
      BY <3>4, <3>8
    <3>6. PICK k : k \in P[b] /\ k \in U
      BY <3>2
    <3>7. after[k] \subseteq P[b - 1]
      BY <1>2, <3>4, <3>6
    <3> HIDE DEF Bad
    <3> QED
      BY <2>1, <3>5, <3>6, <3>7
  <2>3. N \notin Bad /\ N \in 0..N
    BY <1>1, <2>2
  <2>4. P[N] \cap U = {}
    BY <1>1, <2>3
  <2> HIDE DEF Bad
  <2> QED
    BY <1>3, <2>1, <2>4
<1> QED
  BY <1>6, <1>7

---------------------------------------------------------------------------
(* Orders round by round *)

\* Everything comes once in an order by rounds, and after all it waits for.
LEMMA RoundsOrder ==
  ASSUME NEW after, IsFiniteSet(DOMAIN after), \A k \in DOMAIN after : after[k] \subseteq DOMAIN after,
         ~HasCycle(after), NEW order \in ByRounds(after)
  PROVE  /\ order \in [1..Cardinality(DOMAIN after) -> DOMAIN after]
         /\ \A i, j \in 1..Cardinality(DOMAIN after) : i < j => order[i] # order[j]
         /\ \A k \in DOMAIN after : \E i \in 1..Cardinality(DOMAIN after) : order[i] = k
         /\ \A i \in 1..Cardinality(DOMAIN after) : \A k \in after[order[i]] : \E j \in 1..(i - 1) : order[j] = k
<1> DEFINE K == DOMAIN after
           N == Cardinality(K)
           P == Placed(after)
<1>1. N \in Nat
  BY FS_CardinalityType
<1>2. /\ DOMAIN P = 0..N /\ P[0] = {}
      /\ \A n \in 1..N : P[n] = {x \in K : after[x] \subseteq P[n - 1]}
      /\ \A m, n \in 0..N : m <= n => P[m] \subseteq P[n]
  BY <1>1, PlacedIs, PlacedGrows
<1>3. P[N] = K
  BY DEF HasCycle
<1>4. order \in [1..N -> K]
  BY DEF ByRounds
<1>5. \A i, j \in 1..N : i < j => order[i] # order[j] /\ ~Earlier(after, order[j], order[i])
  BY <1>4 DEF ByRounds
<1>6. \A k \in K : \E i \in 1..N : order[i] = k
  <2>1. \A i, j \in 1..N : i < j => order[i] # order[j]
    BY <1>5
  <2> QED
    BY <1>4, <2>1, NumberedWhole, Zenon
<1>7. \A k, m : Earlier(after, k, m) <=> \E n \in 0..N : k \in P[n] /\ m \notin P[n]
  BY <1>2 DEF Earlier
<1> HIDE DEF P, K
<1>8. ASSUME NEW i \in 1..N, NEW k \in after[order[i]]
      PROVE  \E j \in 1..(i - 1) : order[j] = k
  <2> DEFINE In == {n \in Nat : n \in 0..N /\ order[i] \in P[n]}
  <2>1. order[i] \in K
    BY <1>4
  <2>2. N \in In
    BY <1>1, <1>3, <2>1
  <2>3. PICK n \in In : \A m \in In : n <= m
    <3>1. In \in SUBSET Nat /\ In # {}
      BY <2>2
    <3> HIDE DEF In
    <3> QED
      BY <3>1, LeastNumberOf
  <2>4. n \in Nat /\ n \in 0..N /\ order[i] \in P[n]
    OBVIOUS
  <2>5. n # 0
    BY <1>2, <2>4
  <2>6. n \in 1..N /\ n - 1 \in 0..N /\ n - 1 \in Nat
    BY <1>1, <2>4, <2>5
  <2>7. n - 1 \notin In
    <3> HIDE DEF In
    <3> QED
      BY <2>3, <2>4, <2>6
  <2>8. order[i] \notin P[n - 1]
    BY <2>6, <2>7
  <2>9. k \in P[n - 1]
    BY <1>2, <2>4, <2>6, <1>8
  <2>10. k \in K
    <3>1. after[order[i]] \subseteq K
      BY <2>1 DEF K
    <3> QED
      BY <3>1, <1>8
  <2>11. PICK j \in 1..N : order[j] = k
    BY <1>6, <2>10
  <2>12. Earlier(after, order[j], order[i])
    BY <1>7, <2>6, <2>8, <2>9, <2>11
  <2>13. j # i
    BY <2>8, <2>9, <2>11
  <2>14. ~(i < j)
    BY <1>5, <2>12
  <2>15. j \in 1..(i - 1)
    BY <1>1, <2>13, <2>14
  <2> QED
    BY <2>11, <2>15
<1> QED
  BY <1>4, <1>5, <1>6, <1>8 DEF K

\* Local keys, which can be compared, can be put in order round by round.
LEMMA KeysInOrder ==
  ASSUME NEW after, IsFiniteSet(DOMAIN after), DOMAIN after \in SUBSET Nat
  PROVE  KeyOrder(after) \in ByRounds(after)
<1> DEFINE K == DOMAIN after
           N == Cardinality(K)
           P == Placed(after)
           Same(k, m) == \A n \in DOMAIN P : k \in P[n] <=> m \in P[n]
           Before(k, m) == Earlier(after, k, m) \/ (Same(k, m) /\ k < m)
           R == {pair \in K \X K : Before(pair[1], pair[2])}
<1>1. N \in Nat
  BY FS_CardinalityType
<1>2. DOMAIN P = 0..N /\ \A m, n \in 0..N : m <= n => P[m] \subseteq P[n]
  BY <1>1, PlacedIs, PlacedGrows
<1>3. \A k, m : Earlier(after, k, m) <=> \E n \in 0..N : k \in P[n] /\ m \notin P[n]
  BY <1>2 DEF Earlier
<1>4. \A k, m : Same(k, m) <=> \A n \in 0..N : k \in P[n] <=> m \in P[n]
  BY <1>2
<1> HIDE DEF P, Same
\* Of two, one is earlier or they are placed in the same round; and not both are earlier.
<1>5. \A k, m : Earlier(after, k, m) \/ Earlier(after, m, k) \/ Same(k, m)
  BY <1>3, <1>4
<1>6. \A k, m : Earlier(after, k, m) => ~Earlier(after, m, k) /\ ~Same(k, m) /\ ~Same(m, k)
  <2> SUFFICES ASSUME NEW k, NEW m, Earlier(after, k, m)
               PROVE  ~Earlier(after, m, k) /\ ~Same(k, m) /\ ~Same(m, k)
    OBVIOUS
  <2>1. PICK n \in 0..N : k \in P[n] /\ m \notin P[n]
    BY <1>3
  <2>2. ~Same(k, m) /\ ~Same(m, k)
    BY <1>4, <2>1
  <2>3. ~Earlier(after, m, k)
    <3> SUFFICES ASSUME NEW o \in 0..N, m \in P[o], k \notin P[o] PROVE FALSE
      BY <1>3
    <3>1. n <= o \/ o <= n
      BY <1>1
    <3> QED
      BY <3>1, <1>2, <2>1
  <2> QED
    BY <2>2, <2>3
<1>7. \A k, m, o : Earlier(after, k, m) /\ (Earlier(after, m, o) \/ Same(m, o)) => Earlier(after, k, o)
  <2> SUFFICES ASSUME NEW k, NEW m, NEW o, Earlier(after, k, m), Earlier(after, m, o) \/ Same(m, o)
               PROVE  Earlier(after, k, o)
    OBVIOUS
  <2>1. PICK n \in 0..N : k \in P[n] /\ m \notin P[n]
    BY <1>3
  <2>2. CASE Same(m, o)
    BY <1>3, <1>4, <2>1, <2>2
  <2>3. CASE Earlier(after, m, o)
    <3>1. PICK q \in 0..N : m \in P[q] /\ o \notin P[q]
      BY <1>3, <2>3
    <3>2. ~(q <= n)
      BY <1>2, <2>1, <3>1
    <3>3. n <= q
      BY <1>1, <3>2
    <3>4. o \notin P[n]
      BY <1>2, <3>1, <3>3
    <3> QED
      BY <1>3, <2>1, <3>4
  <2> QED
    BY <2>2, <2>3
<1>8. \A k, m, o : Same(k, m) /\ Earlier(after, m, o) => Earlier(after, k, o)
  BY <1>3, <1>4
<1>9. \A k, m, o : Same(k, m) /\ Same(m, o) => Same(k, o)
  BY <1>4
<1>10. \A k, m : Same(k, m) => Same(m, k)
  BY <1>4
<1>11. \A k, m \in K : <<k, m>> \in R <=> Before(k, m)
  OBVIOUS
<1> HIDE DEF R
<1>12. StrictOn(K, R)
  <2>1. \A k \in K : ~Before(k, k)
    <3> TAKE k \in K
    <3>1. ~Earlier(after, k, k)
      BY <1>3
    <3> QED
      BY <3>1
  <2>2. \A k, m \in K : k # m => Before(k, m) \/ Before(m, k)
    <3> SUFFICES ASSUME NEW k \in K, NEW m \in K, k # m PROVE Before(k, m) \/ Before(m, k)
      OBVIOUS
    <3>1. k \in Nat /\ m \in Nat
      OBVIOUS
    <3>2. k < m \/ m < k
      BY <3>1
    <3> QED
      BY <3>2, <1>5, <1>10
  <2>3. \A k, m, o \in K : Before(k, m) /\ Before(m, o) => Before(k, o)
    <3> SUFFICES ASSUME NEW k \in K, NEW m \in K, NEW o \in K, Before(k, m), Before(m, o) PROVE Before(k, o)
      OBVIOUS
    <3>1. k \in Nat /\ m \in Nat /\ o \in Nat
      OBVIOUS
    <3>2. CASE Earlier(after, k, m)
      BY <3>2, <1>7
    <3>3. CASE Same(k, m) /\ k < m /\ Earlier(after, m, o)
      BY <3>3, <1>8
    <3>4. CASE Same(k, m) /\ k < m /\ Same(m, o) /\ m < o
      BY <3>1, <3>4, <1>9
    <3> QED
      BY <3>2, <3>3, <3>4
  <2> QED
    BY <2>1, <2>2, <2>3, <1>11 DEF StrictOn
<1>13. PICK f : Listing(K, R, f)
  BY <1>12, ListingExists
<1>14. f \in [1..N -> K] /\ \A i, j \in 1..N : i < j => Before(f[i], f[j])
  BY <1>11, <1>13 DEF Listing
<1>15. \A i, j \in 1..N : i < j => f[i] # f[j] /\ ~Earlier(after, f[j], f[i])
  <2> SUFFICES ASSUME NEW i \in 1..N, NEW j \in 1..N, i < j
               PROVE  f[i] # f[j] /\ ~Earlier(after, f[j], f[i])
    OBVIOUS
  <2>1. Before(f[i], f[j]) /\ f[i] \in K /\ f[j] \in K
    BY <1>14
  <2>2. f[i] # f[j]
    BY <2>1, <1>11, <1>12 DEF StrictOn
  <2>3. ~Earlier(after, f[j], f[i])
    BY <2>1, <1>6
  <2> QED
    BY <2>2, <2>3
<1>16. f \in ByRounds(after)
  BY <1>14, <1>15 DEF ByRounds
<1> DEFINE Sorted(order) == \A i, j \in DOMAIN order : i < j => order[i] < order[j] \/ Earlier(after, order[i], order[j])
<1>17. Sorted(f)
  <2> SUFFICES ASSUME NEW i \in 1..N, NEW j \in 1..N, i < j
               PROVE  f[i] < f[j] \/ Earlier(after, f[i], f[j])
    BY <1>14
  <2> QED
    BY <1>14
<1>18. KeyOrder(after) = CHOOSE order \in ByRounds(after) : Sorted(order)
  BY DEF KeyOrder
<1> HIDE DEF Sorted
<1> QED
  BY <1>16, <1>17, <1>18

---------------------------------------------------------------------------
(* The subtasks of a plan *)

\* Every subtask asks something of its own and waits for earlier ones only.
InOrder(subtasks) ==
    \A i \in DOMAIN subtasks : \A s \in subtasks[i].after : \E j \in 1..(i - 1) : subtasks[j] = s
AsksDiffer(subtasks) == \A i, j \in DOMAIN subtasks : i # j => subtasks[i].asks # subtasks[j].asks

\* What the bundle checks of its subtasks follows from this: no ID comes twice, all
\* dependencies exist, none is the subtask itself, and none wait for each other.
LEMMA OrderedSubtasksFit ==
  ASSUME NEW subtasks, NEW n \in Nat, DOMAIN subtasks = 1..n, subtasks = [i \in 1..n |-> subtasks[i]],
         Len(subtasks) = n, InOrder(subtasks), AsksDiffer(subtasks)
  PROVE  /\ SubtasksFit(subtasks)
         /\ IsFiniteSet(IdsOf(subtasks)) /\ Cardinality(IdsOf(subtasks)) = n
         /\ ~HasCycle([s \in IdsOf(subtasks) |-> s.after])
         /\ \A s \in IdsOf(subtasks) : s.after \subseteq IdsOf(subtasks)
<1> DEFINE ids == {subtasks[i] : i \in 1..n}
           after == [s \in ids |-> s.after]
           P == Placed(after)
<1>1. IdsOf(subtasks) = ids
  BY DEF IdsOf
<1>2. \A i, j \in 1..n : i < j => subtasks[i] # subtasks[j]
  BY DEF AsksDiffer
<1>3. IsFiniteSet(ids) /\ Cardinality(ids) = n
  BY <1>2, NumberedOnce
<1>4. \A i \in 1..n : subtasks[i] \in ids /\ subtasks[i].after \subseteq ids
  BY DEF InOrder
<1>5. \A s \in ids : \E i \in 1..n : subtasks[i] = s
  OBVIOUS
<1>6. \A i \in 1..n : subtasks[i] \notin subtasks[i].after
  <2> SUFFICES ASSUME NEW i \in 1..n, subtasks[i] \in subtasks[i].after PROVE FALSE
    OBVIOUS
  <2>1. PICK j \in 1..(i - 1) : subtasks[j] = subtasks[i]
    BY DEF InOrder
  <2>2. j \in 1..n /\ j < i
    OBVIOUS
  <2> QED
    BY <1>2, <2>1, <2>2
<1>7. DOMAIN after = ids /\ \A i \in 1..n : after[subtasks[i]] = subtasks[i].after
  BY <1>4
<1> HIDE DEF ids, after
<1>8. /\ DOMAIN P = 0..n /\ P[0] = {}
      /\ \A m \in 1..n : P[m] = {s \in ids : after[s] \subseteq P[m - 1]}
      /\ \A m, o \in 0..n : m <= o => P[m] \subseteq P[o]
  <2>1. Cardinality(DOMAIN after) = n
    BY <1>3, <1>7
  <2> QED
    BY <1>7, <2>1, PlacedIs, PlacedGrows
<1> HIDE DEF P
\* The i-th subtask is placed in the i-th round at the latest.
<1>9. \A i \in 1..n : subtasks[i] \in P[i]
  <2> DEFINE Bad == {i \in Nat : i \in 1..n /\ subtasks[i] \notin P[i]}
  <2> SUFFICES ASSUME Bad # {} PROVE FALSE
    OBVIOUS
  <2>1. PICK b \in Bad : \A i \in Bad : b <= i
    <3>1. Bad \in SUBSET Nat
      OBVIOUS
    <3> HIDE DEF Bad
    <3> QED
      BY <3>1, LeastNumberOf
  <2>2. b \in Nat /\ b \in 1..n /\ subtasks[b] \notin P[b]
    OBVIOUS
  <2>3. \A j \in 1..(b - 1) : subtasks[j] \in P[b - 1]
    <3> TAKE j \in 1..(b - 1)
    <3>1. j \in 1..n /\ j \in Nat /\ j < b
      BY <2>2
    <3>2. j \notin Bad
      <4> HIDE DEF Bad
      <4> QED
        BY <2>1, <2>2, <3>1
    <3>3. subtasks[j] \in P[j]
      BY <3>1, <3>2
    <3>4. j \in 0..n /\ b - 1 \in 0..n /\ j <= b - 1
      BY <2>2, <3>1
    <3> QED
      BY <1>8, <3>3, <3>4
  <2>4. subtasks[b].after \subseteq P[b - 1]
    BY <2>2, <2>3 DEF InOrder
  <2>5. subtasks[b] \in P[b]
    BY <1>4, <1>7, <1>8, <2>2, <2>4
  <2> QED
    BY <2>2, <2>5
<1>10. P[n] = ids
  <2>1. n \in 0..n
    OBVIOUS
  <2>2. \A i \in 1..n : subtasks[i] \in P[n]
    <3> TAKE i \in 1..n
    <3>1. i \in 0..n /\ i <= n
      OBVIOUS
    <3> QED
      BY <1>8, <1>9, <2>1, <3>1
  <2>3. P[n] \subseteq ids
    <3>1. n = 0 \/ n \in 1..n
      OBVIOUS
    <3> QED
      BY <3>1, <1>8
  <2>4. ids \subseteq P[n]
    BY <1>5, <2>2
  <2> QED
    BY <2>3, <2>4
<1>11. ~HasCycle(after)
  BY <1>3, <1>7, <1>10 DEF HasCycle, P
<1>12. \A s \in ids : s \notin s.after /\ s.after \subseteq ids
  BY <1>4, <1>5, <1>6
<1>13. after = [s \in IdsOf(subtasks) |-> s.after]
  BY <1>1 DEF after
<1>14. SubtasksFit(subtasks)
  BY <1>1, <1>3, <1>11, <1>12, <1>13 DEF SubtasksFit
<1> QED
  BY <1>1, <1>3, <1>11, <1>12, <1>13, <1>14

\* The formal subtasks of a draft, made one after the other in the order of its keys.
FormalUpTo(draft, order, m, f) ==
    f = [i \in 1..m |->
            Subtask(ByKey(draft)[order[i]].asks, {f[PlaceOf(order, key)] : key \in AfterKeys(draft)[order[i]]})]
LEMMA FormalExists ==
  ASSUME NEW draft, NEW order, NEW n \in Nat,
         \A i \in 1..n : \A key \in AfterKeys(draft)[order[i]] : PlaceOf(order, key) \in 1..(i - 1)
  PROVE  \E f : FormalUpTo(draft, order, n, f)
<1> DEFINE Bad == {m \in Nat : m <= n /\ ~\E f : FormalUpTo(draft, order, m, f)}
           After(i) == AfterKeys(draft)[order[i]]
           At(key) == PlaceOf(order, key)
           Asks(i) == ByKey(draft)[order[i]].asks
<1> SUFFICES ASSUME Bad # {} PROVE FALSE
  OBVIOUS
<1>1. PICK b \in Bad : \A m \in Bad : b <= m
  <2>1. Bad \in SUBSET Nat
    OBVIOUS
  <2> HIDE DEF Bad
  <2> QED
    BY <2>1, LeastNumberOf
<1>2. b \in Nat /\ b <= n /\ ~\E f : FormalUpTo(draft, order, b, f)
  OBVIOUS
<1>3. \A m, f : FormalUpTo(draft, order, m, f) <=> f = [i \in 1..m |-> Subtask(Asks(i), {f[At(k)] : k \in After(i)})]
  BY DEF FormalUpTo
<1>4. \A i \in 1..n : \A k \in After(i) : At(k) \in 1..(i - 1)
  OBVIOUS
<1> HIDE DEF After, At, Asks
<1>5. b # 0
  <2> SUFFICES ASSUME b = 0 PROVE FALSE
    OBVIOUS
  <2> DEFINE none == [i \in 1..0 |-> i]
  <2>1. none = [i \in 1..0 |-> Subtask(Asks(i), {none[At(k)] : k \in After(i)})]
    <3>1. \A i \in 1..0 : FALSE
      OBVIOUS
    <3> HIDE DEF none
    <3>2. none = [i \in 1..0 |-> none[i]]
      BY DEF none
    <3> QED
      BY <3>1, <3>2
  <2> HIDE DEF none
  <2>2. FormalUpTo(draft, order, 0, none)
    BY <1>3, <2>1
  <2> QED
    BY <1>2, <2>2
<1>6. b - 1 \in Nat /\ b - 1 <= n
  BY <1>2, <1>5
<1>7. b - 1 \notin Bad
  <2> HIDE DEF Bad
  <2> QED
    BY <1>1, <1>2, <1>6
<1>8. PICK f : FormalUpTo(draft, order, b - 1, f)
  BY <1>6, <1>7
<1>9. \A i \in 1..(b - 1) : f[i] = Subtask(Asks(i), {f[At(k)] : k \in After(i)})
  BY <1>3, <1>8
<1> DEFINE g == [i \in 1..b |-> IF i = b THEN Subtask(Asks(b), {f[At(k)] : k \in After(b)}) ELSE f[i]]
<1>10. \A i \in 1..(b - 1) : g[i] = f[i]
  BY <1>2
<1>11. g[b] = Subtask(Asks(b), {f[At(k)] : k \in After(b)}) /\ g = [i \in 1..b |-> g[i]]
  <2>1. b \in 1..b
    BY <1>2, <1>5
  <2> QED
    BY <2>1
<1> HIDE DEF g
<1>12. \A i \in 1..b : {g[At(k)] : k \in After(i)} = {f[At(k)] : k \in After(i)}
  <2> TAKE i \in 1..b
  <2>1. \A k \in After(i) : At(k) \in 1..(b - 1)
    <3>1. i \in 1..n /\ \A j \in 1..(i - 1) : j \in 1..(b - 1)
      BY <1>2
    <3> QED
      BY <3>1, <1>4
  <2>2. \A k \in After(i) : g[At(k)] = f[At(k)]
    BY <2>1, <1>10
  <2> QED
    BY <2>2
<1>13. \A i \in 1..b : g[i] = Subtask(Asks(i), {g[At(k)] : k \in After(i)})
  <2> TAKE i \in 1..b
  <2>1. {g[At(k)] : k \in After(i)} = {f[At(k)] : k \in After(i)}
    BY <1>12
  <2>2. CASE i = b
    BY <2>1, <2>2, <1>11
  <2>3. CASE i # b
    <3>1. i \in 1..(b - 1)
      BY <2>3, <1>2
    <3> QED
      BY <3>1, <2>1, <1>9, <1>10
  <2> QED
    BY <2>2, <2>3
<1>14. g = [i \in 1..b |-> Subtask(Asks(i), {g[At(k)] : k \in After(i)})]
  BY <1>11, <1>13
<1>15. FormalUpTo(draft, order, b, g)
  BY <1>3, <1>14
<1> QED
  BY <1>2, <1>15

---------------------------------------------------------------------------
(* Drafts *)

\* The keys of a draft, and what each waits for.
LEMMA DraftKeys ==
  ASSUME NEW draft \in Drafts
  PROVE  /\ Len(draft.subtasks) \in Nat /\ DOMAIN draft.subtasks = 1..Len(draft.subtasks)
         /\ IsFiniteSet(KeysOf(draft)) /\ KeysOf(draft) \in SUBSET Nat
         /\ DOMAIN AfterKeys(draft) = KeysOf(draft)
         /\ \A key \in KeysOf(draft) :
                \E i \in DOMAIN draft.subtasks : AfterKeys(draft)[key] = draft.subtasks[i].after
<1> DEFINE subtasks == draft.subtasks
           n == Len(subtasks)
           keys == KeysOf(draft)
<1>1. subtasks \in Seq([key : Nat, asks : STRING, after : SUBSET Nat])
  BY PlanConstants
<1>2. n \in Nat /\ DOMAIN subtasks = 1..n
  BY <1>1, LenProperties
<1>3. \A i \in 1..n : subtasks[i] \in [key : Nat, asks : STRING, after : SUBSET Nat]
  BY <1>1, <1>2, ElementOfSeq
<1>4. keys = {subtasks[i].key : i \in 1..n}
  BY <1>2 DEF KeysOf
<1>5. keys \in SUBSET Nat
  BY <1>3, <1>4
<1>6. IsFiniteSet(keys)
  <2> DEFINE key == [i \in 1..n |-> subtasks[i].key]
  <2>1. key \in Surjection(1..n, keys)
    BY <1>4 DEF Surjection
  <2>2. IsFiniteSet(1..n)
    BY <1>2, FS_Interval
  <2> QED
    BY <2>1, <2>2, FS_Surjection
<1>7. DOMAIN AfterKeys(draft) = keys
  BY DEF AfterKeys
<1>8. ASSUME NEW key \in keys
      PROVE  \E i \in DOMAIN subtasks : AfterKeys(draft)[key] = subtasks[i].after
  <2> DEFINE i == CHOOSE i \in DOMAIN subtasks : subtasks[i].key = key
  <2>1. \E k \in DOMAIN subtasks : subtasks[k].key = key
    BY DEF KeysOf
  <2>2. i \in DOMAIN subtasks
    BY <2>1
  <2>3. ByKey(draft)[key] = subtasks[i]
    BY DEF ByKey
  <2>4. AfterKeys(draft)[key] = subtasks[i].after
    BY <2>3 DEF AfterKeys
  <2> QED
    BY <2>2, <2>4
<1> QED
  BY <1>2, <1>5, <1>6, <1>7, <1>8

\* A draft past the first two checks of its dependencies waits for keys of its own only, and
\* is refused for a cycle exactly if some of them wait for each other.
LEMMA DraftWaits ==
  ASSUME NEW draft \in Drafts, OrderCode(draft) \in {"planner_cycle_detected", "accepted"}
  PROVE  /\ Cardinality(KeysOf(draft)) = Len(draft.subtasks)
         /\ \A key \in KeysOf(draft) : AfterKeys(draft)[key] \subseteq KeysOf(draft)
         /\ OrderCode(draft) = "planner_cycle_detected" <=> WaitForEachOther(AfterKeys(draft))
         /\ OrderCode(draft) = "accepted" <=> ~HasCycle(AfterKeys(draft))
<1>1. /\ Cardinality(KeysOf(draft)) = Len(draft.subtasks)
      /\ \A i \in DOMAIN draft.subtasks : ~Dangling(draft, i)
      /\ OrderCode(draft) = "planner_cycle_detected" <=> HasCycle(AfterKeys(draft))
  BY DEF OrderCode
<1>2. \A i \in DOMAIN draft.subtasks : draft.subtasks[i].after \subseteq KeysOf(draft)
  BY <1>1 DEF Dangling
<1>3. \A key \in KeysOf(draft) : AfterKeys(draft)[key] \subseteq KeysOf(draft)
  BY <1>2, DraftKeys
<1>4. HasCycle(AfterKeys(draft)) <=> WaitForEachOther(AfterKeys(draft))
  <2>1. DOMAIN AfterKeys(draft) = KeysOf(draft) /\ IsFiniteSet(KeysOf(draft))
    BY DraftKeys
  <2> QED
    BY <1>3, <2>1, CycleIsWaiting
<1> QED
  BY <1>1, <1>3, <1>4

\* A list of n subtasks, each after all it waits for and each with a question of its own.
Listed(subtasks, n) ==
    /\ DOMAIN subtasks = 1..n /\ subtasks = [i \in 1..n |-> subtasks[i]] /\ Len(subtasks) = n
    /\ InOrder(subtasks)

\* A function on 1..n is a list of n.
LEMMA ListOf ==
  ASSUME NEW n \in Nat, NEW f, f = [i \in 1..n |-> f[i]]
  PROVE  DOMAIN f = 1..n /\ Len(f) = n /\ f \in Seq({f[i] : i \in 1..n})
<1> DEFINE S == {f[i] : i \in 1..n}
<1>1. DOMAIN f = 1..n
  BY Zenon
<1>2. \A i \in 1..n : f[i] \in S
  OBVIOUS
<1> HIDE DEF S
<1>3. f \in [1..n -> S]
  BY <1>1, <1>2
<1>4. f \in Seq(S)
  BY <1>3, SeqDef
<1>5. Len(f) = n
  BY <1>1, <1>4, LenProperties
<1> QED
  BY <1>1, <1>4, <1>5 DEF S

\* The subtasks of a draft without a cycle are as many as those drafted and come in order.
LEMMA DraftFormal ==
  ASSUME NEW draft \in Drafts, OrderCode(draft) = "accepted"
  PROVE  Listed(Formal(draft), Len(draft.subtasks))
<1> DEFINE after == AfterKeys(draft)
           order == KeyOrder(after)
           n == Len(draft.subtasks)
<1>1. n \in Nat /\ IsFiniteSet(KeysOf(draft)) /\ KeysOf(draft) \in SUBSET Nat /\ DOMAIN after = KeysOf(draft)
  BY DraftKeys
<1>2. /\ Cardinality(DOMAIN after) = n
      /\ \A key \in DOMAIN after : after[key] \subseteq DOMAIN after
      /\ ~HasCycle(after)
  BY <1>1, DraftWaits
<1> HIDE DEF after
<1>3. order \in ByRounds(after)
  BY <1>1, KeysInOrder
<1>4. /\ order \in [1..n -> DOMAIN after]
      /\ \A i, j \in 1..n : i < j => order[i] # order[j]
      /\ \A i \in 1..n : \A k \in after[order[i]] : \E j \in 1..(i - 1) : order[j] = k
  <2> HIDE DEF order
  <2> QED
    BY <1>1, <1>2, <1>3, RoundsOrder
<1> HIDE DEF order
<1>5. \A i \in 1..n : \A key \in after[order[i]] : PlaceOf(order, key) \in 1..(i - 1)
  <2> SUFFICES ASSUME NEW i \in 1..n, NEW key \in after[order[i]]
               PROVE  PlaceOf(order, key) \in 1..(i - 1)
    OBVIOUS
  <2>1. PICK j \in 1..(i - 1) : order[j] = key
    BY <1>4
  <2>2. j \in 1..n /\ j < i
    BY <1>1
  <2>3. PlaceOf(order, key) \in 1..n /\ order[PlaceOf(order, key)] = key
    BY <1>4, <2>1, <2>2 DEF PlaceOf
  <2>4. PlaceOf(order, key) = j
    <3>1. ~(PlaceOf(order, key) < j) /\ ~(j < PlaceOf(order, key))
      BY <1>4, <2>1, <2>2, <2>3
    <3> QED
      BY <2>2, <2>3, <3>1
  <2> QED
    BY <2>1, <2>4
<1> DEFINE R(f) == f = [i \in DOMAIN order |->
                          Subtask(ByKey(draft)[order[i]].asks, {f[PlaceOf(order, key)] : key \in after[order[i]]})]
           f == Formal(draft)
<1>6. f = CHOOSE g : R(g)
  BY DEF Formal, after, order
<1>7. \A g : R(g) <=> FormalUpTo(draft, order, n, g)
  <2>1. DOMAIN order = 1..n
    BY <1>4
  <2> QED
    BY <2>1, Zenon DEF FormalUpTo, after
<1>8. \E g : R(g)
  <2>1. \E g : FormalUpTo(draft, order, n, g)
    BY <1>1, <1>5, FormalExists DEF after
  <2> HIDE DEF R
  <2> QED
    BY <1>7, <2>1
<1> HIDE DEF R
<1>9. R(CHOOSE g : R(g))
  BY <1>8
<1>10. FormalUpTo(draft, order, n, f)
  BY <1>6, <1>7, <1>9
<1> DEFINE e(i) == Subtask(ByKey(draft)[order[i]].asks, {f[PlaceOf(order, key)] : key \in after[order[i]]})
<1> HIDE DEF f
<1>11. f = [i \in 1..n |-> e(i)]
  BY <1>10 DEF FormalUpTo, after
<1>12. \A i \in 1..n : f[i].after = {f[PlaceOf(order, key)] : key \in after[order[i]]}
  <2> TAKE i \in 1..n
  <2>1. f[i] = e(i)
    <3> HIDE DEF e
    <3> QED
      BY <1>11
  <2> QED
    BY <2>1 DEF Subtask
<1>13. f = [i \in 1..n |-> f[i]]
  <2> HIDE DEF e
  <2> QED
    BY <1>11
<1>14. DOMAIN f = 1..n /\ Len(f) = n
  BY <1>1, <1>13, ListOf
<1>15. InOrder(f)
  <2> SUFFICES ASSUME NEW i \in 1..n, NEW s \in f[i].after
               PROVE  \E j \in 1..(i - 1) : f[j] = s
    BY <1>14 DEF InOrder
  <2>1. PICK key \in after[order[i]] : s = f[PlaceOf(order, key)]
    BY <1>12
  <2> QED
    BY <1>5, <2>1
<1> QED
  BY <1>13, <1>14, <1>15 DEF Listed, f

---------------------------------------------------------------------------
(* Plans: what the checks before it let through, the bundle never refuses. *)

\* An accepted draft was formed without a cycle, and its subtasks ask different things.
LEMMA PlanCodeIs ==
  ASSUME NEW decision, NEW draft \in Drafts
  PROVE  /\ PlanCode(decision, draft) # "raised"
         /\ PlanCode(decision, draft) = "accepted" =>
                /\ OrderCode(draft) = "accepted"
                /\ Listed(Formal(draft), Len(draft.subtasks)) /\ AsksDiffer(Formal(draft))
         /\ PlanCode(decision, draft) = "planner_cycle_detected" => OrderCode(draft) = "planner_cycle_detected"
<1>1. ApprovalCode(decision) \in {"brief_rejected", "brief_not_approved", "approval_identity_mismatch", "accepted"}
  BY DEF ApprovalCode
<1>2. ScopeCode(draft) \in {"planner_contract_invalid", "planner_scope_violation", "accepted"}
  BY DEF ScopeCode
<1>3. OrderCode(draft) \in {"planner_contract_invalid", "planner_dependency_invalid", "planner_cycle_detected", "accepted"}
  BY DEF OrderCode
<1>4. ASSUME OrderCode(draft) = "accepted", ~AsksTwice(Formal(draft))
      PROVE  /\ SubtasksFit(Formal(draft))
             /\ Listed(Formal(draft), Len(draft.subtasks)) /\ AsksDiffer(Formal(draft))
  <2>1. Listed(Formal(draft), Len(draft.subtasks)) /\ Len(draft.subtasks) \in Nat
    BY <1>4, DraftFormal, DraftKeys
  <2>2. AsksDiffer(Formal(draft))
    BY <1>4 DEF AsksTwice, AsksDiffer
  <2>3. SubtasksFit(Formal(draft))
    BY <2>1, <2>2, OrderedSubtasksFit DEF Listed
  <2> QED
    BY <2>1, <2>2, <2>3
<1> QED
  BY <1>1, <1>2, <1>3, <1>4 DEF PlanCode

\* One more subtask after the others, with a question of its own, leaves them in order.
LEMMA AddedIs ==
  ASSUME NEW n \in Nat, NEW subtasks, Listed(subtasks, n), AsksDiffer(subtasks),
         NEW proposal, \A i \in DOMAIN subtasks : subtasks[i].asks # proposal.asks
  PROVE  Listed(Added(subtasks, proposal), n + 1) /\ AsksDiffer(Added(subtasks, proposal))
<1> DEFINE new == Subtask(proposal.asks, {subtasks[i] : i \in DependenciesOf(proposal) \cap DOMAIN subtasks})
           S == {subtasks[i] : i \in 1..n} \cup {new}
           all == Added(subtasks, proposal)
<1>1. /\ DOMAIN subtasks = 1..n /\ Len(subtasks) = n /\ InOrder(subtasks)
      /\ subtasks \in Seq({subtasks[i] : i \in 1..n})
  BY ListOf DEF Listed
<1>2. new.asks = proposal.asks /\ new.after = {subtasks[i] : i \in DependenciesOf(proposal) \cap DOMAIN subtasks}
  BY DEF Subtask
<1>3. all = Append(subtasks, new)
  BY DEF Added
<1> HIDE DEF new, all
<1>4. subtasks \in Seq(S) /\ new \in S
  <2>1. subtasks \in [1..n -> S]
    <3>1. \A i \in 1..n : subtasks[i] \in S
      OBVIOUS
    <3> HIDE DEF S
    <3> QED
      BY <1>1, <3>1 DEF Listed
  <2>2. new \in S
    OBVIOUS
  <2> HIDE DEF S
  <2> QED
    BY <2>1, <2>2, SeqDef
<1> HIDE DEF S
<1>5. /\ all \in Seq(S) /\ Len(all) = n + 1
      /\ \A i \in 1..n : all[i] = subtasks[i]
      /\ all[n + 1] = new
  BY <1>1, <1>3, <1>4, AppendProperties
<1>6. DOMAIN all = 1..(n + 1)
  BY <1>5, LenProperties
<1>7. all = [i \in 1..(n + 1) |-> all[i]]
  <2>1. all \in [1..(n + 1) -> S]
    BY <1>5, LenProperties
  <2> QED
    BY <2>1
<1>8. InOrder(all)
  <2> SUFFICES ASSUME NEW i \in 1..(n + 1), NEW s \in all[i].after
               PROVE  \E j \in 1..(i - 1) : all[j] = s
    BY <1>6 DEF InOrder
  <2>1. CASE i \in 1..n
    <3>1. PICK j \in 1..(i - 1) : subtasks[j] = s
      BY <2>1, <1>1, <1>5 DEF InOrder
    <3>2. j \in 1..n
      BY <2>1
    <3> QED
      BY <3>1, <3>2, <1>5
  <2>2. CASE i = n + 1
    <3>1. PICK j \in 1..n : subtasks[j] = s
      BY <2>2, <1>1, <1>2, <1>5
    <3> QED
      BY <3>1, <2>2, <1>5
  <2> QED
    BY <2>1, <2>2
<1>9. AsksDiffer(all)
  <2>1. \A i, j \in 1..n : i # j => subtasks[i].asks # subtasks[j].asks
    BY <1>1 DEF AsksDiffer
  <2>2. \A i \in 1..n : subtasks[i].asks # new.asks
    BY <1>1, <1>2
  <2>3. \A i \in 1..(n + 1) : i \in 1..n \/ i = n + 1
    OBVIOUS
  <2> QED
    BY <2>1, <2>2, <2>3, <1>5, <1>6 DEF AsksDiffer
<1> QED
  BY <1>5, <1>6, <1>7, <1>8, <1>9 DEF Listed, all

\* Put in any order by rounds, the subtasks of a list are again one.
LEMMA ReorderedIs ==
  ASSUME NEW n \in Nat, NEW subtasks, Listed(subtasks, n), AsksDiffer(subtasks),
         NEW order \in ByRounds([s \in IdsOf(subtasks) |-> s.after])
  PROVE  Listed(order, n) /\ AsksDiffer(order)
<1> DEFINE ids == IdsOf(subtasks)
           after == [s \in ids |-> s.after]
<1>1. /\ DOMAIN subtasks = 1..n /\ IsFiniteSet(ids) /\ Cardinality(ids) = n
      /\ ~HasCycle(after) /\ \A s \in ids : s.after \subseteq ids
  BY OrderedSubtasksFit DEF Listed
<1>2. DOMAIN after = ids /\ \A s \in ids : after[s] = s.after
  OBVIOUS
<1>3. order \in ByRounds(after)
  OBVIOUS
<1> HIDE DEF after
<1>4. /\ order \in [1..n -> ids]
      /\ \A i, j \in 1..n : i < j => order[i] # order[j]
      /\ \A i \in 1..n : \A k \in after[order[i]] : \E j \in 1..(i - 1) : order[j] = k
  BY <1>1, <1>2, <1>3, RoundsOrder
<1>5. DOMAIN order = 1..n /\ order = [i \in 1..n |-> order[i]]
  BY <1>4
<1>6. Len(order) = n
  BY <1>5, ListOf
<1>7. \A i \in 1..n : order[i] \in ids /\ after[order[i]] = order[i].after
  BY <1>2, <1>4
<1>8. InOrder(order)
  BY <1>4, <1>5, <1>7 DEF InOrder
<1>9. AsksDiffer(order)
  <2> SUFFICES ASSUME NEW i \in 1..n, NEW j \in 1..n, i # j
               PROVE  order[i].asks # order[j].asks
    BY <1>5 DEF AsksDiffer
  <2>1. order[i] # order[j]
    <3>1. i < j \/ j < i
      OBVIOUS
    <3> QED
      BY <3>1, <1>4
  <2>2. PICK a \in 1..n : subtasks[a] = order[i]
    BY <1>1, <1>7 DEF IdsOf
  <2>3. PICK b \in 1..n : subtasks[b] = order[j]
    BY <1>1, <1>7 DEF IdsOf
  <2> QED
    BY <2>1, <2>2, <2>3, <1>1 DEF AsksDiffer
<1> QED
  BY <1>5, <1>6, <1>8, <1>9 DEF Listed

---------------------------------------------------------------------------
(* Gaps *)

\* What a subtask lacks after another finding, with all done and covered, it lacked before.
LEMMA GapsStay ==
  ASSUME NEW s, NEW evidence \in SUBSET DOMAIN Findings, NEW e \in DOMAIN Findings, NEW need \in Requirements,
         NEW all, NEW completed \in SUBSET all, NEW covered \in SUBSET Scopes,
         NEW gap \in Gaps, HasGap(gap, s, evidence \cup {e}, need, all, Scopes)
  PROVE  \E g \in Gaps : HasGap(g, s, evidence, need, completed, covered)
<1> DEFINE more == evidence \cup {e}
<1>1. IsFiniteSet(evidence) /\ IsFiniteSet(more)
  BY PlanConstants, FS_Subset
<1>2. CASE evidence = {}
  <2>1. HasGap("subtask_no_evidence", s, evidence, need, completed, covered)
    BY <1>2 DEF HasGap
  <2>2. "subtask_no_evidence" \in Gaps
    BY DEF Gaps
  <2> QED
    BY <2>1, <2>2
<1>3. CASE evidence # {}
  <2>1. gap # "subtask_no_evidence"
    BY DEF HasGap
  <2>2. need.count \in Nat /\ need.sources \in Nat
    BY PlanConstants
  <2>3. CASE gap = "evidence_count_below_required"
    <3>1. Cardinality(more) < need.count
      BY <2>3 DEF HasGap
    <3>2. Cardinality(evidence) <= Cardinality(more) /\ Cardinality(evidence) \in Nat /\ Cardinality(more) \in Nat
      <4>1. evidence \in SUBSET more
        OBVIOUS
      <4> QED
        BY <4>1, <1>1, FS_Subset, FS_CardinalityType
    <3>3. Cardinality(evidence) < need.count
      BY <2>2, <3>1, <3>2
    <3> QED
      BY <3>3, <1>3, <2>3 DEF HasGap
  <2>4. CASE gap = "required_evidence_type_missing"
    <3>1. ~(need.types \subseteq TypesIn(more))
      BY <2>4 DEF HasGap
    <3>2. TypesIn(evidence) \subseteq TypesIn(more)
      BY DEF TypesIn
    <3>3. ~(need.types \subseteq TypesIn(evidence))
      BY <3>1, <3>2
    <3> QED
      BY <3>3, <2>4 DEF HasGap
  <2>5. CASE gap = "source_diversity_insufficient"
    <3>1. Cardinality(SourcesIn(more)) < need.sources
      BY <2>5 DEF HasGap
    <3>2. SourcesIn(evidence) \in SUBSET SourcesIn(more)
      BY DEF SourcesIn
    <3>3. IsFiniteSet(SourcesIn(more))
      <4> DEFINE source == [f \in more |-> Findings[f].source]
      <4>1. source \in Surjection(more, SourcesIn(more))
        BY DEF Surjection, SourcesIn
      <4> QED
        BY <4>1, <1>1, FS_Surjection
    <3>4. /\ Cardinality(SourcesIn(evidence)) <= Cardinality(SourcesIn(more))
          /\ Cardinality(SourcesIn(evidence)) \in Nat /\ Cardinality(SourcesIn(more)) \in Nat
      <4>1. IsFiniteSet(SourcesIn(evidence))
        BY <3>2, <3>3, FS_Subset
      <4> QED
        BY <4>1, <3>2, <3>3, FS_Subset, FS_CardinalityType
    <3>5. Cardinality(SourcesIn(evidence)) < need.sources
      BY <2>2, <3>1, <3>4
    <3> QED
      BY <3>5, <2>5 DEF HasGap
  <2>6. CASE gap = "dependency_unsatisfied"
    <3>1. ~(s.after \subseteq all)
      BY <2>6 DEF HasGap
    <3>2. ~(s.after \subseteq completed)
      BY <3>1
    <3> QED
      BY <3>2, <2>6 DEF HasGap
  <2>7. CASE gap = "scope_not_covered"
    <3>1. ~(need.scope \subseteq Scopes)
      BY <2>7 DEF HasGap
    <3>2. ~(need.scope \subseteq covered)
      BY <3>1
    <3> QED
      BY <3>2, <2>7 DEF HasGap
  <2> QED
    BY <2>1, <2>3, <2>4, <2>5, <2>6, <2>7 DEF Gaps
<1> QED
  BY <1>2, <1>3

---------------------------------------------------------------------------
(* The invariant *)

\* The plans of a run, from a draft to its replan, and the shapes.
PlanSpec == PlanInit /\ [][PlanNext]_planVars

\* A plan that was accepted is a list in order of the subtasks drafted and of the one added,
\* if any; one that was refused has none, and only what was added is refused unchecked.
PlanOf(draft, n) ==
    /\ Len(planCase) = n /\ planCase[2] = draft
    /\ plan.verdict = "raised" => n = 3 /\ NamesOneTwice(planCase[3])
    /\ plan.verdict = "planner_cycle_detected" => WaitForEachOther(AfterKeys(draft))
    /\ IF plan.verdict = "accepted"
       THEN /\ ~WaitForEachOther(AfterKeys(draft))
            /\ Listed(plan.subtasks, Len(draft.subtasks) + (n - 2)) /\ AsksDiffer(plan.subtasks)
       ELSE plan.subtasks = <<>>
PlanStands ==
    \/ plan = NoPlan
    \/ \E decision \in Decisions, draft \in Drafts : planCase = <<decision, draft>> /\ PlanOf(draft, 2)
    \/ \E draft \in Drafts : PlanOf(draft, 3)

\* What was assessed are the subtasks there are.
AssessmentStands ==
    assessed.made =>
        /\ plan # NoPlan
        /\ \E support \in [IdsOf(plan.subtasks) -> SUBSET DOMAIN Findings], need \in Requirements,
              completed \in SUBSET IdsOf(plan.subtasks), covered \in SUBSET Scopes :
            /\ assessed.support = support /\ assessed.need = need
            /\ assessed.gaps = Assess(plan.subtasks, support, need, completed, covered)

\* The verdict on a shape is that of the shape.
ShapeStands ==
    /\ shape.kind = "locator" => shape.of \in Locators /\ (shape.verdict => ValidLocator(shape.of))
    /\ shape.kind = "citation" => shape.of \in CitationShapes /\ (shape.verdict => ValidCitation(shape.of))
    /\ shape.kind = "bundle" => (shape.verdict => ValidBundle(shape.of))

PlanInv == PlanStands /\ AssessmentStands /\ ShapeStands

LEMMA PlanInvInit == PlanInit => PlanInv
  BY DEF PlanInit, PlanInv, PlanStands, AssessmentStands, ShapeStands, NoPlan, NoAssessment, NoShape

\* PlanApprovedBrief: the codes are those of the checks, the subtasks those formed.
LEMMA PlanApprovedBriefKeeps ==
  ASSUME PlanInv, PlanApprovedBrief
  PROVE  PlanInv'
<1>1. PICK decision \in Decisions, draft \in Drafts :
        /\ planCase' = <<decision, draft>>
        /\ plan' = [verdict |-> PlanCode(decision, draft),
                    subtasks |-> IF PlanCode(decision, draft) = "accepted" THEN Formal(draft) ELSE <<>>]
  BY DEF PlanApprovedBrief
<1> DEFINE code == PlanCode(decision, draft)
<1>2. plan'.verdict = code /\ plan'.subtasks = IF code = "accepted" THEN Formal(draft) ELSE <<>>
  BY <1>1
<1>3. /\ code # "raised"
      /\ code = "planner_cycle_detected" => WaitForEachOther(AfterKeys(draft))
      /\ code = "accepted" =>
            ~WaitForEachOther(AfterKeys(draft)) /\ Listed(Formal(draft), Len(draft.subtasks)) /\ AsksDiffer(Formal(draft))
  BY PlanCodeIs, DraftWaits
<1> HIDE DEF code
<1>4. Len(planCase') = 2 /\ (planCase')[2] = draft /\ Len(draft.subtasks) + (2 - 2) = Len(draft.subtasks)
  BY <1>1, DraftKeys
<1>5. PlanOf(draft, 2)'
  BY <1>2, <1>3, <1>4 DEF PlanOf
<1>6. PlanStands'
  BY <1>1, <1>5 DEF PlanStands
<1>7. AssessmentStands'
  BY DEF PlanInv, AssessmentStands, PlanApprovedBrief
<1>8. ShapeStands'
  BY DEF PlanInv, ShapeStands, PlanApprovedBrief
<1> QED
  BY <1>6, <1>7, <1>8 DEF PlanInv

\* AssessEvidenceGraph: what is kept is what the gaps were found from.
LEMMA AssessEvidenceGraphKeeps ==
  ASSUME PlanInv, AssessEvidenceGraph
  PROVE  PlanInv'
<1>1. PlanStands' /\ ShapeStands'
  BY DEF PlanInv, PlanStands, PlanOf, ShapeStands, AssessEvidenceGraph
<1>2. plan.subtasks # <<>> /\ plan' = plan
  BY DEF AssessEvidenceGraph
<1>3. plan # NoPlan
  BY <1>2 DEF NoPlan
<1> DEFINE ids == IdsOf(plan.subtasks)
<1>4. PICK poor \in ids, found \in SUBSET DOMAIN Findings, done \in BOOLEAN,
           covered \in SUBSET Scopes, need \in Requirements :
        LET support == [s \in ids |-> IF s = poor THEN found ELSE DOMAIN Findings]
            completed == IF done THEN ids ELSE ids \ {poor}
        IN  assessed' = [made |-> TRUE, gaps |-> Assess(plan.subtasks, support, need, completed, covered),
                         support |-> support, completed |-> completed, covered |-> covered, need |-> need]
  BY DEF AssessEvidenceGraph
<1> DEFINE support == [s \in ids |-> IF s = poor THEN found ELSE DOMAIN Findings]
           completed == IF done THEN ids ELSE ids \ {poor}
<1>5. support \in [ids -> SUBSET DOMAIN Findings] /\ completed \in SUBSET ids
  OBVIOUS
<1>6. assessed' = [made |-> TRUE, gaps |-> Assess(plan.subtasks, support, need, completed, covered),
                   support |-> support, completed |-> completed, covered |-> covered, need |-> need]
  BY <1>4
<1> HIDE DEF support, completed
<1>7. /\ assessed'.support = support /\ assessed'.need = need
      /\ assessed'.gaps = Assess(plan.subtasks, support, need, completed, covered)
  BY <1>6
<1>8. AssessmentStands'
  BY <1>2, <1>3, <1>5, <1>7 DEF AssessmentStands
<1> QED
  BY <1>1, <1>8 DEF PlanInv

\* ApplyReplan: one more, and the whole in an order by rounds.
LEMMA ApplyReplanKeeps ==
  ASSUME PlanInv, ApplyReplan
  PROVE  PlanInv'
<1>1. plan.verdict = "accepted" /\ ~assessed.made /\ Len(planCase) = 2 /\ UNCHANGED <<assessed, shape>>
  BY DEF ApplyReplan
<1>2. PICK proposal \in Proposals :
        /\ planCase' = Append(planCase, proposal)
        /\ IF ReplanCode(plan.subtasks, proposal) = "accepted"
           THEN \E order \in ByRounds([s \in IdsOf(Added(plan.subtasks, proposal)) |-> s.after]) :
                    plan' = [verdict |-> "accepted", subtasks |-> order]
           ELSE plan' = [verdict |-> ReplanCode(plan.subtasks, proposal), subtasks |-> <<>>]
  BY DEF ApplyReplan
<1>3. PICK decision \in Decisions, draft \in Drafts : planCase = <<decision, draft>> /\ PlanOf(draft, 2)
  <2>1. plan # NoPlan
    BY <1>1 DEF NoPlan
  <2>2. \A draft \in Drafts : ~PlanOf(draft, 3)
    BY <1>1 DEF PlanOf
  <2> QED
    BY <2>1, <2>2 DEF PlanInv, PlanStands
<1> DEFINE n == Len(draft.subtasks)
           subtasks == plan.subtasks
<1>4. n \in Nat /\ n + (2 - 2) = n /\ n + (3 - 2) = n + 1
  BY DraftKeys
<1>5. ~WaitForEachOther(AfterKeys(draft)) /\ Listed(subtasks, n) /\ AsksDiffer(subtasks)
  BY <1>1, <1>3, <1>4 DEF PlanOf
<1>6. planCase = <<decision, draft>> /\ planCase' = Append(planCase, proposal)
  BY <1>2, <1>3
<1>7. Len(planCase') = 3 /\ (planCase')[2] = draft /\ (planCase')[3] = proposal
  <2> DEFINE S == {decision, draft, proposal}
  <2>1. planCase \in Seq(S) /\ Len(planCase) = 2 /\ planCase[2] = draft /\ proposal \in S
    BY <1>6
  <2> HIDE DEF S
  <2> QED
    BY <2>1, <1>6, AppendProperties
<1>8. \/ plan'.verdict = "accepted" /\ Listed(plan'.subtasks, n + 1) /\ AsksDiffer(plan'.subtasks)
      \/ /\ plan'.verdict \in {"replan_scope_violation", "replan_dependency_invalid", "replan_not_admissible"}
         /\ plan'.subtasks = <<>>
      \/ plan'.verdict = "raised" /\ plan'.subtasks = <<>> /\ NamesOneTwice(proposal)
  <2>1. CASE \E i \in DOMAIN subtasks : subtasks[i].asks = proposal.asks
    <3>1. ReplanCode(subtasks, proposal) \in
            {"replan_scope_violation", "replan_dependency_invalid", "replan_not_admissible"}
      BY <2>1 DEF ReplanCode
    <3>2. plan' = [verdict |-> ReplanCode(subtasks, proposal), subtasks |-> <<>>]
      BY <1>2, <3>1
    <3>3. plan'.verdict = ReplanCode(subtasks, proposal) /\ plan'.subtasks = <<>>
      BY <3>2
    <3> QED
      BY <3>1, <3>3
  <2>2. CASE ~\E i \in DOMAIN subtasks : subtasks[i].asks = proposal.asks
    <3>1. Listed(Added(subtasks, proposal), n + 1) /\ AsksDiffer(Added(subtasks, proposal))
      BY <2>2, <1>4, <1>5, AddedIs
    <3>2. SubtasksFit(Added(subtasks, proposal)) /\ n + 1 \in Nat
      <4> DEFINE all == Added(subtasks, proposal)
                 m == n + 1
      <4>1. m \in Nat /\ Listed(all, m) /\ AsksDiffer(all)
        BY <1>4, <3>1
      <4> HIDE DEF all, m
      <4>2. SubtasksFit(all)
        BY <4>1, OrderedSubtasksFit DEF Listed
      <4> QED
        BY <4>1, <4>2 DEF all, m
    <3>3. CASE ReplanCode(subtasks, proposal) = "accepted"
      <4>1. PICK order \in ByRounds([s \in IdsOf(Added(subtasks, proposal)) |-> s.after]) :
              plan' = [verdict |-> "accepted", subtasks |-> order]
        BY <1>2, <3>3
      <4>2. Listed(order, n + 1) /\ AsksDiffer(order)
        BY <3>1, <3>2, ReorderedIs
      <4>3. plan'.verdict = "accepted" /\ plan'.subtasks = order
        BY <4>1
      <4> QED
        BY <4>2, <4>3
    <3>4. CASE ReplanCode(subtasks, proposal) # "accepted"
      <4>1. \/ ReplanCode(subtasks, proposal) \in {"replan_scope_violation", "replan_dependency_invalid"}
            \/ ReplanCode(subtasks, proposal) = "raised" /\ NamesOneTwice(proposal)
        BY <2>2, <3>2, <3>4 DEF ReplanCode
      <4>2. plan' = [verdict |-> ReplanCode(subtasks, proposal), subtasks |-> <<>>]
        BY <1>2, <3>4
      <4>3. plan'.verdict = ReplanCode(subtasks, proposal) /\ plan'.subtasks = <<>>
        BY <4>2
      <4> QED
        BY <4>1, <4>3
    <3> QED
      BY <3>3, <3>4
  <2> QED
    BY <2>1, <2>2
<1>9. PlanOf(draft, 3)'
  BY <1>4, <1>5, <1>7, <1>8 DEF PlanOf
<1>10. PlanStands'
  BY <1>9 DEF PlanStands
<1>11. AssessmentStands' /\ ShapeStands'
  BY <1>1 DEF PlanInv, AssessmentStands, ShapeStands
<1> QED
  BY <1>10, <1>11 DEF PlanInv

\* CheckShape: the verdict on a locator, a citation or a bundle.
LEMMA CheckShapeKeeps ==
  ASSUME PlanInv, CheckShape
  PROVE  PlanInv'
<1>1. PlanStands' /\ AssessmentStands'
  BY DEF PlanInv, PlanStands, PlanOf, AssessmentStands, CheckShape
<1>2. CASE \E l \in Locators : shape' = [kind |-> "locator", of |-> l, verdict |-> ValidLocator(l)]
  <2>1. PICK l \in Locators : shape' = [kind |-> "locator", of |-> l, verdict |-> ValidLocator(l)]
    BY <1>2
  <2>2. shape'.kind = "locator" /\ shape'.of = l /\ shape'.verdict = ValidLocator(l)
    BY <2>1
  <2> QED
    BY <1>1, <2>2 DEF PlanInv, ShapeStands
<1>3. CASE \E c \in CitationShapes : shape' = [kind |-> "citation", of |-> c, verdict |-> ValidCitation(c)]
  <2>1. PICK c \in CitationShapes : shape' = [kind |-> "citation", of |-> c, verdict |-> ValidCitation(c)]
    BY <1>3
  <2>2. shape'.kind = "citation" /\ shape'.of = c /\ shape'.verdict = ValidCitation(c)
    BY <2>1
  <2> QED
    BY <1>1, <2>2 DEF PlanInv, ShapeStands
<1>4. CASE \E b \in Bundles : shape' = [kind |-> "bundle", of |-> b, verdict |-> ValidBundle(b)]
  <2>1. PICK b \in Bundles : shape' = [kind |-> "bundle", of |-> b, verdict |-> ValidBundle(b)]
    BY <1>4
  <2>2. shape'.kind = "bundle" /\ shape'.of = b /\ shape'.verdict = ValidBundle(b)
    BY <2>1
  <2> QED
    BY <1>1, <2>2 DEF PlanInv, ShapeStands
<1> QED
  BY <1>2, <1>3, <1>4 DEF CheckShape

\* PlanInv holds in every state.
THEOREM PlanInvHolds == PlanSpec => []PlanInv
<1>1. PlanInit => PlanInv
  BY PlanInvInit
<1>2. PlanInv /\ [PlanNext]_planVars => PlanInv'
  <2> SUFFICES ASSUME PlanInv, [PlanNext]_planVars PROVE PlanInv'
    OBVIOUS
  <2>1. CASE PlanApprovedBrief
    BY <2>1, PlanApprovedBriefKeeps
  <2>2. CASE AssessEvidenceGraph
    BY <2>2, AssessEvidenceGraphKeeps
  <2>3. CASE ApplyReplan
    BY <2>3, ApplyReplanKeeps
  <2>4. CASE CheckShape
    BY <2>4, CheckShapeKeeps
  <2>5. CASE UNCHANGED planVars
    BY <2>5 DEF planVars, PlanInv, PlanStands, PlanOf, AssessmentStands, ShapeStands
  <2> QED
    BY <2>1, <2>2, <2>3, <2>4, <2>5 DEF PlanNext
<1> QED
  BY <1>1, <1>2, PTL DEF PlanSpec

\* What the invariant says of the order of a plan and of the codes.
LEMMA PlanOrdered ==
  ASSUME PlanInv
  PROVE  RaisedOnlyForRepeats /\ PlanIsOrdered
<1>1. CASE plan = NoPlan
  BY <1>1 DEF NoPlan, RaisedOnlyForRepeats, PlanIsOrdered
<1>2. ASSUME NEW n \in {2, 3}, NEW draft \in Drafts, PlanOf(draft, n)
      PROVE  RaisedOnlyForRepeats /\ PlanIsOrdered
  <2>1. /\ RaisedOnlyForRepeats /\ Len(planCase) = n /\ planCase[2] = draft
        /\ plan.verdict = "planner_cycle_detected" => WaitForEachOther(AfterKeys(draft))
    BY <1>2 DEF PlanOf, RaisedOnlyForRepeats
  <2>2. CASE plan.verdict = "accepted"
    <3>1. /\ ~WaitForEachOther(AfterKeys(draft))
          /\ Len(plan.subtasks) = Len(draft.subtasks) + (n - 2) /\ InOrder(plan.subtasks)
      BY <1>2, <2>2 DEF PlanOf, Listed
    <3>2. \A i \in DOMAIN plan.subtasks : plan.subtasks[i].after \subseteq {plan.subtasks[j] : j \in 1..(i - 1)}
      BY <3>1 DEF InOrder
    <3> QED
      BY <2>1, <2>2, <3>1, <3>2 DEF PlanIsOrdered
  <2>3. CASE plan.verdict # "accepted"
    <3>1. plan.subtasks = <<>>
      BY <1>2, <2>3 DEF PlanOf
    <3> QED
      BY <2>1, <2>3, <3>1 DEF PlanIsOrdered
  <2> QED
    BY <2>2, <2>3
<1> QED
  BY <1>1, <1>2 DEF PlanInv, PlanStands

\* What it says of gaps.
LEMMA GapsClose ==
  ASSUME PlanInv
  PROVE  MoreEvidenceClosesGaps
<1> SUFFICES ASSUME assessed.made, NEW e \in DOMAIN Findings,
                    NEW gap \in Assess(plan.subtasks,
                                       [s \in DOMAIN assessed.support |-> assessed.support[s] \cup {e}],
                                       assessed.need, DOMAIN assessed.support, Scopes)
             PROVE  gap[1] \in {g[1] : g \in assessed.gaps}
  BY DEF MoreEvidenceClosesGaps
<1> DEFINE ids == IdsOf(plan.subtasks)
<1>1. PICK support \in [ids -> SUBSET DOMAIN Findings], need \in Requirements,
           completed \in SUBSET ids, covered \in SUBSET Scopes :
        /\ assessed.support = support /\ assessed.need = need
        /\ assessed.gaps = Assess(plan.subtasks, support, need, completed, covered)
  BY DEF PlanInv, AssessmentStands
<1> DEFINE more == [s \in ids |-> support[s] \cup {e}]
<1>2. gap \in Assess(plan.subtasks, more, need, ids, Scopes)
  <2>1. DOMAIN support = ids
    OBVIOUS
  <2>2. [s \in DOMAIN assessed.support |-> assessed.support[s] \cup {e}] = more
    BY <1>1, <2>1
  <2> HIDE DEF more
  <2> QED
    BY <1>1, <2>1, <2>2
<1>3. PICK s \in ids, g \in Gaps : gap = <<s, g>>
  BY <1>2 DEF Assess
<1>4. HasGap(g, s, more[s], need, ids, Scopes)
  <2> HIDE DEF more, ids
  <2>1. HasGap(gap[2], gap[1], more[gap[1]], need, ids, Scopes)
    BY <1>2 DEF Assess
  <2> QED
    BY <1>3, <2>1
<1>5. /\ more[s] = support[s] \cup {e}
      /\ support[s] \in SUBSET DOMAIN Findings /\ completed \in SUBSET ids /\ covered \in SUBSET Scopes
  OBVIOUS
<1> HIDE DEF more, ids
<1>10. HasGap(g, s, support[s] \cup {e}, need, ids, Scopes)
  BY <1>4, <1>5
<1>6. PICK h \in Gaps : HasGap(h, s, support[s], need, completed, covered)
  <2> DEFINE evidence == support[s]
  <2>1. evidence \in SUBSET DOMAIN Findings /\ HasGap(g, s, evidence \cup {e}, need, ids, Scopes)
    BY <1>5, <1>10
  <2> HIDE DEF evidence
  <2>2. \E h \in Gaps : HasGap(h, s, evidence, need, completed, covered)
    BY <2>1, <1>5, GapsStay
  <2> QED
    BY <2>2 DEF evidence
<1>7. <<s, h>> \in Assess(plan.subtasks, support, need, completed, covered)
  BY <1>6 DEF Assess, ids
<1>8. <<s, h>> \in assessed.gaps
  BY <1>1, <1>7
<1> QED
  BY <1>3, <1>8

\* And of shapes.
LEMMA ShapesUnambiguous ==
  ASSUME PlanInv
  PROVE  ShapesAreUnambiguous
<1>1. ASSUME shape.kind = "locator", shape.verdict, NEW other \in Modalities
      PROVE  ValidLocator([shape.of EXCEPT !.modality = other]) <=> (other = "text" <=> shape.of.modality = "text")
  <2>1. shape.of \in Locators /\ ValidLocator(shape.of)
    BY <1>1 DEF PlanInv, ShapeStands
  <2> DEFINE l == shape.of
             m == [l EXCEPT !.modality = other]
  <2>2. l \in [passage : BOOLEAN, page : Int, start : Int, end : Int, bbox : {"absent", "area", "flat"},
               space : BOOLEAN, modality : Modalities]
    BY <2>1, PlanConstants
  <2>3. /\ m.passage = l.passage /\ m.page = l.page /\ m.start = l.start /\ m.end = l.end
        /\ m.bbox = l.bbox /\ m.space = l.space /\ m.modality = other
    BY <2>2
  <2>4. l.modality = "text" <=> l.bbox = "absent"
    BY <2>1, <2>2 DEF ValidLocator
  <2> HIDE DEF m
  <2>5. ASSUME ValidLocator(m) PROVE m.modality = "text" <=> m.bbox = "absent"
    BY <2>5, <2>3, <1>1 DEF ValidLocator
  <2>6. ASSUME other = "text" <=> l.modality = "text" PROVE ValidLocator(m)
    BY <2>1, <2>3, <2>6 DEF ValidLocator
  <2>7. ValidLocator(m) <=> (other = "text" <=> l.modality = "text")
    BY <2>3, <2>4, <2>5, <2>6
  <2> QED
    BY <2>7 DEF m
<1>2. ASSUME shape.kind = "citation", shape.verdict
      PROVE  shape.of.quote <=> shape.of.end > shape.of.start
  <2> DEFINE c == shape.of
  <2>1. c \in [quote : BOOLEAN, start : Int, end : Int] /\ ValidCitation(c)
    BY <1>2, PlanConstants DEF PlanInv, ShapeStands
  <2> QED
    BY <2>1 DEF ValidCitation, PairedSpan, Absent
<1>3. ASSUME shape.kind = "bundle", shape.verdict, NEW i \in DOMAIN shape.of.citations
      PROVE  LET b == shape.of
             IN  /\ \E c \in DOMAIN b.claims : b.claims[c].id = b.citations[i].claim /\ b.claims[c].task = b.briefTask
                 /\ \E e \in DOMAIN b.evidence :
                        b.evidence[e].id = b.citations[i].evidence /\ b.evidence[e].source \in b.sources
  <2> DEFINE b == shape.of
  <2>1. ValidBundle(b)
    BY <1>3 DEF PlanInv, ShapeStands
  <2>2. /\ b.briefTask = b.task
        /\ b.citations[i].claim \in {b.claims[k].id : k \in DOMAIN b.claims}
        /\ b.citations[i].evidence \in {b.evidence[k].id : k \in DOMAIN b.evidence}
        /\ \A k \in DOMAIN b.evidence : b.evidence[k].source \in b.sources
        /\ \A k \in DOMAIN b.claims : b.claims[k].task = b.task
    BY <1>3, <2>1 DEF ValidBundle
  <2> QED
    BY <2>2
<1> QED
  BY <1>1, <1>2, <1>3 DEF ShapesAreUnambiguous

\* Plans are sound, whatever the drafts and proposals: PlansAreSound.
THEOREM PlansAlwaysSound == PlanSpec => []PlansAreSound
<1>1. PlanInv => PlansAreSound
  BY PlanOrdered, GapsClose, ShapesUnambiguous DEF PlansAreSound
<1> QED
  BY <1>1, PlanInvHolds, PTL
=============================================================================
