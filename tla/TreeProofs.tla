----------------------------- MODULE TreeProofs -----------------------------
(***************************************************************************)
(* What Reached means, whatever the tree: the least set of paths that has  *)
(* the start and the entries of its directories.                           *)
(*                                                                         *)
(* The induction principle is stated about sets of numbers: a set with 0   *)
(* and the successors of its members holds every number.                   *)
(***************************************************************************)
EXTENDS Trees, FiniteSetTheorems, SequenceTheorems, WellFoundedInduction, TLAPS

LEMMA LeastNumber ==
  ASSUME NEW T \in SUBSET Nat, T # {}
  PROVE  \E n \in T : \A m \in T : n <= m
<1>1. PICK n \in T : \A m \in T : ~ (<<m, n>> \in OpToRel(<, Nat))
  BY WFMin, NatLessThanWellFounded
<1>2. \A m \in T : m < n => <<m, n>> \in OpToRel(<, Nat)
  BY DEF OpToRel
<1>3. \A m \in T : ~ (m < n)
  BY <1>1, <1>2, Zenon
<1>4. \A m \in T : n <= m
  BY <1>3
<1> QED
  BY <1>4

LEMMA SetInduction ==
  ASSUME NEW T \in SUBSET Nat, 0 \in T, \A n \in T : n + 1 \in T
  PROVE  T = Nat
<1>1. SUFFICES ASSUME Nat \ T # {} PROVE FALSE
  OBVIOUS
<1>2. PICK n \in Nat \ T : \A m \in Nat \ T : n <= m
  BY <1>1, LeastNumber
<1>3. n # 0
  OBVIOUS
<1>4. n - 1 \in Nat /\ n - 1 \notin T
  BY <1>3
<1> QED
  BY <1>2, <1>4

(* A function defined by recursion on a number exists. *)
Iterates(d, n, V, a, G) ==
  /\ d \in [0 .. n -> V]
  /\ d[0] = a /\ \A k \in 1 .. n : d[k] = G[<<k, d[k - 1]>>]

LEMMA Recursion ==
  ASSUME NEW V, NEW a \in V, NEW G \in [Nat \X V -> V], NEW n \in Nat
  PROVE  \E d : Iterates(d, n, V, a, G)
<1> DEFINE Is(d, m) == Iterates(d, m, V, a, G)
           T == {m \in Nat : \E d : Is(d, m)}
<1>1. 0 \in T
  <2> DEFINE d == [k \in 0 .. 0 |-> a]
  <2>1. Is(d, 0)
    BY DEF Iterates
  <2> QED
    BY <2>1
<1>2. ASSUME NEW m \in T PROVE m + 1 \in T
  <2>1. PICK d : Is(d, m)
    OBVIOUS
  <2> DEFINE e == [k \in 0 .. m + 1 |-> IF k = m + 1 THEN G[<<m + 1, d[m]>>] ELSE d[k]]
  <2>2. /\ G[<<m + 1, d[m]>>] \in V
        /\ \A k \in 0 .. m : e[k] = d[k]
        /\ e[m + 1] = G[<<m + 1, e[m]>>]
    <3>1. d[m] \in V /\ <<m + 1, d[m]>> \in Nat \X V
      BY <2>1 DEF Iterates
    <3>2. \A k \in 0 .. m : e[k] = d[k]
      OBVIOUS
    <3>3. e[m + 1] = G[<<m + 1, d[m]>>] /\ e[m] = d[m]
      OBVIOUS
    <3>4. G[<<m + 1, d[m]>>] \in V
      BY <3>1
    <3> QED
      BY <3>2, <3>3, <3>4
  <2>3. e \in [0 .. m + 1 -> V] /\ e[0] = a
    BY <2>1, <2>2 DEF Iterates
  <2>4. ASSUME NEW k \in 1 .. m + 1 PROVE e[k] = G[<<k, e[k - 1]>>]
    <3>1. CASE k = m + 1
      BY <2>2, <3>1
    <3>2. CASE k \in 1 .. m
      BY <2>1, <2>2, <3>2 DEF Iterates
    <3> QED
      BY <3>1, <3>2
  <2>5. Is(e, m + 1)
    BY <2>3, <2>4 DEF Iterates
  <2> HIDE DEF e, Is
  <2> QED
    BY <2>5
<1>3. T = Nat
  <2> HIDE DEF T
  <2>1. T \in SUBSET Nat
    BY DEF T
  <2> QED
    BY <1>1, <1>2, <2>1, SetInduction
<1> QED
  BY <1>3

-----------------------------------------------------------------------------
LEMMA BelowExists ==
  ASSUME NEW tree, NEW T, NEW S
  PROVE  Below(tree, T, S) \subseteq S
BY DEF Below, Entries

LEMMA BelowMonotone ==
  ASSUME NEW tree, NEW S, NEW U, U \subseteq S, NEW X, NEW T, T \subseteq X
  PROVE  Below(tree, T, U) \subseteq Below(tree, X, S)
BY DEF Below, Entries, IsKind

(* The levels are what their recursive definition says. *)
IsLevels(d, tree, start, S, n) ==
  d = [k \in 0 .. n |-> IF k = 0 THEN {start} \cap S
                        ELSE d[k - 1] \cup Below(tree, d[k - 1], S)]

LEMMA LevelsStep ==
  ASSUME NEW tree, NEW start, NEW S, IsFiniteSet(S)
  PROVE  /\ Levels(tree, start, S)[0] = {start} \cap S
         /\ \A k \in 1 .. Cardinality(S) :
              Levels(tree, start, S)[k] =
                Levels(tree, start, S)[k - 1]
                  \cup Below(tree, Levels(tree, start, S)[k - 1], S)
<1> DEFINE n == Cardinality(S)
           V == SUBSET S
           a == {start} \cap S
           G == [x \in Nat \X V |-> x[2] \cup Below(tree, x[2], S)]
<1>1. n \in Nat
  BY FS_CardinalityType
<1>2. G \in [Nat \X V -> V]
  BY BelowExists
<1>3. PICK d : Iterates(d, n, V, a, G)
  <2>1. a \in V
    OBVIOUS
  <2> HIDE DEF G, n, V, a
  <2> QED
    BY <1>1, <1>2, <2>1, Recursion
<1>4. ASSUME NEW k \in 0 .. n
      PROVE  d[k] = IF k = 0 THEN a ELSE d[k - 1] \cup Below(tree, d[k - 1], S)
  <2>1. CASE k = 0
    BY <1>3, <2>1 DEF Iterates
  <2>2. CASE k \in 1 .. n
    <3>1. k - 1 \in 0 .. n /\ k \in Nat /\ k # 0
      BY <1>1, <2>2
    <3>2. d[k - 1] \in V /\ d[k] = G[<<k, d[k - 1]>>]
      BY <1>3, <2>2, <3>1 DEF Iterates
    <3>3. G[<<k, d[k - 1]>>] = d[k - 1] \cup Below(tree, d[k - 1], S)
      BY <3>1, <3>2
    <3> QED
      BY <3>1, <3>2, <3>3
  <2> QED
    BY <1>1, <2>1, <2>2
<1>5. d = [k \in 0 .. n |-> d[k]]
  BY <1>3 DEF Iterates
<1>6. IsLevels(d, tree, start, S, n)
  <2> HIDE DEF n, V, G
  <2> QED
    BY <1>4, <1>5 DEF IsLevels
<1>7. IsLevels(Levels(tree, start, S), tree, start, S, n)
  BY <1>6, Zenon DEF IsLevels, Levels
<1>8. ASSUME NEW e, IsLevels(e, tree, start, S, n), NEW k \in 0 .. n
      PROVE  e[k] = IF k = 0 THEN a ELSE e[k - 1] \cup Below(tree, e[k - 1], S)
  BY <1>8 DEF IsLevels
<1>9. \A k \in 1 .. n : k \in 0 .. n /\ k # 0
  BY <1>1
<1>10. 0 \in 0 .. n
  BY <1>1
<1> HIDE DEF n, G, V
<1> QED
  BY <1>7, <1>8, <1>9, <1>10 DEF n

-----------------------------------------------------------------------------
(* A set with the start and the entries of its directories has all that is *)
(* reached.                                                                *)
LEMMA ReachedIsLeast ==
  ASSUME NEW tree, NEW start, NEW S, IsFiniteSet(S),
         NEW X, start \in S => start \in X, Below(tree, X, S) \subseteq X
  PROVE  Reached(tree, start, S) \subseteq X
<1> DEFINE n == Cardinality(S)
           d == Levels(tree, start, S)
           T == {k \in Nat : k <= n => d[k] \subseteq X}
<1>1. n \in Nat
  BY FS_CardinalityType
<1>2. /\ d[0] = {start} \cap S
      /\ \A k \in 1 .. n : d[k] = d[k - 1] \cup Below(tree, d[k - 1], S)
  BY LevelsStep
<1> HIDE DEF d, n
<1>3. 0 \in T
  BY <1>2
<1>4. ASSUME NEW k \in T PROVE k + 1 \in T
  <2> SUFFICES ASSUME k + 1 <= n PROVE d[k + 1] \subseteq X
    OBVIOUS
  <2>1. k + 1 \in 1 .. n /\ k <= n /\ (k + 1) - 1 = k
    BY <1>1
  <2>2. d[k] \subseteq X
    BY <2>1
  <2>3. Below(tree, d[k], S) \subseteq Below(tree, X, S)
    BY <2>2, BelowMonotone
  <2>4. d[k + 1] = d[k] \cup Below(tree, d[k], S)
    BY <1>2, <2>1
  <2> QED
    BY <2>2, <2>3, <2>4
<1>5. T = Nat
  <2> HIDE DEF T
  <2>1. T \in SUBSET Nat
    BY DEF T
  <2> QED
    BY <1>3, <1>4, <2>1, SetInduction
<1>6. d[n] \subseteq X
  <2>1. n \in T
    BY <1>1, <1>5
  <2> QED
    BY <1>1, <2>1
<1> QED
  BY <1>6 DEF Reached, d, n

LEMMA ReachedExists ==
  ASSUME NEW tree, NEW start, NEW S, IsFiniteSet(S)
  PROVE  Reached(tree, start, S) \subseteq S
BY ReachedIsLeast, BelowExists

(* As long as a level adds a path there are that many paths; at the last   *)
(* level there are no more.                                                *)
LEMMA ReachedIsClosed ==
  ASSUME NEW tree, NEW start, NEW S, IsFiniteSet(S)
  PROVE  /\ start \in S => start \in Reached(tree, start, S)
         /\ Below(tree, Reached(tree, start, S), S) \subseteq Reached(tree, start, S)
<1> DEFINE n == Cardinality(S)
           d == Levels(tree, start, S)
           Closed(k) == Below(tree, d[k], S) \subseteq d[k]
           Full(k) == IsFiniteSet(d[k]) /\ Cardinality(d[k]) >= k
           Good(k) == /\ d[k] \subseteq S /\ {start} \cap S \subseteq d[k]
                      /\ Closed(k) \/ Full(k)
           T == {k \in Nat : k <= n => Good(k)}
<1>1. n \in Nat
  BY FS_CardinalityType
<1>2. /\ d[0] = {start} \cap S
      /\ \A k \in 1 .. n : d[k] = d[k - 1] \cup Below(tree, d[k - 1], S)
  BY LevelsStep
<1> HIDE DEF d
<1>3. 0 \in T
  <2>1. d[0] \subseteq S
    BY <1>2
  <2>2. IsFiniteSet(d[0]) /\ Cardinality(d[0]) \in Nat
    BY <2>1, FS_Subset, FS_CardinalityType
  <2>3. Good(0)
    BY <1>2, <2>1, <2>2
  <2> QED
    BY <2>3
<1>4. ASSUME NEW k \in T PROVE k + 1 \in T
  <2> SUFFICES ASSUME k + 1 <= n PROVE Good(k + 1)
    OBVIOUS
  <2>1. k + 1 \in 1 .. n /\ k <= n /\ (k + 1) - 1 = k /\ k \in Nat
    BY <1>1
  <2>2. d[k + 1] = d[k] \cup Below(tree, d[k], S)
    BY <1>2, <2>1
  <2>3. Good(k)
    BY <2>1
  <2>4. d[k + 1] \subseteq S /\ {start} \cap S \subseteq d[k + 1]
    BY <2>2, <2>3, BelowExists
  <2>5. CASE Closed(k)
    BY <2>2, <2>4, <2>5
  <2>6. CASE ~ Closed(k)
    <3>1. /\ IsFiniteSet(d[k + 1]) /\ Cardinality(d[k + 1]) \in Nat
          /\ IsFiniteSet(d[k]) /\ Cardinality(d[k]) \in Nat
      BY <2>3, <2>4, FS_Subset, FS_CardinalityType
    <3>2. d[k] \subseteq d[k + 1] /\ d[k] # d[k + 1]
      BY <2>2, <2>6
    <3>3. Cardinality(d[k]) < Cardinality(d[k + 1])
      BY <3>1, <3>2, FS_Subset
    <3> QED
      BY <2>1, <2>3, <2>4, <2>6, <3>1, <3>3
  <2> QED
    BY <2>5, <2>6
<1>5. T = Nat
  <2> HIDE DEF T
  <2>1. T \in SUBSET Nat
    BY DEF T
  <2> QED
    BY <1>3, <1>4, <2>1, SetInduction
<1>6. Good(n)
  <2>1. n \in T
    BY <1>1, <1>5
  <2> QED
    BY <1>1, <2>1
<1>7. Closed(n)
  <2>1. CASE Full(n)
    <3>1. Cardinality(d[n]) >= n /\ Cardinality(d[n]) \in Nat
      BY <2>1, FS_CardinalityType
    <3>2. d[n] = S
      BY <1>1, <1>6, <3>1, FS_Subset
    <3> QED
      BY <3>2, BelowExists
  <2> QED
    BY <1>6, <2>1
<1> QED
  BY <1>6, <1>7 DEF Reached, d

(* With fewer paths nothing more is reached. *)
LEMMA ReachedShrinks ==
  ASSUME NEW tree, NEW start, NEW S, IsFiniteSet(S), NEW U, U \subseteq S
  PROVE  Reached(tree, start, U) \subseteq Reached(tree, start, S)
<1>1. IsFiniteSet(U)
  BY FS_Subset
<1>2. start \in U => start \in Reached(tree, start, S)
  BY ReachedIsClosed
<1>3. Below(tree, Reached(tree, start, S), U) \subseteq Reached(tree, start, S)
  BY BelowMonotone, ReachedIsClosed
<1> QED
  BY <1>1, <1>2, <1>3, ReachedIsLeast

-----------------------------------------------------------------------------
(* Within filters a list. *)
IsWithin(d, list, S) ==
  d = [i \in 0 .. Len(list) |->
         IF i = 0 THEN <<>>
         ELSE IF list[i] \in S THEN Append(d[i - 1], list[i]) ELSE d[i - 1]]

Members(list) == {list[i] : i \in 1 .. Len(list)}

Once(list) == \A i, j \in 1 .. Len(list) : list[i] = list[j] => i = j

LEMMA WithinMembers ==
  ASSUME NEW P, NEW list \in Seq(P), NEW S
  PROVE  /\ Within(list, S) \in Seq(P)
         /\ Members(Within(list, S)) = Members(list) \cap S
         /\ Once(list) => Once(Within(list, S))
<1> DEFINE n == Len(list)
           Then(i, kept) == IF i \in 1 .. n /\ list[i] \in S
                            THEN Append(kept, list[i]) ELSE kept
           G == [x \in Nat \X Seq(P) |-> Then(x[1], x[2])]
<1>1. n \in Nat /\ \A i \in 1 .. n : list[i] \in P
  BY LenProperties, ElementOfSeq
<1>2. G \in [Nat \X Seq(P) -> Seq(P)]
  BY <1>1
<1>3. PICK d : Iterates(d, n, Seq(P), <<>>, G)
  <2> HIDE DEF G, n
  <2>1. <<>> \in Seq(P)
    OBVIOUS
  <2> QED
    BY <1>1, <1>2, <2>1, Recursion
<1>4. ASSUME NEW i \in 1 .. n
      PROVE  d[i] = IF list[i] \in S THEN Append(d[i - 1], list[i]) ELSE d[i - 1]
  <2>1. i - 1 \in 0 .. n /\ i \in Nat
    BY <1>1
  <2>2. d[i - 1] \in Seq(P)
    BY <1>3, <2>1 DEF Iterates
  <2>3. G[<<i, d[i - 1]>>] = Then(i, d[i - 1])
    BY <2>1, <2>2
  <2> QED
    BY <1>3, <2>3 DEF Iterates
<1>5. IsWithin(d, list, S)
  <2>1. ASSUME NEW i \in 0 .. n
        PROVE  d[i] = IF i = 0 THEN <<>>
                      ELSE IF list[i] \in S THEN Append(d[i - 1], list[i])
                      ELSE d[i - 1]
    <3>1. CASE i = 0
      BY <1>3, <3>1 DEF Iterates
    <3>2. CASE i \in 1 .. n
      <4>1. i # 0
        BY <3>2
      <4> QED
        BY <1>4, <3>2, <4>1
    <3> QED
      BY <1>1, <3>1, <3>2
  <2>2. d = [i \in 0 .. n |-> d[i]]
    BY <1>3 DEF Iterates
  <2> HIDE DEF n
  <2>3. d = [i \in 0 .. n |->
               IF i = 0 THEN <<>>
               ELSE IF list[i] \in S THEN Append(d[i - 1], list[i])
               ELSE d[i - 1]]
    BY <2>1, <2>2
  <2> QED
    BY <2>3 DEF IsWithin, n
<1>6. PICK e : IsWithin(e, list, S) /\ Within(list, S) = e[n]
  BY <1>5, Zenon DEF IsWithin, Within
<1>7. ASSUME NEW i \in 0 .. n
      PROVE  e[i] = IF i = 0 THEN <<>>
                    ELSE IF list[i] \in S THEN Append(e[i - 1], list[i])
                    ELSE e[i - 1]
  BY <1>6, <1>7 DEF IsWithin
<1> DEFINE Good(i) == /\ e[i] \in Seq(P)
                      /\ Members(e[i]) = {list[k] : k \in 1 .. i} \cap S
                      /\ Once(list) => Once(e[i])
           T == {i \in Nat : i <= n => Good(i)}
<1> HIDE DEF n, Then, G
<1>8. 0 \in T
  <2>1. e[0] = <<>>
    BY <1>1, <1>7
  <2>2. e[0] \in Seq(P) /\ Len(e[0]) = 0
    BY <2>1
  <2>3. Good(0)
    BY <2>2 DEF Members, Once
  <2> QED
    BY <2>3
<1>9. ASSUME NEW k \in T PROVE k + 1 \in T
  <2> SUFFICES ASSUME k + 1 <= n PROVE Good(k + 1)
    OBVIOUS
  <2>1. k + 1 \in 0 .. n /\ k + 1 \in 1 .. n /\ k <= n /\ (k + 1) - 1 = k /\ k + 1 # 0
    BY <1>1
  <2>2. Good(k)
    BY <2>1
  <2>3. list[k + 1] \in P
    BY <1>1, <2>1
  <2>4. e[k + 1] = IF list[k + 1] \in S THEN Append(e[k], list[k + 1]) ELSE e[k]
    BY <1>7, <2>1
  <2>5. {list[j] : j \in 1 .. k + 1} = {list[j] : j \in 1 .. k} \cup {list[k + 1]}
    <3>1. 1 .. k + 1 = 1 .. k \cup {k + 1}
      BY <2>1
    <3> QED
      BY <3>1
  <2>6. CASE list[k + 1] \in S
    <3> DEFINE s == e[k]
               x == list[k + 1]
    <3>1. s \in Seq(P) /\ x \in P
      BY <2>2, <2>3
    <3> HIDE DEF s, x
    <3>2. /\ Append(s, x) \in Seq(P)
          /\ Len(Append(s, x)) = Len(s) + 1 /\ Len(s) \in Nat
          /\ \A i \in 1 .. Len(s) : Append(s, x)[i] = s[i]
          /\ Append(s, x)[Len(s) + 1] = x
      BY <3>1, AppendProperties, LenProperties
    <3>3. 1 .. Len(s) + 1 = 1 .. Len(s) \cup {Len(s) + 1}
      BY <3>2
    <3>4. Members(Append(s, x)) = Members(s) \cup {x}
      BY <3>2, <3>3 DEF Members
    <3>5. ASSUME Once(list) PROVE x \notin Members(s)
      <4>1. \A j \in 1 .. k : j \in 1 .. n /\ j # k + 1
        BY <1>1, <2>1
      <4>2. \A j \in 1 .. k : list[j] # list[k + 1]
        BY <2>1, <3>5, <4>1 DEF Once, n
      <4> QED
        BY <2>2, <4>2 DEF s, x
    <3>6. ASSUME Once(list) PROVE Once(Append(s, x))
      <4>1. Once(s)
        BY <2>2, <3>6 DEF s
      <4>2. \A i \in 1 .. Len(s) : s[i] # x
        BY <3>5, <3>6 DEF Members
      <4> QED
        BY <3>2, <3>3, <4>1, <4>2 DEF Once
    <3> QED
      BY <2>2, <2>4, <2>5, <2>6, <3>2, <3>4, <3>6 DEF s, x
  <2>7. CASE list[k + 1] \notin S
    BY <2>2, <2>4, <2>5, <2>7
  <2> QED
    BY <2>6, <2>7
<1>10. T = Nat
  <2> HIDE DEF T
  <2>1. T \in SUBSET Nat
    BY DEF T
  <2> QED
    BY <1>8, <1>9, <2>1, SetInduction
<1>11. Good(n)
  <2>1. n \in T
    BY <1>1, <1>10
  <2> QED
    BY <1>1, <2>1
<1> QED
  BY <1>6, <1>11 DEF Members, n

-----------------------------------------------------------------------------
(* The list of calls of a walk, whose first call is replaced by others. *)
LEMMA FirstReplaced ==
  ASSUME NEW S, NEW s \in Seq(S), s # <<>>, NEW c \in Seq(S),
         NEW t, t = c \o Tail(s)
  PROVE  /\ t \in Seq(S)
         /\ Len(s) \in Nat \ {0} /\ Len(c) \in Nat
         /\ Len(t) = Len(c) + Len(s) - 1
         /\ \A i \in 1 .. Len(c) : t[i] = c[i]
         /\ \A i \in Len(c) + 1 .. Len(t) : t[i] = s[i - Len(c) + 1]
<1>1. /\ Tail(s) \in Seq(S) /\ Len(Tail(s)) = Len(s) - 1
      /\ \A i \in 1 .. Len(Tail(s)) : Tail(s)[i] = s[i + 1]
      /\ Len(s) \in Nat \ {0} /\ Len(c) \in Nat
  BY HeadTailProperties, LenProperties, EmptySeq
<1>2. /\ t \in Seq(S) /\ Len(t) = Len(c) + Len(s) - 1
      /\ \A i \in 1 .. Len(t) :
           t[i] = IF i <= Len(c) THEN c[i] ELSE Tail(s)[i - Len(c)]
  BY <1>1, ConcatProperties
<1>3. ASSUME NEW i \in Len(c) + 1 .. Len(t) PROVE t[i] = s[i - Len(c) + 1]
  BY <1>1, <1>2
<1> QED
  BY <1>1, <1>2, <1>3

(* Two lists of calls and a last call. *)
LEMMA ListsJoined ==
  ASSUME NEW S, NEW a \in Seq(S), NEW b \in Seq(S), NEW e \in S,
         NEW t, t = a \o b \o <<e>>
  PROVE  /\ t \in Seq(S) /\ Len(a) \in Nat /\ Len(b) \in Nat
         /\ Len(t) = Len(a) + Len(b) + 1
         /\ \A i \in 1 .. Len(a) : t[i] = a[i]
         /\ \A i \in Len(a) + 1 .. Len(a) + Len(b) : t[i] = b[i - Len(a)]
         /\ t[Len(a) + Len(b) + 1] = e
<1>1. PICK k, n, ab : k = Len(a) /\ n = Len(b) /\ ab = a \o b
  OBVIOUS
<1>2. k \in Nat /\ n \in Nat
  BY <1>1, LenProperties
<1>3. /\ ab \in Seq(S) /\ Len(ab) = k + n
      /\ \A i \in 1 .. k + n : ab[i] = IF i <= k THEN a[i] ELSE b[i - k]
  BY <1>1, ConcatProperties
<1>4. t = Append(ab, e)
  BY <1>1, <1>3
<1>5. /\ t \in Seq(S) /\ Len(t) = Len(ab) + 1 /\ t[Len(ab) + 1] = e
      /\ \A i \in 1 .. Len(ab) : t[i] = ab[i]
  BY ONLY <1>3, <1>4, e \in S, AppendProperties
<1>6. \A i \in 1 .. k + n : t[i] = IF i <= k THEN a[i] ELSE b[i - k]
  BY <1>3, <1>5
<1> QED
  BY <1>1, <1>2, <1>3, <1>5, <1>6

(* A list with one element more. *)
LEMMA OneMore ==
  ASSUME NEW S, NEW s \in Seq(S), NEW e \in S
  PROVE  Append(s, e) \in Seq(S) /\ Append(s, e) # <<>>
<1>1. PICK t : t = Append(s, e)
  OBVIOUS
<1>2. t \in Seq(S) /\ Len(t) = Len(s) + 1 /\ Len(s) \in Nat
  BY <1>1, AppendProperties, LenProperties
<1>3. t # <<>>
  BY <1>2
<1> QED
  BY <1>1, <1>2, <1>3

(* The members of the list of calls, before and after. *)
LEMMA CallsReplaced ==
  ASSUME NEW S, NEW s \in Seq(S), s # <<>>, NEW c \in Seq(S)
  PROVE  /\ Head(s) \in S /\ Head(s) = s[1]
         /\ Members(s) = {Head(s)} \cup Members(Tail(s))
         /\ Members(c \o Tail(s)) = Members(c) \cup Members(Tail(s))
<1>0. PICK t : t = c \o Tail(s)
  OBVIOUS
<1>1. /\ Head(s) = s[1] /\ Tail(s) \in Seq(S)
      /\ Len(Tail(s)) = Len(s) - 1 /\ Len(s) \in Nat \ {0} /\ Len(c) \in Nat
      /\ \A i \in 1 .. Len(Tail(s)) : Tail(s)[i] = s[i + 1]
  BY HeadTailProperties, LenProperties, EmptySeq
<1>2. /\ Len(t) = Len(c) + Len(s) - 1
      /\ \A i \in 1 .. Len(c) : t[i] = c[i]
      /\ \A i \in Len(c) + 1 .. Len(t) : t[i] = s[i - Len(c) + 1]
  BY <1>0, FirstReplaced
<1>3. Head(s) \in S
  BY <1>1, ElementOfSeq
<1> DEFINE n == Len(s)
           k == Len(c)
           l == Len(t)
           u == Tail(s)
<1> HIDE DEF n, k, l, u
<1>4. /\ n \in Nat \ {0} /\ k \in Nat /\ l = k + n - 1 /\ Len(u) = n - 1
      /\ \A i \in 1 .. n - 1 : u[i] = s[i + 1]
      /\ \A i \in 1 .. k : t[i] = c[i]
      /\ \A i \in k + 1 .. l : t[i] = s[i - k + 1]
  BY <1>1, <1>2 DEF n, k, l, u
<1>5. \A j \in 2 .. n : s[j] \in Members(u)
  <2> SUFFICES ASSUME NEW j \in 2 .. n PROVE s[j] \in Members(u)
    OBVIOUS
  <2>1. j - 1 \in 1 .. n - 1 /\ (j - 1) + 1 = j
    BY ONLY <1>4, j \in 2 .. n
  <2> QED
    BY <1>4, <2>1 DEF Members
<1>6. \A i \in 1 .. n - 1 : \E j \in 2 .. n : u[i] = s[j]
  <2> SUFFICES ASSUME NEW i \in 1 .. n - 1 PROVE \E j \in 2 .. n : u[i] = s[j]
    OBVIOUS
  <2>1. i + 1 \in 2 .. n
    BY ONLY <1>4, i \in 1 .. n - 1
  <2> QED
    BY <1>4, <2>1
<1>7. Members(s) = {s[1]} \cup Members(u)
  <2>1. ASSUME NEW x \in Members(s) PROVE x \in {s[1]} \cup Members(u)
    <3>1. PICK i \in 1 .. n : x = s[i]
      BY DEF Members, n
    <3>2. i = 1 \/ i \in 2 .. n
      BY ONLY <1>4, i \in 1 .. n
    <3> QED
      BY <1>5, <3>1, <3>2
  <2>2. ASSUME NEW x \in Members(u) PROVE x \in Members(s)
    <3>1. PICK i \in 1 .. n - 1 : x = u[i]
      BY <1>4 DEF Members
    <3>2. PICK j \in 2 .. n : x = s[j]
      BY <1>6, <3>1
    <3>3. j \in 1 .. n
      BY ONLY j \in 2 .. n, <1>4
    <3> QED
      BY <3>2, <3>3 DEF Members, n
  <2>3. s[1] \in Members(s)
    <3>1. 1 \in 1 .. n
      BY ONLY <1>4
    <3> QED
      BY <3>1 DEF Members, n
  <2> QED
    BY <2>1, <2>2, <2>3
<1>8. Members(t) = Members(c) \cup Members(u)
  <2>1. ASSUME NEW x \in Members(t) PROVE x \in Members(c) \cup Members(u)
    <3>1. PICK i \in 1 .. l : x = t[i]
      BY DEF Members, l
    <3>2. CASE i \in 1 .. k
      BY <1>4, <3>1, <3>2 DEF Members, k
    <3>3. CASE i \in k + 1 .. l
      <4>1. i - k + 1 \in 2 .. n
        BY ONLY <1>4, <3>3
      <4> QED
        BY <1>4, <1>5, <3>1, <3>3, <4>1
    <3>4. i \in 1 .. k \/ i \in k + 1 .. l
      BY ONLY <1>4, i \in 1 .. l
    <3> QED
      BY <3>2, <3>3, <3>4
  <2>2. ASSUME NEW x \in Members(c) PROVE x \in Members(t)
    <3>1. PICK i \in 1 .. k : x = c[i]
      BY DEF Members, k
    <3>2. i \in 1 .. l
      BY ONLY <1>4, i \in 1 .. k
    <3> QED
      BY <1>4, <3>1, <3>2 DEF Members, l
  <2>3. ASSUME NEW x \in Members(u) PROVE x \in Members(t)
    <3>1. PICK i \in 1 .. n - 1 : x = u[i]
      BY <1>4 DEF Members
    <3>2. PICK j \in 2 .. n : x = s[j]
      BY <1>6, <3>1
    <3>3. j + k - 1 \in 1 .. l /\ j + k - 1 \in k + 1 .. l /\ (j + k - 1) - k + 1 = j
      BY ONLY <1>4, j \in 2 .. n
    <3>4. t[j + k - 1] = s[j]
      BY <1>4, <3>3
    <3> QED
      BY <3>2, <3>3, <3>4 DEF Members, l
  <2> QED
    BY <2>1, <2>2, <2>3
<1> QED
  BY <1>0, <1>1, <1>3, <1>7, <1>8 DEF u
=============================================================================
