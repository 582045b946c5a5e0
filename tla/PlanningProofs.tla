--------------------------- MODULE PlanningProofs ---------------------------
(***************************************************************************)
(* Planning, for any callers and any runners.                              *)
(***************************************************************************)
EXTENDS Planning, FiniteSetTheorems, SequenceTheorems, WellFoundedInduction, TLAPS

-----------------------------------------------------------------------------
(* Induction, and the subsequences that filters leave. *)

\* Natural induction over a set: a number outside it has a least one below.
LEMMA SetInduction ==
    ASSUME NEW S, 0 \in S, \A n \in Nat : n \in S => n + 1 \in S
    PROVE  Nat \subseteq S
  <1> DEFINE outside == Nat \ S
  <1> SUFFICES ASSUME outside # {} PROVE FALSE
    OBVIOUS
  <1>1. PICK n \in outside : \A m \in outside : ~(<<m, n>> \in OpToRel(<, Nat))
    <2>1. outside \subseteq Nat
      OBVIOUS
    <2> HIDE DEF outside
    <2> QED BY <2>1, NatLessThanWellFounded, WFMin
  <1>2. \A m \in outside : ~(m < n)
    <2>1. n \in Nat
      BY <1>1
    <2>2. ASSUME NEW m \in Nat, m < n
          PROVE  <<m, n>> \in OpToRel(<, Nat)
      BY <2>1, <2>2 DEF OpToRel
    <2>3. ASSUME NEW m \in outside, m < n
          PROVE  FALSE
      <3>1. m \in Nat
        OBVIOUS
      <3>2. <<m, n>> \in OpToRel(<, Nat)
        BY <2>2, <2>3, <3>1
      <3> HIDE DEF outside
      <3> QED BY <1>1, <3>2
    <2> QED BY <2>3
  <1>3. n \in Nat /\ n \notin S
    OBVIOUS
  <1>4. n - 1 \in Nat /\ n - 1 < n /\ (n - 1) + 1 = n
    BY <1>3
  <1> QED BY <1>2, <1>3, <1>4

\* f is the loop behind Subsequence over the first m elements of s.
IsLoop(s, K, m, f) ==
    f = [n \in 0..m |-> IF n = 0 THEN << >>
                        ELSE IF n \in K THEN Append(f[n - 1], s[n]) ELSE f[n - 1]]

\* The loop exists however far it goes.
LEMMA LoopExists ==
    ASSUME NEW s, NEW K, NEW len \in Nat
    PROVE  \E f : IsLoop(s, K, len, f)
  <1> DEFINE Loop(m, f) == IsLoop(s, K, m, f)
             S == {m \in Nat : \E f : Loop(m, f)}
  <1> USE DEF IsLoop
  <1>1. 0 \in S
    <2>1. Loop(0, [n \in 0..0 |-> << >>])
      OBVIOUS
    <2> QED BY <2>1
  <1>2. ASSUME NEW m \in Nat, m \in S
        PROVE  m + 1 \in S
    <2>1. PICK f : Loop(m, f)
      BY <1>2
    <2> DEFINE last == IF m + 1 \in K THEN Append(f[m], s[m + 1]) ELSE f[m]
               g == [n \in 0..(m + 1) |-> IF n = m + 1 THEN last ELSE f[n]]
    <2>2. ASSUME NEW n \in 0..(m + 1)
          PROVE  g[n] = IF n = 0 THEN << >>
                        ELSE IF n \in K THEN Append(g[n - 1], s[n]) ELSE g[n - 1]
      <3>1. CASE n = 0
        <4>1. n # m + 1 /\ n \in 0..m
          BY <3>1
        <4>2. g[n] = f[n]
          BY <4>1
        <4>3. f[n] = << >>
          BY <2>1, <3>1, <4>1
        <4> QED BY <3>1, <4>2, <4>3
      <3>2. CASE n # 0 /\ n <= m
        <4>1. n # m + 1 /\ n \in 0..m /\ n - 1 # m + 1 /\ n - 1 \in 0..(m + 1)
          BY <3>2
        <4>2. g[n] = f[n] /\ g[n - 1] = f[n - 1]
          BY <4>1
        <4> HIDE DEF g
        <4>3. f[n] = IF n \in K THEN Append(f[n - 1], s[n]) ELSE f[n - 1]
          BY <2>1, <3>2, <4>1
        <4> QED BY <3>2, <4>2, <4>3
      <3>3. CASE n = m + 1
        <4>1. n - 1 = m /\ m # m + 1 /\ m \in 0..(m + 1) /\ n # 0
          BY <3>3
        <4>2. g[n] = last /\ g[n - 1] = f[m]
          BY <3>3, <4>1
        <4> HIDE DEF g
        <4> QED BY <3>3, <4>1, <4>2
      <3> QED BY <3>1, <3>2, <3>3
    <2>3. Loop(m + 1, g)
      <3>1. g = [n \in 0..(m + 1) |-> g[n]]
        OBVIOUS
      <3> HIDE DEF g
      <3> QED BY <2>2, <3>1
    <2>4. m + 1 \in Nat
      OBVIOUS
    <2> QED BY <2>3, <2>4
  <1>3. Nat \subseteq S
    <2> HIDE DEF S
    <2> QED BY <1>1, <1>2, SetInduction
  <1> QED BY <1>3

\* A subsequence holds the chosen elements and no others.
LEMMA SubsequenceFacts ==
    ASSUME NEW T, NEW s \in Seq(T), NEW K \in SUBSET DOMAIN s
    PROVE  /\ Subsequence(s, K) \in Seq(T)
           /\ \A i \in DOMAIN Subsequence(s, K) : \E k \in K : Subsequence(s, K)[i] = s[k]
           /\ \A k \in K : \E i \in DOMAIN Subsequence(s, K) : Subsequence(s, K)[i] = s[k]
  <1> DEFINE F == CHOOSE f : IsLoop(s, K, Len(s), f)
  <1>1. Subsequence(s, K) = F[Len(s)]
    BY DEF Subsequence, IsLoop
  <1>2. Len(s) \in Nat /\ DOMAIN s = 1..Len(s)
    OBVIOUS
  <1>3. IsLoop(s, K, Len(s), F)
    <2>1. \E f : IsLoop(s, K, Len(s), f)
      BY <1>2, LoopExists
    <2> QED BY <2>1
  <1> HIDE DEF F
  <1>4. F[0] = << >>
    BY <1>2, <1>3 DEF IsLoop
  <1>5. ASSUME NEW n \in 1..Len(s)
        PROVE  F[n] = IF n \in K THEN Append(F[n - 1], s[n]) ELSE F[n - 1]
    <2>1. n \in 0..Len(s) /\ n # 0
      BY <1>2
    <2> QED BY <1>3, <2>1 DEF IsLoop
  <1> DEFINE Good(m) ==
        /\ F[m] \in Seq(T)
        /\ \A i \in 1..Len(F[m]) : \E k \in K : F[m][i] = s[k]
        /\ \A k \in K : k <= m => \E i \in 1..Len(F[m]) : F[m][i] = s[k]
  <1>6. Good(0)
    BY <1>2, <1>4
  <1>7. ASSUME NEW m \in Nat, m < Len(s), Good(m)
        PROVE  Good(m + 1)
    <2>1. m + 1 \in 1..Len(s) /\ (m + 1) - 1 = m
      BY <1>2, <1>7
    <2>2. CASE m + 1 \notin K
      <3>1. F[m + 1] = F[m]
        BY <1>5, <2>1, <2>2
      <3>2. \A k \in K : k <= m + 1 => k <= m
        BY <1>2, <2>2
      <3> QED BY <1>7, <3>1, <3>2
    <2>3. CASE m + 1 \in K
      <3>1. F[m + 1] = Append(F[m], s[m + 1])
        BY <1>5, <2>1, <2>3
      <3>2. s[m + 1] \in T
        BY <2>1
      <3>3. F[m] \in Seq(T)
        BY <1>7
      <3>4. /\ F[m + 1] \in Seq(T) /\ Len(F[m + 1]) = Len(F[m]) + 1 /\ Len(F[m]) \in Nat
            /\ F[m + 1][Len(F[m]) + 1] = s[m + 1]
            /\ \A i \in 1..Len(F[m]) : F[m + 1][i] = F[m][i]
        BY <3>1, <3>2, <3>3
      <3>5. \A i \in 1..Len(F[m + 1]) : \E k \in K : F[m + 1][i] = s[k]
        BY <1>7, <2>3, <3>4
      <3>6. ASSUME NEW k \in K, k <= m + 1
            PROVE  \E i \in 1..Len(F[m + 1]) : F[m + 1][i] = s[k]
        <4>1. CASE k = m + 1
          BY <3>4, <4>1
        <4>2. CASE k <= m
          <5>1. PICK i \in 1..Len(F[m]) : F[m][i] = s[k]
            BY <1>7, <4>2
          <5>2. i \in 1..Len(F[m + 1])
            BY <3>4
          <5> QED BY <3>4, <5>1, <5>2
        <4>3. k \in Nat
          BY <1>2
        <4> QED BY <3>6, <4>1, <4>2, <4>3
      <3> QED BY <3>4, <3>5, <3>6
    <2> QED BY <2>2, <2>3
  <1>8. Good(Len(s))
    <2> DEFINE S == {m \in Nat : m <= Len(s) => Good(m)}
    <2> HIDE DEF Good
    <2>1. 0 \in S
      BY <1>6
    <2>2. \A n \in Nat : n \in S => n + 1 \in S
      BY <1>2, <1>7
    <2>3. Nat \subseteq S
      <3> HIDE DEF S
      <3> QED BY <2>1, <2>2, SetInduction
    <2> QED BY <1>2, <2>3
  <1>9. DOMAIN F[Len(s)] = 1..Len(F[Len(s)]) /\ \A k \in K : k <= Len(s)
    BY <1>2, <1>8
  <1> QED BY <1>1, <1>8, <1>9

-----------------------------------------------------------------------------
(* The versions of a kind in order. *)

\* s lists V by ascending version.
Ascending(s, V) ==
    /\ s \in [1..Cardinality(V) -> V]
    /\ \A i, j \in DOMAIN s : i < j => s[i][2] < s[j][2]

\* A finite set of nodes that their versions tell apart.
Chain(V) ==
    /\ IsFiniteSet(V)
    /\ \A x \in V : x[2] \in Int
    /\ \A x, y \in V : x[2] = y[2] => x = y

\* An ascending list names every node, each at one place.
LEMMA AscendingOnto ==
    ASSUME NEW V, Chain(V), NEW s, Ascending(s, V)
    PROVE  /\ Cardinality(V) \in Nat
           /\ \A v \in V : \E i \in 1..Cardinality(V) : s[i] = v
           /\ \A i, j \in 1..Cardinality(V) : s[i] = s[j] => i = j
  <1> DEFINE n == Cardinality(V)
  <1>1. n \in Nat
    BY FS_CardinalityType DEF Chain
  <1>2. s \in [1..n -> V] /\ \A i, j \in 1..n : i < j => s[i][2] < s[j][2]
    BY DEF Ascending
  <1>3. \A i \in 1..n : s[i][2] \in Int
    BY <1>2 DEF Chain
  <1>4. ASSUME NEW i \in 1..n, NEW j \in 1..n, s[i] = s[j]
        PROVE  i = j
    <2> HIDE DEF n
    <2>1. s[i][2] = s[j][2] /\ s[i][2] \in Int
      BY <1>3, <1>4
    <2>2. ~(i < j) /\ ~(j < i)
      BY <1>2, <2>1
    <2> QED BY <1>1, <2>2
  <1>5. s \in Injection(1..n, V)
    BY <1>2, <1>4 DEF Injection, IsInjective
  <1>6. Cardinality(1..n) = n
    BY <1>1, FS_Interval
  <1>7. s \in Surjection(1..n, V)
    <2> HIDE DEF n
    <2>1. IsFiniteSet(V) /\ n = Cardinality(V)
      BY DEF Chain, n
    <2> QED BY <1>5, <1>6, <2>1, FS_Injection
  <1> QED BY <1>1, <1>4, <1>7 DEF Surjection

\* A chain whose newest node is m is listed by the list of the others and m.
LEMMA AscendingAppend ==
    ASSUME NEW V, Chain(V), NEW m \in V, \A x \in V : x[2] <= m[2],
           NEW t, Ascending(t, V \ {m})
    PROVE  \E s : Ascending(s, V)
  <1> DEFINE n == Cardinality(V \ {m})
             s == [i \in 1..(n + 1) |-> IF i = n + 1 THEN m ELSE t[i]]
  <1>1. IsFiniteSet(V \ {m}) /\ n \in Nat
    BY FS_RemoveElement, FS_CardinalityType DEF Chain
  <1>2. Cardinality(V) = n + 1
    <2>1. IsFiniteSet(V) /\ Cardinality(V) \in Nat
      BY FS_CardinalityType DEF Chain
    <2>2. n = Cardinality(V) - 1
      BY <2>1, FS_RemoveElement
    <2> HIDE DEF n
    <2> QED BY <2>1, <2>2
  <1>3. t \in [1..n -> V \ {m}] /\ \A i, j \in 1..n : i < j => t[i][2] < t[j][2]
    BY DEF Ascending
  <1>4. \A x \in V \ {m} : x[2] \in Int /\ m[2] \in Int /\ x[2] < m[2]
    BY DEF Chain
  <1> HIDE DEF n
  <1>5. s \in [1..(n + 1) -> V]
    BY <1>1, <1>3
  <1>6. ASSUME NEW i \in 1..(n + 1), NEW j \in 1..(n + 1), i < j
        PROVE  s[i][2] < s[j][2]
    <2>1. i \in 1..n /\ i # n + 1 /\ s[i] = t[i]
      BY <1>1, <1>6
    <2>2. CASE j = n + 1
      BY <1>3, <1>4, <2>1, <2>2
    <2>3. CASE j # n + 1
      <3>1. j \in 1..n /\ s[j] = t[j]
        BY <1>1, <2>3
      <3> QED BY <1>3, <1>6, <2>1, <3>1
    <2> QED BY <2>2, <2>3
  <1>7. DOMAIN s = 1..(n + 1)
    OBVIOUS
  <1> HIDE DEF s
  <1>8. Ascending(s, V)
    BY <1>2, <1>5, <1>6, <1>7 DEF Ascending
  <1> QED BY <1>8

\* Every chain can be listed.
LEMMA AscendingExists ==
    ASSUME NEW V, Chain(V)
    PROVE  \E s : Ascending(s, V)
  <1> DEFINE S == {n \in Nat : \A W : Chain(W) /\ Cardinality(W) = n => \E s : Ascending(s, W)}
  <1>1. 0 \in S
    <2> SUFFICES ASSUME NEW W, Chain(W), Cardinality(W) = 0
                 PROVE  \E s : Ascending(s, W)
      OBVIOUS
    <2>1. Ascending([i \in 1..0 |-> 0], W)
      BY DEF Ascending
    <2> QED BY <2>1
  <1>2. ASSUME NEW n \in Nat, n \in S
        PROVE  n + 1 \in S
    <2> SUFFICES ASSUME NEW W, Chain(W), Cardinality(W) = n + 1
                 PROVE  \E s : Ascending(s, W)
      OBVIOUS
    <2>1. IsFiniteSet(W) /\ W # {}
      BY FS_EmptySet DEF Chain
    <2>2. ASSUME NEW x \in W
          PROVE  Chain(W \ {x}) /\ Cardinality(W \ {x}) = n /\ \E s : Ascending(s, W \ {x})
      <3>1. IsFiniteSet(W \ {x}) /\ Cardinality(W \ {x}) = n
        <4>1. IsFiniteSet(W \ {x}) /\ Cardinality(W \ {x}) = Cardinality(W) - 1
          BY <2>1, FS_RemoveElement
        <4> QED BY <4>1
      <3>2. Chain(W \ {x})
        BY <3>1 DEF Chain
      <3>3. \A U : Chain(U) /\ Cardinality(U) = n => \E s : Ascending(s, U)
        BY <1>2
      <3> QED BY <3>1, <3>2, <3>3, Zenon
    <2>3. \E m \in W : \A y \in W : y[2] <= m[2]
      <3>1. PICK x \in W : TRUE
        BY <2>1
      <3>2. \A y \in W : y[2] \in Int
        BY DEF Chain
      <3>3. CASE n = 0
        <4>1. W \ {x} = {}
          BY <2>2, <3>3, FS_EmptySet DEF Chain
        <4> QED BY <3>2, <4>1
      <3>4. CASE n # 0
        <4>1. PICK s : Ascending(s, W \ {x})
          BY <2>2
        <4>2. s \in [1..n -> W \ {x}] /\ \A i, j \in 1..n : i < j => s[i][2] < s[j][2]
          BY <2>2, <4>1 DEF Ascending
        <4>3. \A v \in W \ {x} : \E i \in 1..n : s[i] = v
          <5>1. Chain(W \ {x}) /\ Cardinality(W \ {x}) = n
            BY <2>2
          <5> QED BY <4>1, <5>1, AscendingOnto
        <4>4. s[n] \in W
          BY <3>4, <4>2
        <4>5. ASSUME NEW y \in W \ {x}
              PROVE  y[2] <= s[n][2]
          <5>1. PICK i \in 1..n : s[i] = y
            BY <4>3
          <5>2. i = n \/ i < n
            OBVIOUS
          <5> QED BY <3>2, <3>4, <4>2, <4>4, <5>1, <5>2
        <4>6. CASE s[n][2] <= x[2]
          BY <3>2, <4>4, <4>5, <4>6
        <4>7. CASE x[2] <= s[n][2]
          BY <3>2, <4>4, <4>5, <4>7
        <4> QED BY <3>2, <4>4, <4>6, <4>7
      <3> QED BY <3>3, <3>4
    <2>4. PICK m \in W : \A y \in W : y[2] <= m[2]
      BY <2>3
    <2>5. PICK t : Ascending(t, W \ {m})
      BY <2>2
    <2> QED BY <2>4, <2>5, AscendingAppend
  <1>3. Nat \subseteq S
    <2> HIDE DEF S
    <2> QED BY <1>1, <1>2, SetInduction
  <1>4. Cardinality(V) \in Nat
    BY FS_CardinalityType DEF Chain
  <1> QED BY <1>3, <1>4

\* The models of one kind in a graph.
OfKind(g, kind) == {n \in g.models : n[1] = kind}

\* kind_versions lists the models of a kind, each once, oldest first.
LEMMA KindVersionsFacts ==
    ASSUME NEW g \in Setups, NEW kind
    PROVE  /\ Cardinality(OfKind(g, kind)) \in Nat
           /\ KindVersions(g, kind) \in [1..Cardinality(OfKind(g, kind)) -> OfKind(g, kind)]
           /\ \A i, j \in 1..Cardinality(OfKind(g, kind)) :
                 i < j => KindVersions(g, kind)[i][2] < KindVersions(g, kind)[j][2]
           /\ \A v \in OfKind(g, kind) :
                 \E i \in 1..Cardinality(OfKind(g, kind)) : KindVersions(g, kind)[i] = v
           /\ \A i, j \in 1..Cardinality(OfKind(g, kind)) :
                 KindVersions(g, kind)[i] = KindVersions(g, kind)[j] => i = j
  <1> DEFINE V == OfKind(g, kind)
             s == KindVersions(g, kind)
  <1>1. IsFiniteSet(g.models) /\ g.models \subseteq STRING \X Nat
    BY SetupsAssumption
  <1>2. Chain(V)
    <2>1. IsFiniteSet(V)
      BY <1>1, FS_Subset DEF OfKind
    <2>2. \A x \in V : x = <<kind, x[2]>> /\ x[2] \in Int
      BY <1>1 DEF OfKind
    <2> QED BY <2>1, <2>2 DEF Chain
  <1>3. Ascending(s, V)
    <2>1. \E t : Ascending(t, V)
      BY <1>2, AscendingExists
    <2>2. \E t \in [1..Cardinality(V) -> V] :
             \A i, j \in DOMAIN t : i < j => t[i][2] < t[j][2]
      BY <2>1 DEF Ascending
    <2>3. s = CHOOSE t \in [1..Cardinality(V) -> V] :
                 \A i, j \in DOMAIN t : i < j => t[i][2] < t[j][2]
      BY DEF KindVersions, OfKind
    <2> HIDE DEF s, V
    <2> QED BY <2>2, <2>3 DEF Ascending
  <1> HIDE DEF s, V
  <1>4. s \in [1..Cardinality(V) -> V] /\ \A i, j \in 1..Cardinality(V) : i < j => s[i][2] < s[j][2]
    BY <1>3 DEF Ascending
  <1>5. /\ Cardinality(V) \in Nat
        /\ \A v \in V : \E i \in 1..Cardinality(V) : s[i] = v
        /\ \A i, j \in 1..Cardinality(V) : s[i] = s[j] => i = j
    BY <1>2, <1>3, AscendingOnto
  <1> QED BY <1>4, <1>5 DEF s, V

-----------------------------------------------------------------------------
(* The plan cache against the history of its uses. *)

\* What is left of a sequence without its i-th element.
LEMMA RemoveAtFacts ==
    ASSUME NEW T, NEW s \in Seq(T), NEW i \in 1..Len(s)
    PROVE  /\ RemoveAt(s, i) \in Seq(T)
           /\ Len(RemoveAt(s, i)) = Len(s) - 1
           /\ \A k \in 1..(Len(s) - 1) : RemoveAt(s, i)[k] = IF k < i THEN s[k] ELSE s[k + 1]
  <1> DEFINE a == SubSeq(s, 1, i - 1)
             b == SubSeq(s, i + 1, Len(s))
  <1>1. Len(s) \in Nat /\ i \in Int /\ 1 <= i /\ i <= Len(s)
    OBVIOUS
  <1>2. a \in Seq(T) /\ Len(a) = i - 1 /\ \A k \in 1..(i - 1) : a[k] = s[k]
    BY <1>1
  <1>3. b \in Seq(T) /\ Len(b) = Len(s) - i /\ \A k \in 1..(Len(s) - i) : b[k] = s[i + k]
    BY <1>1
  <1>4. RemoveAt(s, i) = a \o b
    BY DEF RemoveAt
  <1> HIDE DEF a, b
  <1>5. a \o b \in Seq(T) /\ Len(a \o b) = Len(s) - 1
    <2>1. a \o b \in Seq(T) /\ Len(a \o b) = Len(a) + Len(b)
      BY <1>2, <1>3, ConcatProperties
    <2> QED BY <1>1, <1>2, <1>3, <2>1
  <1>6. ASSUME NEW k \in 1..(Len(s) - 1)
        PROVE  (a \o b)[k] = IF k < i THEN s[k] ELSE s[k + 1]
    <2>1. CASE k < i
      BY <1>1, <1>2, <1>3, <2>1
    <2>2. CASE ~(k < i)
      <3>1. (a \o b)[k] = b[k - (i - 1)]
        BY <1>1, <1>2, <1>3, <2>2
      <3>2. k - (i - 1) \in 1..(Len(s) - i) /\ i + (k - (i - 1)) = k + 1
        BY <1>1, <2>2
      <3> QED BY <1>3, <2>2, <3>1, <3>2
    <2> QED BY <2>1, <2>2
  <1> QED BY <1>4, <1>5, <1>6

\* Every key of the history is there once.
Distinct(u) == \A i, j \in DOMAIN u : u[i] = u[j] => i = j

\* u moved on to v by the use of a key at place j of u, or a new one.
MovedTo(u, v, key, j) ==
    /\ j \in 1..Len(u) /\ u[j] = key
    /\ Len(v) = Len(u)
    /\ \A k \in 1..Len(u) : v[k] = IF k < j THEN u[k] ELSE IF k < Len(u) THEN u[k + 1] ELSE key

AddedTo(u, v, key) ==
    /\ \A j \in 1..Len(u) : u[j] # key
    /\ Len(v) = Len(u) + 1
    /\ \A k \in 1..Len(v) : v[k] = IF k <= Len(u) THEN u[k] ELSE key

\* A use adds its key to the history or moves it to the end.
LEMMA UsedFacts ==
    ASSUME NEW T, uses \in Seq(T), NEW key \in T, Distinct(uses), Used(key)
    PROVE  /\ uses' \in Seq(T) /\ Distinct(uses')
           /\ AddedTo(uses, uses', key) \/ \E j \in 1..Len(uses) : MovedTo(uses, uses', key, j)
  <1> DEFINE at == {i \in DOMAIN uses : uses[i] = key}
             place == CHOOSE i \in at : TRUE
  <1>1. uses' = Append(IF at = {} THEN uses ELSE RemoveAt(uses, place), key)
    BY DEF Used
  <1>2. Len(uses) \in Nat /\ DOMAIN uses = 1..Len(uses)
    OBVIOUS
  <1>3. \A i, j \in 1..Len(uses) : uses[i] = uses[j] => i = j
    BY <1>2 DEF Distinct
  <1>4. CASE at = {}
    <2>1. uses' = Append(uses, key)
      BY <1>1, <1>4
    <2>2. \A j \in 1..Len(uses) : uses[j] # key
      BY <1>2, <1>4
    <2>3. uses' \in Seq(T) /\ AddedTo(uses, uses', key)
      BY <1>2, <2>1, <2>2 DEF AddedTo
    <2>4. Distinct(uses')
      <3>1. DOMAIN uses' = 1..(Len(uses) + 1)
        BY <1>2, <2>1
      <3>2. \A k \in 1..Len(uses) : uses'[k] = uses[k]
        BY <1>2, <2>1
      <3>3. uses'[Len(uses) + 1] = key
        BY <1>2, <2>1
      <3>4. \A k \in 1..(Len(uses) + 1) : k \in 1..Len(uses) \/ k = Len(uses) + 1
        BY <1>2
      <3> QED BY <1>3, <2>2, <3>1, <3>2, <3>3, <3>4 DEF Distinct
    <2> QED BY <2>3, <2>4
  <1>5. CASE at # {}
    <2>1. place \in at
      BY <1>5
    <2>2. place \in 1..Len(uses) /\ uses[place] = key
      BY <1>2, <2>1
    <2>3. uses' = Append(RemoveAt(uses, place), key)
      BY <1>1, <1>5
    <2> HIDE DEF place, at
    <2>4. /\ RemoveAt(uses, place) \in Seq(T)
          /\ Len(RemoveAt(uses, place)) = Len(uses) - 1
          /\ \A k \in 1..(Len(uses) - 1) :
                RemoveAt(uses, place)[k] = IF k < place THEN uses[k] ELSE uses[k + 1]
      BY <2>2, RemoveAtFacts
    <2>5. /\ uses' \in Seq(T) /\ Len(uses') = Len(uses) /\ uses'[Len(uses)] = key
          /\ \A k \in 1..(Len(uses) - 1) : uses'[k] = RemoveAt(uses, place)[k]
      <3> DEFINE rest == RemoveAt(uses, place)
      <3>1. rest \in Seq(T) /\ Len(rest) = Len(uses) - 1 /\ uses' = Append(rest, key)
        BY <2>3, <2>4
      <3> HIDE DEF rest
      <3>2. /\ Append(rest, key) \in Seq(T) /\ Len(Append(rest, key)) = Len(rest) + 1
            /\ Append(rest, key)[Len(rest) + 1] = key
            /\ \A k \in 1..Len(rest) : Append(rest, key)[k] = rest[k]
        BY <3>1
      <3>3. Len(rest) + 1 = Len(uses)
        BY <1>2, <3>1
      <3> QED BY <3>1, <3>2, <3>3 DEF rest
    <2>6. ASSUME NEW k \in 1..Len(uses)
          PROVE  uses'[k] = IF k < place THEN uses[k] ELSE IF k < Len(uses) THEN uses[k + 1] ELSE key
      BY <1>2, <2>2, <2>4, <2>5
    <2>7. MovedTo(uses, uses', key, place)
      BY <2>2, <2>5, <2>6 DEF MovedTo
    <2>8. Distinct(uses')
      <3>1. DOMAIN uses' = 1..Len(uses)
        BY <1>2, <2>5
      <3> DEFINE old(k) == IF k < place THEN k ELSE IF k < Len(uses) THEN k + 1 ELSE place
      <3>2. ASSUME NEW k \in 1..Len(uses)
            PROVE  old(k) \in 1..Len(uses) /\ uses'[k] = uses[old(k)]
        BY <1>2, <2>2, <2>6
      <3>3. ASSUME NEW k \in 1..Len(uses), NEW l \in 1..Len(uses), old(k) = old(l)
            PROVE  k = l
        BY <1>2, <2>2, <3>3
      <3> HIDE DEF old
      <3>4. ASSUME NEW k \in 1..Len(uses), NEW l \in 1..Len(uses), uses'[k] = uses'[l]
            PROVE  k = l
        BY <1>3, <3>2, <3>3, <3>4
      <3> QED BY <3>1, <3>4 DEF Distinct
    <2> QED BY <2>2, <2>5, <2>7, <2>8
  <1> QED BY <1>4, <1>5

\* How many of the len keys used last a cache of a size keeps.
Kept(size, len) == IF size < 0 \/ len < size THEN len ELSE size

\* The keys of the cache are the last of the history, place by place.
Lru(c, u, size) ==
    /\ Len(c) = Kept(size, Len(u))
    /\ \A i \in 1..Len(c) : c[i].key = u[Len(u) - Len(c) + i]

\* No more than there are.
LEMMA KeptFacts ==
    ASSUME NEW size \in Nat \cup {-1}, NEW len \in Nat
    PROVE  Kept(size, len) \in Nat /\ Kept(size, len) <= len
  BY DEF Kept

\* This is what CacheIsLeastRecentlyUsed says.
LEMMA LruIsProperty ==
    ASSUME NEW T, NEW S, cache \in Seq(T), uses \in Seq(S), setup.cacheSize \in Nat \cup {-1}
    PROVE  CacheIsLeastRecentlyUsed <=> Lru(cache, uses, setup.cacheSize)
  <1> DEFINE L == Len(uses)
             kept == Kept(setup.cacheSize, L)
             tail == SubSeq(uses, L - kept + 1, L)
             keys == [i \in DOMAIN cache |-> cache[i].key]
  <1>1. L \in Nat /\ kept \in Nat /\ kept <= L /\ Len(cache) \in Nat /\ DOMAIN cache = 1..Len(cache)
    BY DEF Kept
  <1>2. CacheIsLeastRecentlyUsed <=> keys = tail
    BY DEF CacheIsLeastRecentlyUsed, Kept
  <1>3. tail = [i \in 1..kept |-> uses[L - kept + i]]
    <2> HIDE DEF kept
    <2> QED BY <1>1
  <1>4. keys = [i \in 1..Len(cache) |-> cache[i].key]
    BY <1>1
  <1> HIDE DEF kept, keys, tail, L
  <1>5. ASSUME keys = tail
        PROVE  Len(cache) = kept /\ \A i \in 1..Len(cache) : cache[i].key = uses[L - Len(cache) + i]
    <2>1. 1..Len(cache) = 1..kept
      BY <1>3, <1>4, <1>5
    <2>2. Len(cache) = kept
      <3>1. ~(Len(cache) < kept)
        <4>1. Len(cache) < kept => kept \in 1..kept /\ kept \notin 1..Len(cache)
          BY <1>1
        <4> QED BY <2>1, <4>1
      <3>2. ~(kept < Len(cache))
        <4>1. kept < Len(cache) => Len(cache) \in 1..Len(cache) /\ Len(cache) \notin 1..kept
          BY <1>1
        <4> QED BY <2>1, <4>1
      <3>3. Len(cache) \in Int /\ kept \in Int
        BY <1>1
      <3> QED BY <3>1, <3>2, <3>3
    <2>3. ASSUME NEW i \in 1..Len(cache)
          PROVE  cache[i].key = uses[L - Len(cache) + i]
      <3>1. keys[i] = cache[i].key
        BY <1>4
      <3>2. i \in 1..kept
        BY <2>2
      <3>3. tail[i] = uses[L - kept + i]
        BY <1>3, <3>2
      <3> QED BY <1>5, <2>2, <3>1, <3>3
    <2> QED BY <2>2, <2>3
  <1>6. ASSUME Len(cache) = kept, \A i \in 1..Len(cache) : cache[i].key = uses[L - Len(cache) + i]
        PROVE  keys = tail
    BY <1>3, <1>4, <1>6
  <1> QED BY <1>2, <1>5, <1>6 DEF Lru, kept, L

\* The i-th plan and the j-th use, counted from the end.
Aligned(c, i, u, j) == j = Len(u) - Len(c) + i

\* What is appended, and where.
LEMMA AppendFacts ==
    ASSUME NEW T, NEW s \in Seq(T), NEW x \in T
    PROVE  /\ Append(s, x) \in Seq(T) /\ Len(Append(s, x)) = Len(s) + 1 /\ Len(s) \in Nat
           /\ Append(s, x)[Len(s) + 1] = x
           /\ \A k \in 1..Len(s) : Append(s, x)[k] = s[k]
  OBVIOUS

\* A plan that is found or stored again leaves its place for the last one, as its
\* key does in the history.
LEMMA LruMove ==
    ASSUME NEW T, NEW c \in Seq(T), NEW S, NEW u \in Seq(S), NEW v \in Seq(S),
           NEW size \in Nat \cup {-1}, Lru(c, u, size), NEW i \in 1..Len(c), NEW key,
           NEW j, Aligned(c, i, u, j), MovedTo(u, v, key, j), NEW e \in T, e.key = key
    PROVE  /\ Append(RemoveAt(c, i), e) \in Seq(T)
           /\ Len(Append(RemoveAt(c, i), e)) = Len(c)
           /\ Lru(Append(RemoveAt(c, i), e), v, size)
           /\ \A k \in 1..Len(c) : \/ Append(RemoveAt(c, i), e)[k] = e
                                    \/ \E l \in 1..Len(c) : Append(RemoveAt(c, i), e)[k] = c[l]
  <1> DEFINE rest == RemoveAt(c, i)
             t == Append(rest, e)
             n == Len(c)
             L == Len(u)
  <1>1. n \in Nat /\ L \in Nat /\ i \in Int /\ 1 <= i /\ i <= n
    OBVIOUS
  <1>2. n = Kept(size, L) /\ \A k \in 1..n : c[k].key = u[L - n + k]
    BY DEF Lru
  <1>3. n <= L
    BY <1>1, <1>2, KeptFacts
  <1>4. Len(v) = L /\ \A k \in 1..L : v[k] = IF k < L - n + i THEN u[k] ELSE IF k < L THEN u[k + 1] ELSE key
    BY DEF MovedTo, Aligned
  <1>5. rest \in Seq(T) /\ Len(rest) = n - 1 /\ \A k \in 1..(n - 1) : rest[k] = IF k < i THEN c[k] ELSE c[k + 1]
    BY RemoveAtFacts
  <1> HIDE DEF rest
  <1>6. /\ t \in Seq(T) /\ Len(t) = n /\ t[n] = e
        /\ \A k \in 1..(n - 1) : t[k] = IF k < i THEN c[k] ELSE c[k + 1]
    <2>1. /\ t \in Seq(T) /\ Len(t) = Len(rest) + 1 /\ t[Len(rest) + 1] = e
          /\ \A k \in 1..Len(rest) : t[k] = rest[k]
      BY <1>5, AppendFacts
    <2> HIDE DEF t, n
    <2>2. Len(rest) + 1 = n
      BY <1>1, <1>5
    <2> QED BY <1>5, <2>1, <2>2
  <1> HIDE DEF t, n, L
  <1>7. ASSUME NEW k \in 1..n
        PROVE  t[k].key = v[L - n + k]
    <2>1. L - n + k \in 1..L
      BY <1>1, <1>3
    <2>2. CASE k = n
      <3>1. L - n + k = L
        BY <1>1, <2>2
      <3>2. v[L] = key
        BY <1>1, <1>3, <1>4, <2>1, <3>1
      <3> QED BY <1>6, <2>2, <3>1, <3>2
    <2>3. CASE k < i /\ k # n
      <3>1. k \in 1..(n - 1) /\ L - n + k < L - n + i
        BY <1>1, <2>3
      <3>2. v[L - n + k] = u[L - n + k] /\ t[k] = c[k]
        BY <1>4, <1>6, <2>1, <2>3, <3>1
      <3> QED BY <1>2, <3>2
    <2>4. CASE ~(k < i) /\ k # n
      <3>1. k \in 1..(n - 1) /\ k + 1 \in 1..n /\ ~(L - n + k < L - n + i) /\ L - n + k < L
            /\ (L - n + k) + 1 = L - n + (k + 1)
        BY <1>1, <1>3, <2>4
      <3>2. v[L - n + k] = u[L - n + (k + 1)] /\ t[k] = c[k + 1]
        BY <1>4, <1>6, <2>1, <2>4, <3>1
      <3> QED BY <1>2, <3>1, <3>2
    <2> QED BY <2>2, <2>3, <2>4
  <1>8. Lru(t, v, size)
    BY <1>2, <1>4, <1>6, <1>7 DEF Lru
  <1>9. ASSUME NEW k \in 1..n
        PROVE  t[k] = e \/ \E l \in 1..n : t[k] = c[l]
    <2>1. CASE k = n
      BY <1>6, <2>1
    <2>2. CASE k # n
      <3>1. k \in 1..(n - 1) /\ k \in 1..n /\ k + 1 \in 1..n
        BY <1>1, <2>2
      <3> QED BY <1>6, <3>1
    <2> QED BY <2>1, <2>2
  <1> QED BY <1>6, <1>8, <1>9 DEF t, n, rest

\* The plan of a key is in one place, and the place of its key in the history is
\* known from it.
LEMMA LruSlot ==
    ASSUME NEW T, NEW c \in Seq(T), NEW S, NEW u \in Seq(S), Distinct(u),
           NEW size \in Nat \cup {-1}, Lru(c, u, size), NEW key, Slots(c, key) # {}
    PROVE  /\ Slot(c, key) \in 1..Len(c) /\ c[Slot(c, key)].key = key
           /\ \A i \in Slots(c, key) : i = Slot(c, key)
           /\ Len(u) - Len(c) + Slot(c, key) \in 1..Len(u)
           /\ \A j \in 1..Len(u) : u[j] = key => j = Len(u) - Len(c) + Slot(c, key)
  <1> DEFINE n == Len(c)
             L == Len(u)
             i == Slot(c, key)
  <1>1. n \in Nat /\ L \in Nat /\ DOMAIN c = 1..n /\ DOMAIN u = 1..L
    OBVIOUS
  <1>2. n = Kept(size, L) /\ \A k \in 1..n : c[k].key = u[L - n + k]
    BY DEF Lru
  <1>3. n <= L
    BY <1>1, <1>2, KeptFacts
  <1>4. i \in Slots(c, key)
    BY DEF Slot
  <1> HIDE DEF i, n, L
  <1>5. \A k \in Slots(c, key) : k \in 1..n /\ c[k].key = key
    <2>1. \A k \in Slots(c, key) : k \in DOMAIN c /\ c[k].key = key
      BY DEF Slots
    <2> QED BY <1>1, <2>1
  <1>6. \A k \in Slots(c, key) : L - n + k \in 1..L /\ u[L - n + k] = key
    BY <1>1, <1>2, <1>3, <1>5
  <1>7. \A j, k \in 1..L : u[j] = u[k] => j = k
    BY <1>1 DEF Distinct
  <1>8. ASSUME NEW k \in Slots(c, key)
        PROVE  k = i
    <2>1. L - n + k = L - n + i
      BY <1>4, <1>6, <1>7
    <2> QED BY <1>1, <1>4, <1>5, <2>1
  <1> QED BY <1>4, <1>5, <1>6, <1>7, <1>8 DEF i, n, L

\* A hit.
LEMMA GetOrder ==
    ASSUME NEW T, NEW c \in Seq(T), NEW S, NEW u \in Seq(S), NEW v \in Seq(S), Distinct(u),
           NEW size \in Nat \cup {-1}, Lru(c, u, size), NEW key, Slots(c, key) # {},
           AddedTo(u, v, key) \/ \E j \in 1..Len(u) : MovedTo(u, v, key, j)
    PROVE  /\ CacheGet(c, key) \in Seq(T)
           /\ Lru(CacheGet(c, key), v, size)
           /\ \A k \in DOMAIN CacheGet(c, key) :
                 \E l \in DOMAIN c : CacheGet(c, key)[k] = c[l]
  <1> DEFINE i == Slot(c, key)
             e == c[i]
             t == Append(RemoveAt(c, i), e)
  <1>1. /\ i \in 1..Len(c) /\ c[i].key = key /\ Len(u) - Len(c) + i \in 1..Len(u)
        /\ \A j \in 1..Len(u) : u[j] = key => j = Len(u) - Len(c) + i
    BY LruSlot
  <1>2. CacheGet(c, key) = t
    BY DEF CacheGet
  <1>3. u[Len(u) - Len(c) + i] = key
    BY <1>1 DEF Lru
  <1> HIDE DEF i
  <1>4. PICK j \in 1..Len(u) : MovedTo(u, v, key, j)
    BY <1>1, <1>3 DEF AddedTo
  <1>5. Aligned(c, i, u, j) /\ i \in 1..Len(c) /\ e \in T /\ e.key = key
    BY <1>1, <1>4 DEF MovedTo, Aligned
  <1>6. t \in Seq(T) /\ Len(t) = Len(c) /\ Lru(t, v, size)
        /\ \A k \in 1..Len(c) : t[k] = e \/ \E l \in 1..Len(c) : t[k] = c[l]
    <2> HIDE DEF e
    <2> QED BY <1>4, <1>5, LruMove
  <1>7. DOMAIN t = 1..Len(c) /\ DOMAIN c = 1..Len(c)
    BY <1>6
  <1> HIDE DEF t
  <1>8. \A k \in DOMAIN t : \E l \in DOMAIN c : t[k] = c[l]
    BY <1>1, <1>6, <1>7
  <1> QED BY <1>2, <1>6, <1>8

\* The end of a sequence that a cache of a size has room for.
Trimmed(a, size) ==
    IF size > 0 /\ Len(a) > size THEN SubSeq(a, Len(a) - size + 1, Len(a)) ELSE a

\* What is left when a sequence loses its first element.
LEMMA DropFirst ==
    ASSUME NEW T, NEW s \in Seq(T), Len(s) >= 1
    PROVE  /\ SubSeq(s, 2, Len(s)) \in Seq(T) /\ Len(SubSeq(s, 2, Len(s))) = Len(s) - 1
           /\ \A k \in 1..(Len(s) - 1) : SubSeq(s, 2, Len(s))[k] = s[k + 1]
  <1>1. Len(s) \in Nat /\ Len(s) \in 1..Len(s)
    OBVIOUS
  <1>2. SubSeq(s, 2, Len(s)) = [k \in 1..(Len(s) - 1) |-> s[k + 1]]
    BY <1>1
  <1>3. \A k \in 1..(Len(s) - 1) : k + 1 \in 1..Len(s) /\ s[k + 1] \in T
    BY <1>1
  <1>4. SubSeq(s, 2, Len(s)) \in [1..(Len(s) - 1) -> T]
    BY <1>2, <1>3
  <1>5. Len(s) - 1 \in Nat
    BY <1>1
  <1> DEFINE t == SubSeq(s, 2, Len(s))
  <1>6. t \in Seq(T) /\ Len(t) = Len(s) - 1
    <2> HIDE DEF t
    <2>1. t \in [1..(Len(s) - 1) -> T]
      BY <1>4 DEF t
    <2>2. t \in Seq(T)
      BY <1>5, <2>1
    <2> QED BY <1>5, <2>1, <2>2, LenProperties
  <1> QED BY <1>2, <1>6

\* A plan under a key that the cache does not hold: it is appended, and the plan
\* used longest ago goes when the cache is full.
LEMMA LruAdd ==
    ASSUME NEW T, NEW c \in Seq(T), NEW S, NEW u \in Seq(S), NEW v \in Seq(S),
           NEW size \in Nat \cup {-1}, size # 0, Lru(c, u, size), NEW key, Slots(c, key) = {},
           AddedTo(u, v, key) \/ \E j \in 1..Len(u) : MovedTo(u, v, key, j),
           NEW e \in T, e.key = key, NEW t, t = Trimmed(Append(c, e), size)
    PROVE  /\ t \in Seq(T) /\ Lru(t, v, size)
           /\ \A k \in 1..Len(t) : t[k] = e \/ \E l \in 1..Len(c) : t[k] = c[l]
  <1> DEFINE n == Len(c)
             L == Len(u)
             a == Append(c, e)
  <1>1. n \in Nat /\ L \in Nat /\ DOMAIN c = 1..n
    OBVIOUS
  <1>2. n = Kept(size, L) /\ \A k \in 1..n : c[k].key = u[L - n + k]
    BY DEF Lru
  <1>3. n <= L
    BY <1>1, <1>2, KeptFacts
  <1>4. \A k \in 1..n : c[k].key # key
    BY <1>1 DEF Slots
  <1>5. /\ a \in Seq(T) /\ Len(a) = n + 1 /\ a[n + 1] = e
        /\ \A k \in 1..n : a[k] = c[k]
    BY AppendFacts
  <1>6. t = IF size > 0 /\ Len(a) > size THEN SubSeq(a, Len(a) - size + 1, Len(a)) ELSE a
    BY DEF Trimmed
  <1> HIDE DEF a
  <1>7. CASE size > 0 /\ n + 1 > size
    <2>1. n = size /\ size <= L
      BY <1>1, <1>2, <1>7 DEF Kept
    <2>2. t = SubSeq(a, 2, Len(a))
      <3>1. Len(a) - size + 1 = 2
        BY <1>1, <1>5, <2>1
      <3> QED BY <1>5, <1>6, <1>7, <3>1
    <2>3. t \in Seq(T) /\ Len(t) = n /\ \A k \in 1..n : t[k] = a[k + 1]
      <3>1. Len(a) >= 1 /\ Len(a) - 1 = n
        BY <1>1, <1>5
      <3> HIDE DEF n
      <3> QED BY <1>5, <2>2, <3>1, DropFirst
    <2> HIDE DEF n, L
    <2>4. t[n] = e /\ \A k \in 1..(n - 1) : t[k] = c[k + 1]
      <3>1. n \in 1..n /\ \A k \in 1..(n - 1) : k \in 1..n /\ k + 1 \in 1..n
        BY <1>1, <1>7, <2>1
      <3> QED BY <1>5, <2>3, <3>1
    <2>5. ASSUME AddedTo(u, v, key)
          PROVE  Lru(t, v, size)
      <3>1. Len(v) = L + 1 /\ \A k \in 1..(L + 1) : v[k] = IF k <= L THEN u[k] ELSE key
        BY <2>5 DEF AddedTo, L
      <3>2. Len(t) = Kept(size, Len(v))
        BY <1>1, <1>7, <2>1, <2>3, <3>1 DEF Kept
      <3>3. ASSUME NEW k \in 1..n
            PROVE  t[k].key = v[Len(v) - n + k]
        <4>1. CASE k = n
          <5>1. Len(v) - n + k = L + 1 /\ L + 1 \in 1..(L + 1) /\ ~(L + 1 <= L)
            BY <1>1, <3>1, <4>1
          <5>2. v[L + 1] = key
            BY <3>1, <5>1
          <5> QED BY <2>4, <4>1, <5>1, <5>2
        <4>2. CASE k # n
          <5>1. /\ k \in 1..(n - 1) /\ k + 1 \in 1..n
                /\ Len(v) - n + k = L - n + (k + 1)
                /\ L - n + (k + 1) \in 1..(L + 1) /\ L - n + (k + 1) <= L
            BY <1>1, <1>3, <3>1, <4>2
          <5>2. v[L - n + (k + 1)] = u[L - n + (k + 1)]
            BY <3>1, <5>1
          <5> QED BY <1>2, <2>4, <5>1, <5>2
        <4> QED BY <4>1, <4>2
      <3>4. \A k \in 1..Len(t) : t[k].key = v[Len(v) - Len(t) + k]
        BY <2>3, <3>3
      <3> QED BY <3>2, <3>4 DEF Lru
    <2>6. ASSUME ~AddedTo(u, v, key)
          PROVE  Lru(t, v, size)
      <3>1. PICK j \in 1..L : MovedTo(u, v, key, j)
        BY <2>6 DEF L
      <3>2. u[j] = key /\ Len(v) = L
            /\ \A k \in 1..L : v[k] = IF k < j THEN u[k] ELSE IF k < L THEN u[k + 1] ELSE key
        BY <3>1 DEF MovedTo, L
      <3>3. j <= L - n
        <4>1. ASSUME j > L - n
              PROVE  FALSE
          <5>1. j - (L - n) \in 1..n /\ L - n + (j - (L - n)) = j
            BY <1>1, <1>3, <4>1
          <5>2. c[j - (L - n)].key = u[j]
            BY <1>2, <5>1
          <5> QED BY <1>4, <3>2, <5>1, <5>2
        <4> QED BY <1>1, <4>1
      <3>4. Len(t) = Kept(size, Len(v))
        BY <1>2, <2>3, <3>2
      <3>5. ASSUME NEW k \in 1..n
            PROVE  t[k].key = v[Len(v) - n + k]
        <4>1. CASE k = n
          <5>1. Len(v) - n + k = L /\ L \in 1..L /\ ~(L < j)
            BY <1>1, <1>3, <3>2, <4>1
          <5>2. v[L] = key
            BY <1>1, <3>2, <5>1
          <5> QED BY <2>4, <4>1, <5>1, <5>2
        <4>2. CASE k # n
          <5>1. /\ k \in 1..(n - 1) /\ k + 1 \in 1..n
                /\ Len(v) - n + k = L - n + k /\ L - n + k \in 1..L
                /\ ~(L - n + k < j) /\ L - n + k < L
                /\ (L - n + k) + 1 = L - n + (k + 1)
            BY <1>1, <1>3, <3>2, <3>3, <4>2
          <5>2. v[L - n + k] = u[L - n + (k + 1)]
            BY <3>2, <5>1
          <5> QED BY <1>2, <2>4, <5>1, <5>2
        <4> QED BY <4>1, <4>2
      <3>6. \A k \in 1..Len(t) : t[k].key = v[Len(v) - Len(t) + k]
        BY <2>3, <3>5
      <3> QED BY <3>4, <3>6 DEF Lru
    <2>7. ASSUME NEW k \in 1..Len(t)
          PROVE  t[k] = e \/ \E l \in 1..n : t[k] = c[l]
      <3>1. k = n \/ (k \in 1..(n - 1) /\ k + 1 \in 1..n)
        BY <1>1, <2>3
      <3> QED BY <2>4, <3>1
    <2> QED BY <2>3, <2>5, <2>6, <2>7 DEF n
  <1>8. CASE ~(size > 0 /\ n + 1 > size)
    <2>1. t = a
      BY <1>5, <1>6, <1>8
    <2>2. n = L
      BY <1>1, <1>2, <1>8 DEF Kept
    <2> HIDE DEF n, L
    <2>3. AddedTo(u, v, key)
      <3>1. ASSUME NEW j \in 1..L, MovedTo(u, v, key, j)
            PROVE  FALSE
        <4>1. u[j] = key
          BY <3>1 DEF MovedTo
        <4>2. j \in 1..n /\ L - n + j = j
          BY <1>1, <2>2
        <4> QED BY <1>2, <1>4, <4>1, <4>2
      <3> QED BY <3>1 DEF L
    <2>4. Len(v) = L + 1 /\ \A k \in 1..(L + 1) : v[k] = IF k <= L THEN u[k] ELSE key
      BY <2>3 DEF AddedTo, L
    <2>5. Len(t) = Kept(size, Len(v))
      BY <1>1, <1>5, <1>8, <2>1, <2>2, <2>4 DEF Kept
    <2>6. ASSUME NEW k \in 1..(n + 1)
          PROVE  t[k].key = v[k] /\ (t[k] = e \/ \E l \in 1..n : t[k] = c[l])
      <3>1. CASE k = n + 1
        BY <1>1, <1>5, <2>1, <2>2, <2>4, <3>1
      <3>2. CASE k # n + 1
        <4>1. k \in 1..n /\ L - n + k = k /\ k <= L /\ k \in 1..(L + 1)
          BY <1>1, <2>2, <3>2
        <4>2. v[k] = u[k]
          BY <2>4, <4>1
        <4>3. t[k] = c[k] /\ c[k].key = u[k]
          BY <1>2, <1>5, <2>1, <4>1
        <4> QED BY <4>1, <4>2, <4>3
      <3> QED BY <3>1, <3>2
    <2>7. Lru(t, v, size)
      <3>1. Len(t) = n + 1 /\ Len(v) = n + 1
        BY <1>5, <2>1, <2>2, <2>4
      <3>2. ASSUME NEW k \in 1..(n + 1)
            PROVE  t[k].key = v[(n + 1) - (n + 1) + k]
        <4>1. (n + 1) - (n + 1) + k = k
          BY <1>1
        <4> QED BY <2>6, <4>1
      <3>3. \A k \in 1..Len(t) : t[k].key = v[Len(v) - Len(t) + k]
        BY <3>1, <3>2
      <3> QED BY <2>5, <3>3 DEF Lru
    <2> QED BY <1>5, <2>1, <2>6, <2>7 DEF n
  <1> QED BY <1>7, <1>8

\* A store: in the place of an earlier plan of its key, or as a new one.
LEMMA PutOrder ==
    ASSUME NEW T, NEW c \in Seq(T), NEW S, NEW u \in Seq(S), NEW v \in Seq(S), Distinct(u),
           NEW size \in Nat \cup {-1}, size # 0, Lru(c, u, size), NEW key, NEW plan,
           [key |-> key, plan |-> plan] \in T,
           AddedTo(u, v, key) \/ \E j \in 1..Len(u) : MovedTo(u, v, key, j)
    PROVE  /\ CachePut(c, key, plan, size) \in Seq(T)
           /\ Lru(CachePut(c, key, plan, size), v, size)
           /\ \A k \in DOMAIN CachePut(c, key, plan, size) :
                 \/ CachePut(c, key, plan, size)[k] = [key |-> key, plan |-> plan]
                 \/ \E l \in DOMAIN c : CachePut(c, key, plan, size)[k] = c[l]
  <1> DEFINE i == Slot(c, key)
             e == [key |-> key, plan |-> plan]
             a == Append(IF Slots(c, key) = {} THEN c ELSE RemoveAt(c, i), e)
             t == IF size > 0 /\ Len(a) > size THEN SubSeq(a, Len(a) - size + 1, Len(a)) ELSE a
  <1>1. CachePut(c, key, plan, size) = t
    BY DEF CachePut
  <1>2. e \in T /\ e.key = key
    OBVIOUS
  <1>3. DOMAIN c = 1..Len(c)
    OBVIOUS
  <1>4. CASE Slots(c, key) = {}
    <2>1. a = Append(c, e)
      BY <1>4
    <2>2. t = Trimmed(Append(c, e), size)
      BY <2>1 DEF Trimmed
    <2> HIDE DEF t, a, e
    <2>3. t \in Seq(T) /\ Lru(t, v, size) /\ \A k \in 1..Len(t) : t[k] = e \/ \E l \in 1..Len(c) : t[k] = c[l]
      BY <1>2, <1>4, <2>2, LruAdd
    <2>4. DOMAIN t = 1..Len(t)
      BY <2>3
    <2> QED BY <1>1, <1>3, <2>3, <2>4 DEF e
  <1>5. CASE Slots(c, key) # {}
    <2>1. a = Append(RemoveAt(c, i), e)
      BY <1>5
    <2>2. /\ i \in 1..Len(c) /\ c[i].key = key /\ Len(u) - Len(c) + i \in 1..Len(u)
          /\ \A j \in 1..Len(u) : u[j] = key => j = Len(u) - Len(c) + i
      BY <1>5, LruSlot
    <2>3. u[Len(u) - Len(c) + i] = key
      BY <2>2 DEF Lru
    <2> HIDE DEF i
    <2>4. PICK j \in 1..Len(u) : MovedTo(u, v, key, j)
      BY <2>2, <2>3 DEF AddedTo
    <2>5. Aligned(c, i, u, j)
      BY <2>2, <2>4 DEF MovedTo, Aligned
    <2> HIDE DEF e, a
    <2>6. a \in Seq(T) /\ Len(a) = Len(c) /\ Lru(a, v, size)
          /\ \A k \in 1..Len(c) : a[k] = e \/ \E l \in 1..Len(c) : a[k] = c[l]
      <3> DEFINE b == Append(RemoveAt(c, i), e)
      <3>1. b \in Seq(T) /\ Len(b) = Len(c) /\ Lru(b, v, size)
            /\ \A k \in 1..Len(c) : b[k] = e \/ \E l \in 1..Len(c) : b[k] = c[l]
        BY <1>2, <2>2, <2>4, <2>5, LruMove
      <3> QED BY <2>1, <3>1
    <2>7. ~(size > 0 /\ Len(a) > size)
      <3>1. Len(c) = Kept(size, Len(u)) /\ Len(u) \in Nat
        BY DEF Lru
      <3> QED BY <2>6, <3>1 DEF Kept
    <2>8. t = a /\ DOMAIN a = 1..Len(c)
      BY <2>6, <2>7
    <2> QED BY <1>1, <1>3, <2>6, <2>8 DEF e
  <1> QED BY <1>4, <1>5

-----------------------------------------------------------------------------
(* The inductive invariant. *)

Hops(g) == [source : g.models, target : g.models, disc : {g.discriminator}]

Mappings(g) == [path : Seq(STRING), node : g.models]

Legs(g) ==
    [path : Seq(STRING), source : g.models, target : g.models \cup {NoNode},
     edges : Seq(Hops(g))]

Statuses ==
    {"plan", "MaxDepthExceededError", "PayloadValidationError", "CatalogError",
     "ModelNotFoundError", "MigrationPathError"}

Outcomes(g) == [status : Statuses, entries : Seq(Legs(g))]

KeysOf(g) == {KeyOf(g, r) : r \in g.requests}

\* An entry was walked in the payload of a request.
Walked(g, r, e) ==
    \E j \in DOMAIN Entries(g, r) :
        Entries(g, r)[j].path = e.path /\ Entries(g, r)[j].node = e.source

\* e has its target, and its edges lead there as the graph's walk would.
Leads(g, e) == e.target # NoNode /\ EdgePath(g, e.source, e.target) = Plan(e.edges)

\* The target of the i-th entry when no resolver of the caller's own has a say.
FixedGoal(g, r, i) ==
    Goal(g, SpecFor(r.target, Entries(g, r)[i].node[1]), Entries(g, r)[i].node, NoNode)

\* e is what the loop makes of the i-th entry.
Follows(g, r, i, e) ==
    /\ e.path = Entries(g, r)[i].path /\ e.source = Entries(g, r)[i].node
    /\ Leads(g, e) \/ (e.target = NoNode /\ e.edges = << >>)
    /\ ~Dynamic(r.target) =>
          FixedGoal(g, r, i).error = "none" /\ e.target = FixedGoal(g, r, i).node

\* o is an answer to r.
Answers(g, r, o) ==
    /\ \A i \in DOMAIN o.entries :
          /\ Walked(g, r, o.entries[i]) /\ Leads(g, o.entries[i])
          /\ Verdict(g, o.entries[i]) = "keep"
    /\ ~Dynamic(r.target) => o = Afresh(g, r)

\* A call between its walk and its plan.
InPlanning(g, k) ==
    /\ k \in [at : {"lookup", "compile", "find", "record"}, request : g.requests,
              entries : Seq(Mappings(g)), resolved : Seq(Legs(g))]
    /\ Extract(g, k.request).status = "plan" /\ k.entries = Entries(g, k.request)
    /\ Len(k.resolved) <= Len(k.entries)
    /\ k.at \in {"lookup", "compile"} => k.resolved = << >>
    /\ k.at = "lookup" => KeyOf(g, k.request) # NoKey
    /\ k.at \in {"find", "record"} => Compiles(g, k.request.target)
    /\ k.at = "record" => k.resolved # << >> /\ Last(k.resolved).target # NoNode
    /\ \A i \in 1..Len(k.resolved) : Follows(g, k.request, i, k.resolved[i])

\* A call that has its answer.
Answered(g, k) ==
    /\ k \in [at : {"put", "answered"}, request : g.requests, outcome : Outcomes(g)]
    /\ k.at = "put" => Extract(g, k.request).status = "plan" /\ KeyOf(g, k.request) # NoKey
    /\ Answers(g, k.request, k.outcome)

CallInv(g, k) == k = Idle \/ InPlanning(g, k) \/ Answered(g, k)

\* What the plan cache holds answers every request of its key.
CacheInv(g, c) ==
    \A i \in DOMAIN c : \A r \in g.requests :
        /\ KeyOf(g, r) = c[i].key /\ KeyOf(g, r) # NoKey
        /\ Extract(g, r).status = "plan"
        => Answers(g, r, c[i].plan)

\* The path cache holds what the graph's walk finds.
PathsInv(g, ps) ==
    \A p \in DOMAIN ps :
        p \in g.models \X g.models /\ EdgePath(g, p[1], p[2]) = Plan(ps[p])

Inv ==
    /\ setup \in Setups
    /\ cache \in Seq([key : KeysOf(setup), plan : Outcomes(setup)])
    /\ uses \in Seq(KeysOf(setup)) /\ Distinct(uses)
    /\ Lru(cache, uses, setup.cacheSize) /\ CacheInv(setup, cache)
    /\ PathsInv(setup, paths)
    /\ calls = [c \in Callers |-> calls[c]]
    /\ \A c \in Callers : CallInv(setup, calls[c])

-----------------------------------------------------------------------------
(* What the parts of a call return. *)

\* The facts about a runner that the lemmas below use.
LEMMA SetupFacts ==
    ASSUME NEW g \in Setups
    PROVE  /\ IsFiniteSet(g.models) /\ g.models \subseteq STRING \X Nat /\ NoNode \notin g.models
           /\ g.direction \in {"any", "forward", "backward"}
           /\ g.onDirection \in {"raise", "skip"} /\ g.onDepth \in {"raise", "skip"}
           /\ g.onMissing \in {"raise", "skip"}
           /\ g.depthLimit \in Int /\ g.cacheSize \in Nat \cup {-1}
  BY SetupsAssumption

\* The facts about a request.
LEMMA RequestFacts ==
    ASSUME NEW g \in Setups, NEW r \in g.requests
    PROVE  /\ r.payload \in Documents /\ r.validated \in Documents
           /\ \A s \in Specs(r.target) : s.form \in SpecForms
  BY SetupsAssumption

\* Mappings chosen from a document are at versions of the graph.
LEMMA ChosenMappings ==
    ASSUME NEW g, NEW doc \in Documents, NEW K \in SUBSET DOMAIN doc,
           \A i \in K : Matches(g, doc[i])
    PROVE  Subsequence(doc, K) \in Seq(Mappings(g))
  <1> DEFINE T == [path : Seq(STRING), node : STRING \X Nat]
             s == Subsequence(doc, K)
  <1>1. doc \in Seq(T)
    BY DEF Documents
  <1>2. s \in Seq(T) /\ \A i \in DOMAIN s : \E k \in K : s[i] = doc[k]
    <2> HIDE DEF T
    <2> QED BY <1>1, SubsequenceFacts
  <1> HIDE DEF s
  <1>3. ASSUME NEW i \in 1..Len(s)
        PROVE  s[i] \in Mappings(g)
    <2>1. i \in DOMAIN s /\ s[i] \in T
      <3> HIDE DEF T
      <3> QED BY <1>2
    <2>2. PICK k \in K : s[i] = doc[k]
      BY <1>2, <2>1
    <2>3. s[i].node \in g.models
      BY <2>2 DEF Matches
    <2> QED BY <2>1, <2>3 DEF Mappings
  <1>4. s = [i \in 1..Len(s) |-> s[i]] /\ Len(s) \in Nat
    BY <1>2
  <1>5. s \in [1..Len(s) -> Mappings(g)]
    BY <1>3, <1>4
  <1>6. s \in Seq(Mappings(g))
    BY <1>4, <1>5
  <1> QED BY <1>6 DEF s

\* A walk finds mappings at versions of the graph, or raises.
LEMMA WalkFacts ==
    ASSUME NEW g, NEW doc \in Documents, NEW d
    PROVE  /\ WalkContainerless(g, doc, d).status \in Statuses
           /\ WalkContainerless(g, doc, d).entries \in Seq(Mappings(g))
           /\ WalkContainerless(g, doc, d).status # "plan" =>
                 WalkContainerless(g, doc, d) = Raised("MaxDepthExceededError")
           /\ WalkGuided(g, doc, d).status \in Statuses
           /\ WalkGuided(g, doc, d).entries \in Seq(Mappings(g))
           /\ WalkGuided(g, doc, d).status # "plan" =>
                 WalkGuided(g, doc, d) = Raised("MaxDepthExceededError")
  <1> DEFINE found == {i \in DOMAIN doc : Matches(g, doc[i])}
             reached == {i \in DOMAIN doc : Around(g, doc, doc[i].path) = {}}
             outer == {i \in reached : Matches(g, doc[i])}
             Empty == Raised("MaxDepthExceededError")
  <1>1. Subsequence(doc, found) \in Seq(Mappings(g))
    BY ChosenMappings
  <1>2. Subsequence(doc, outer) \in Seq(Mappings(g))
    BY ChosenMappings
  <1>3. WalkContainerless(g, doc, d) = Empty \/ WalkContainerless(g, doc, d) = Plan(Subsequence(doc, found))
    BY DEF WalkContainerless
  <1>4. WalkGuided(g, doc, d) = Empty \/ WalkGuided(g, doc, d) = Plan(Subsequence(doc, outer))
    BY DEF WalkGuided
  <1> HIDE DEF found, reached, outer
  <1>5. \A x \in Seq(Mappings(g)) : Plan(x).status = "plan" /\ Plan(x).entries = x
    BY DEF Plan
  <1>6. Empty.status = "MaxDepthExceededError" /\ Empty.entries = << >>
    BY DEF Raised
  <1> HIDE DEF Empty
  <1>7. << >> \in Seq(Mappings(g))
    BY EmptySeq
  <1>8. "plan" \in Statuses /\ "MaxDepthExceededError" \in Statuses
    BY DEF Statuses
  <1> QED BY <1>1, <1>2, <1>3, <1>4, <1>5, <1>6, <1>7, <1>8 DEF Empty

\* So does extract.
LEMMA ExtractFacts ==
    ASSUME NEW g \in Setups, NEW r \in g.requests
    PROVE  /\ Extract(g, r).status \in Statuses /\ Entries(g, r) \in Seq(Mappings(g))
           /\ Extract(g, r).status # "plan" => Extract(g, r) \in Outcomes(g) /\ Extract(g, r).entries = << >>
  <1>1. r.payload \in Documents /\ r.validated \in Documents
    BY RequestFacts
  <1> DEFINE Ok(x) == /\ x.status \in Statuses /\ x.entries \in Seq(Mappings(g))
                      /\ x.status # "plan" => \E error \in Statuses : x = Raised(error)
  <1>2. Ok(Raised("PayloadValidationError"))
    <2>1. << >> \in Seq(Mappings(g))
      BY EmptySeq
    <2> QED BY <2>1 DEF Raised, Statuses
  <1>3. ASSUME NEW doc \in Documents
        PROVE  Ok(WalkContainerless(g, doc, r.maxDepth)) /\ Ok(WalkGuided(g, doc, r.maxDepth))
    <2>1. "MaxDepthExceededError" \in Statuses
      BY DEF Statuses
    <2> DEFINE w == WalkContainerless(g, doc, r.maxDepth)
               x == WalkGuided(g, doc, r.maxDepth)
    <2>2. /\ w.status \in Statuses /\ w.entries \in Seq(Mappings(g))
          /\ w.status # "plan" => w = Raised("MaxDepthExceededError")
          /\ x.status \in Statuses /\ x.entries \in Seq(Mappings(g))
          /\ x.status # "plan" => x = Raised("MaxDepthExceededError")
      BY WalkFacts
    <2> HIDE DEF w, x
    <2>3. Ok(w) /\ Ok(x)
      BY <2>1, <2>2
    <2> QED BY <2>3 DEF w, x
  <1> HIDE DEF Ok
  <1>4. Ok(Extract(g, r))
    BY <1>1, <1>2, <1>3 DEF Extract
  <1>5. \A error \in Statuses : Raised(error) \in Outcomes(g) /\ Raised(error).entries = << >>
    BY DEF Raised, Outcomes
  <1> QED BY <1>4, <1>5 DEF Entries, Ok

\* The resolver that serves a kind under a policy that compiles.
LEMMA SpecForFacts ==
    ASSUME NEW g \in Setups, NEW r \in g.requests, Compiles(g, r.target), NEW kind
    PROVE  /\ SpecFor(r.target, kind).form \in SpecForms \ {"unparsable"}
           /\ SpecFor(r.target, kind).form = "node" => SpecFor(r.target, kind).node \in g.models
           /\ ~Dynamic(r.target) => SpecFor(r.target, kind).form # "callable"
  <1> DEFINE s == SpecFor(r.target, kind)
  <1>1. s \in Specs(r.target) \/ s = [form |-> "skip"]
    BY DEF SpecFor, Specs
  <1>2. CASE s \in Specs(r.target)
    BY <1>2, RequestFacts DEF Compiles, Dynamic
  <1>3. CASE s = [form |-> "skip"]
    <2>1. s.form = "skip"
      BY <1>3
    <2> HIDE DEF s
    <2> QED BY <2>1 DEF SpecForms, s
  <1> QED BY <1>1, <1>2, <1>3

\* A set of places has a last one.
LEMMA MaxFacts ==
    ASSUME NEW N \in Nat, NEW K \in SUBSET (1..N), K # {}
    PROVE  Max(K) \in K /\ \A y \in K : Max(K) >= y
  <1> DEFINE Has == \E x \in K : \A y \in K : x >= y
             S == {m \in Nat : (\E k \in K : k >= N - m) => Has}
  <1>1. 0 \in S
    <2> SUFFICES ASSUME NEW k \in K, k >= N - 0 PROVE Has
      OBVIOUS
    <2>1. \A y \in K : k >= y
      OBVIOUS
    <2> QED BY <2>1
  <1>2. ASSUME NEW m \in Nat, m \in S
        PROVE  m + 1 \in S
    <2> SUFFICES ASSUME NEW k \in K, k >= N - (m + 1) PROVE Has
      OBVIOUS
    <2>1. CASE \E l \in K : l >= N - m
      BY <1>2, <2>1
    <2>2. CASE ~\E l \in K : l >= N - m
      <3>1. \A y \in K : k >= y
        BY <2>2
      <3> QED BY <3>1
    <2> QED BY <2>1, <2>2
  <1>3. Nat \subseteq S
    <2> HIDE DEF S
    <2> QED BY <1>1, <1>2, SetInduction
  <1>4. N \in S
    BY <1>3
  <1>5. Has
    <2>1. PICK k \in K : TRUE
      OBVIOUS
    <2>2. k >= N - N
      OBVIOUS
    <2> QED BY <1>4, <2>2
  <1> QED BY <1>5 DEF Max

\* The versions of a kind that has one, as a sequence.
LEMMA VersionsFacts ==
    ASSUME NEW g \in Setups, NEW n \in g.models
    PROVE  /\ KindVersions(g, n[1]) \in Seq(OfKind(g, n[1]))
           /\ Len(KindVersions(g, n[1])) = Cardinality(OfKind(g, n[1]))
           /\ Len(KindVersions(g, n[1])) \in Nat \ {0}
           /\ DOMAIN KindVersions(g, n[1]) = 1..Len(KindVersions(g, n[1]))
           /\ \A i \in 1..Len(KindVersions(g, n[1])) :
                 KindVersions(g, n[1])[i] \in g.models /\ KindVersions(g, n[1])[i][1] = n[1]
  <1> DEFINE v == KindVersions(g, n[1])
             N == Cardinality(OfKind(g, n[1]))
  <1>1. N \in Nat /\ v \in [1..N -> OfKind(g, n[1])]
        /\ \A x \in OfKind(g, n[1]) : \E i \in 1..N : v[i] = x
    BY KindVersionsFacts
  <1>2. n \in OfKind(g, n[1])
    BY DEF OfKind
  <1>3. N # 0
    BY <1>1, <1>2
  <1> HIDE DEF v, N
  <1>4. v \in Seq(OfKind(g, n[1])) /\ Len(v) = N /\ DOMAIN v = 1..N
    BY <1>1
  <1>5. \A i \in 1..N : v[i] \in OfKind(g, n[1])
    BY <1>1
  <1>6. \A i \in 1..N : v[i] \in g.models /\ v[i][1] = n[1]
    BY <1>5 DEF OfKind
  <1> QED BY <1>1, <1>3, <1>4, <1>6 DEF v, N

\* Where a resolver sends an entry; only the caller's own decides anew each time.
LEMMA GoalFacts ==
    ASSUME NEW g \in Setups, NEW n \in g.models, NEW spec,
           spec.form \in SpecForms \ {"unparsable"}, spec.form = "node" => spec.node \in g.models,
           NEW d \in g.models \cup {NoNode}
    PROVE  /\ Goal(g, spec, n, d).error \in {"none"} \cup (Statuses \ {"plan"})
           /\ Goal(g, spec, n, d).node \in g.models \cup {NoNode}
           /\ spec.form # "callable" => Goal(g, spec, n, d) = Goal(g, spec, n, NoNode)
  <1> DEFINE v == KindVersions(g, n[1])
             matched == {i \in DOMAIN v : InRange(spec, v[i][2])}
             Chosen(node) == [error |-> "none", node |-> node]
             Failed(error) == [error |-> error, node |-> NoNode]
             Ok(x) == /\ x.error \in {"none"} \cup (Statuses \ {"plan"})
                      /\ x.node \in g.models \cup {NoNode}
  <1>1. /\ v \in Seq(OfKind(g, n[1])) /\ Len(v) \in Nat \ {0} /\ DOMAIN v = 1..Len(v)
        /\ \A i \in 1..Len(v) : v[i] \in g.models
    BY VersionsFacts
  <1>2. \A x \in g.models \cup {NoNode} : Ok(Chosen(x))
    OBVIOUS
  <1>3. Ok(Failed("ModelNotFoundError")) /\ Ok(Failed("CatalogError"))
    BY DEF Statuses
  <1>4. Last(v) \in g.models /\ Head(v) \in g.models
    BY <1>1 DEF Last
  <1>5. matched # {} => v[Max(matched)] \in g.models
    BY <1>1, MaxFacts
  <1>6. CASE spec.form = "skip"
    <2>1. Goal(g, spec, n, d) = Chosen(NoNode) /\ Goal(g, spec, n, NoNode) = Chosen(NoNode)
      BY <1>6 DEF Goal
    <2> QED BY <1>2, <2>1
  <1>7. CASE spec.form = "latest"
    <2>1. Goal(g, spec, n, d) = Chosen(Last(v)) /\ Goal(g, spec, n, NoNode) = Chosen(Last(v))
      BY <1>7 DEF Goal
    <2> QED BY <1>2, <1>4, <2>1
  <1>8. CASE spec.form = "earliest"
    <2>1. Goal(g, spec, n, d) = Chosen(Head(v)) /\ Goal(g, spec, n, NoNode) = Chosen(Head(v))
      BY <1>8 DEF Goal
    <2> QED BY <1>2, <1>4, <2>1
  <1>9. CASE spec.form = "version"
    <2> DEFINE x == IF <<n[1], spec.version>> \in g.models
                    THEN Chosen(<<n[1], spec.version>>) ELSE Failed("ModelNotFoundError")
    <2>1. Goal(g, spec, n, d) = x /\ Goal(g, spec, n, NoNode) = x
      BY <1>9 DEF Goal
    <2> QED BY <1>2, <1>3, <2>1
  <1>10. CASE spec.form = "range"
    <2> DEFINE x == Chosen(IF matched = {} THEN NoNode ELSE v[Max(matched)])
    <2>1. Goal(g, spec, n, d) = x /\ Goal(g, spec, n, NoNode) = x
      BY <1>10 DEF Goal
    <2> QED BY <1>2, <1>5, <2>1
  <1>11. CASE spec.form = "node"
    <2> DEFINE x == IF spec.node[1] = n[1] THEN Chosen(spec.node) ELSE Failed("CatalogError")
    <2>1. Goal(g, spec, n, d) = x /\ Goal(g, spec, n, NoNode) = x
      BY <1>11 DEF Goal
    <2> QED BY <1>2, <1>3, <1>11, <2>1
  <1>12. CASE spec.form = "callable"
    <2>1. Goal(g, spec, n, d) = Chosen(d)
      BY <1>12 DEF Goal
    <2> QED BY <1>2, <1>12, <2>1
  <1> QED BY <1>6, <1>7, <1>8, <1>9, <1>10, <1>11, <1>12 DEF SpecForms

-----------------------------------------------------------------------------
(* Paths. *)

\* Edges are a walk over the versions of a kind from place lo to place hi.
IsWalk(g, from, to, edges, lo, hi, step) ==
    LET v == KindVersions(g, from[1])
        N == Cardinality(OfKind(g, from[1]))
    IN  /\ from[1] = to[1] /\ lo \in 1..N /\ hi \in 1..N /\ v[lo] = from /\ v[hi] = to
        /\ IF lo < hi THEN step = 1 ELSE step = -1
        /\ edges \in Seq(Hops(g)) /\ Len(edges) = (hi - lo) * step
        /\ \A i \in 1..Len(edges) :
              /\ edges[i].source = v[lo + step * (i - 1)]
              /\ edges[i].target = v[lo + step * i]
              /\ edges[i] \in g.executable

\* Going up or down, a place on the way is one of the kind's.
LEMMA OnTheWay ==
    ASSUME NEW N \in Nat, NEW lo \in 1..N, NEW hi \in 1..N, NEW step,
           IF lo < hi THEN step = 1 ELSE step = -1
    PROVE  /\ (hi - lo) * step \in Nat
           /\ \A i \in 0..((hi - lo) * step) : lo + step * i \in 1..N
  <1>1. CASE lo < hi
    <2>1. step = 1 /\ (hi - lo) * step = hi - lo
      BY <1>1
    <2> QED BY <1>1, <2>1
  <1>2. CASE ~(lo < hi)
    <2>1. step = -1 /\ (hi - lo) * step = lo - hi
      BY <1>2
    <2>2. \A i \in Int : step * i = -i
      BY <2>1
    <2> QED BY <1>2, <2>1, <2>2
  <1> QED BY <1>1, <1>2

\* edge_path answers with a walk over executable edges, or raises.
LEMMA EdgePathFacts ==
    ASSUME NEW g \in Setups, NEW from \in g.models, NEW to \in g.models
    PROVE  \/ \E error \in Statuses \ {"plan"} : EdgePath(g, from, to) = Raised(error)
           \/ \E edges, lo, hi, step : /\ EdgePath(g, from, to) = Plan(edges)
                                       /\ IsWalk(g, from, to, edges, lo, hi, step)
  <1> DEFINE v == KindVersions(g, from[1])
             N == Cardinality(OfKind(g, from[1]))
             lo == CHOOSE i \in DOMAIN v : v[i] = from
             hi == CHOOSE i \in DOMAIN v : v[i] = to
             step == IF lo < hi THEN 1 ELSE -1
             hops == [i \in 1..((hi - lo) * step) |->
                        [source |-> v[lo + step * (i - 1)], target |-> v[lo + step * i],
                         disc |-> g.discriminator]]
             ok == {from, to} \subseteq g.models /\ Range(hops) \subseteq g.executable
  <1>1. EdgePath(g, from, to) = IF from[1] # to[1] THEN Raised("CatalogError")
                                ELSE IF ok THEN Plan(hops) ELSE Raised("MigrationPathError")
    BY DEF EdgePath
  <1>2. {"CatalogError", "MigrationPathError"} \subseteq Statuses \ {"plan"}
    BY DEF Statuses
  <1>3. CASE from[1] # to[1] \/ ~ok
    <2> HIDE DEF ok, hops
    <2>1. EdgePath(g, from, to) = Raised("CatalogError") \/ EdgePath(g, from, to) = Raised("MigrationPathError")
      BY <1>1, <1>3
    <2> QED BY <1>2, <2>1
  <1>4. CASE from[1] = to[1] /\ ok
    <2>1. N \in Nat /\ v \in [1..N -> OfKind(g, from[1])]
          /\ \A x \in OfKind(g, from[1]) : \E i \in 1..N : v[i] = x
      BY KindVersionsFacts
    <2>2. from \in OfKind(g, from[1]) /\ to \in OfKind(g, from[1]) /\ DOMAIN v = 1..N
      BY <1>4, <2>1 DEF OfKind
    <2>3. lo \in 1..N /\ v[lo] = from /\ hi \in 1..N /\ v[hi] = to
      BY <2>1, <2>2
    <2>4. EdgePath(g, from, to) = Plan(hops)
      <3> HIDE DEF hops
      <3> QED BY <1>1, <1>4
    <2>5. Range(hops) \subseteq g.executable
      BY <1>4
    <2> HIDE DEF v, N, lo, hi
    <2>6. IF lo < hi THEN step = 1 ELSE step = -1
      OBVIOUS
    <2> HIDE DEF step
    <2> DEFINE m == (hi - lo) * step
    <2>7. m \in Nat /\ \A i \in 0..m : lo + step * i \in 1..N
      BY <2>1, <2>3, <2>6, OnTheWay
    <2>8. \A i \in 1..N : v[i] \in g.models
      BY <2>1 DEF OfKind
    <2>9. hops = [i \in 1..m |-> [source |-> v[lo + step * (i - 1)], target |-> v[lo + step * i],
                                  disc |-> g.discriminator]]
      OBVIOUS
    <2> HIDE DEF m, hops
    <2>10. ASSUME NEW i \in 1..m
           PROVE  /\ hops[i] \in Hops(g) /\ hops[i] \in g.executable
                  /\ hops[i].source = v[lo + step * (i - 1)]
                  /\ hops[i].target = v[lo + step * i]
      <3>1. i \in 0..m /\ i - 1 \in 0..m
        BY <2>7
      <3>2. v[lo + step * (i - 1)] \in g.models /\ v[lo + step * i] \in g.models
        BY <2>7, <2>8, <3>1
      <3>3. hops[i] = [source |-> v[lo + step * (i - 1)], target |-> v[lo + step * i],
                       disc |-> g.discriminator]
        BY <2>9
      <3>4. hops[i] \in Range(hops)
        BY <2>9 DEF Range
      <3> QED BY <2>5, <3>2, <3>3, <3>4 DEF Hops
    <2>11. hops \in [1..m -> Hops(g)]
      BY <2>9, <2>10
    <2>12. hops \in Seq(Hops(g)) /\ Len(hops) = m
      BY <2>7, <2>11
    <2>13. IsWalk(g, from, to, hops, lo, hi, step)
      BY <1>4, <2>3, <2>6, <2>10, <2>12 DEF IsWalk, m, v, N
    <2> QED BY <2>4, <2>13
  <1> QED BY <1>3, <1>4

\* The versions a walk stops at.
Stops(from, edges) ==
    [k \in 1..(Len(edges) + 1) |-> IF k = 1 THEN from ELSE edges[k - 1].target]

\* Edges join up, end where they should and stop once at every version between.
Fits(g, from, to, edges) ==
    /\ \A k \in DOMAIN edges : /\ edges[k] \in g.executable
                               /\ edges[k].source = Stops(from, edges)[k]
    /\ Last(Stops(from, edges)) = to
    /\ Len(Stops(from, edges)) = Cardinality({from, to} \cup Between(g, from, to))
    /\ Between(g, from, to) \subseteq Range(Stops(from, edges))
    /\ from # to => edges # << >>

\* A walk does.
LEMMA WalkFits ==
    ASSUME NEW g \in Setups, NEW from \in g.models, NEW to \in g.models,
           NEW edges, NEW lo, NEW hi, NEW step, IsWalk(g, from, to, edges, lo, hi, step)
    PROVE  Fits(g, from, to, edges)
  <1> DEFINE v == KindVersions(g, from[1])
             N == Cardinality(OfKind(g, from[1]))
             m == (hi - lo) * step
             stops == Stops(from, edges)
             B == Between(g, from, to)
             C == {from, to} \cup B
  <1>1. /\ N \in Nat /\ v \in [1..N -> OfKind(g, from[1])]
        /\ \A i, j \in 1..N : i < j => v[i][2] < v[j][2]
        /\ \A x \in OfKind(g, from[1]) : \E i \in 1..N : v[i] = x
        /\ \A i, j \in 1..N : v[i] = v[j] => i = j
    BY KindVersionsFacts
  <1>2. /\ from[1] = to[1] /\ lo \in 1..N /\ hi \in 1..N /\ v[lo] = from /\ v[hi] = to
        /\ IF lo < hi THEN step = 1 ELSE step = -1
        /\ edges \in Seq(Hops(g)) /\ Len(edges) = m
        /\ \A i \in 1..m : /\ edges[i].source = v[lo + step * (i - 1)]
                           /\ edges[i].target = v[lo + step * i]
                           /\ edges[i] \in g.executable
    BY DEF IsWalk
  <1>3. \A i \in 1..N : v[i] \in g.models /\ v[i][1] = from[1] /\ v[i][2] \in Nat
    <2>1. \A x \in OfKind(g, from[1]) : x \in g.models /\ x[1] = from[1] /\ x[2] \in Nat
      BY SetupFacts DEF OfKind
    <2> HIDE DEF v, N
    <2> QED BY <1>1, <2>1
  <1>4. B = {x \in OfKind(g, from[1]) : \/ from[2] < x[2] /\ x[2] < to[2]
                                        \/ to[2] < x[2] /\ x[2] < from[2]}
    BY DEF Between, OfKind
  <1> HIDE DEF v, N, B
  <1>5. /\ m \in Nat /\ lo + step * m = hi /\ \A i \in 0..m : lo + step * i \in 1..N
    <2>1. N \in Nat /\ lo \in 1..N /\ hi \in 1..N
      BY <1>1, <1>2
    <2>2. IF lo < hi THEN step = 1 ELSE step = -1
      BY <1>2
    <2>3. m \in Nat /\ \A i \in 0..m : lo + step * i \in 1..N
      BY <2>1, <2>2, OnTheWay
    <2>4. lo + step * m = hi
      <3>1. CASE lo < hi
        BY <2>1, <2>2, <3>1
      <3>2. CASE ~(lo < hi)
        BY <2>1, <2>2, <3>2
      <3> QED BY <3>1, <3>2
    <2> QED BY <2>3, <2>4
  <1>6. stops = [k \in 1..(m + 1) |-> IF k = 1 THEN from ELSE edges[k - 1].target]
    BY <1>2 DEF Stops
  <1>7. step \in Int /\ lo \in Int /\ hi \in Int
    BY <1>2
  <1>8. m = IF lo < hi THEN hi - lo ELSE lo - hi
    BY <1>2, <1>7
  <1> HIDE DEF m, stops
  <1>9. ASSUME NEW k \in 1..(m + 1)
        PROVE  stops[k] = v[lo + step * (k - 1)] /\ k - 1 \in 0..m
    <2>1. CASE k = 1
      <3>1. lo + step * (k - 1) = lo
        BY <1>7, <2>1
      <3> QED BY <1>2, <1>5, <1>6, <2>1, <3>1
    <2>2. CASE k # 1
      <3>1. k - 1 \in 1..m
        BY <1>5, <2>2
      <3> QED BY <1>2, <1>6, <2>2, <3>1
    <2> QED BY <2>1, <2>2
  <1>10. \A k \in DOMAIN edges : edges[k] \in g.executable /\ edges[k].source = stops[k]
    <2>1. DOMAIN edges = 1..m
      BY <1>2
    <2>2. \A k \in 1..m : k \in 1..(m + 1)
      BY <1>5
    <2> QED BY <1>2, <1>9, <2>1, <2>2
  <1>11. Len(stops) = m + 1 /\ DOMAIN stops = 1..(m + 1)
    BY <1>5, <1>6
  <1>12. Last(stops) = to
    <2>1. m + 1 \in 1..(m + 1) /\ (m + 1) - 1 = m
      BY <1>5
    <2>2. stops[m + 1] = v[lo + step * m]
      BY <1>9, <2>1
    <2> QED BY <1>2, <1>5, <1>11, <2>2 DEF Last
  \* A place on the way holds an end or something in between.
  <1>13. ASSUME NEW k \in 1..(m + 1)
         PROVE  stops[k] \in C
    <2> DEFINE p == lo + step * (k - 1)
    <2>1. k - 1 \in 0..m /\ p \in 1..N /\ stops[k] = v[p]
      BY <1>5, <1>9
    <2>2. v[p] \in OfKind(g, from[1])
      BY <1>1, <2>1
    <2>3. CASE p = lo \/ p = hi
      BY <1>2, <2>1, <2>3
    <2>4. CASE p # lo /\ p # hi
      <3>1. (lo < p /\ p < hi) \/ (hi < p /\ p < lo)
        <4>1. CASE lo < hi
          <5>1. p = lo + (k - 1) /\ m = hi - lo
            BY <1>2, <1>7, <1>8, <4>1
          <5> HIDE DEF p
          <5> QED BY <1>7, <2>1, <2>4, <5>1
        <4>2. CASE ~(lo < hi)
          <5>1. p = lo - (k - 1) /\ m = lo - hi
            BY <1>2, <1>7, <1>8, <4>2
          <5> HIDE DEF p
          <5> QED BY <1>7, <2>1, <2>4, <5>1
        <4> QED BY <4>1, <4>2
      <3> HIDE DEF p
      <3>2. (from[2] < v[p][2] /\ v[p][2] < to[2]) \/ (to[2] < v[p][2] /\ v[p][2] < from[2])
        BY <1>1, <1>2, <2>1, <3>1
      <3> QED BY <1>4, <2>1, <2>2, <3>2
    <2> QED BY <2>3, <2>4
  <1>14. ASSUME NEW x \in C
         PROVE  \E k \in 1..(m + 1) : stops[k] = x
    <2>1. CASE x = from
      <3>1. 1 \in 1..(m + 1)
        BY <1>5
      <3> QED BY <1>6, <2>1, <3>1
    <2>2. CASE x = to
      <3>1. m + 1 \in 1..(m + 1)
        BY <1>5
      <3> QED BY <1>11, <1>12, <2>2, <3>1 DEF Last
    <2>3. CASE x \in B
      <3>1. x \in OfKind(g, from[1]) /\ ((from[2] < x[2] /\ x[2] < to[2]) \/ (to[2] < x[2] /\ x[2] < from[2]))
        BY <1>4, <2>3
      <3>2. PICK p \in 1..N : v[p] = x
        BY <1>1, <3>1
      <3>3. (lo < p /\ p < hi) \/ (hi < p /\ p < lo)
        <4>1. /\ p < lo \/ p = lo \/ lo < p
              /\ p < hi \/ p = hi \/ hi < p
          BY <1>7
        <4>2. v[lo][2] \in Nat /\ v[hi][2] \in Nat /\ v[p][2] \in Nat
          BY <1>2, <1>3
        <4> QED BY <1>1, <1>2, <3>1, <3>2, <4>1, <4>2
      <3>4. CASE lo < hi
        <4>1. p - lo + 1 \in 1..(m + 1) /\ step = 1 /\ lo + step * ((p - lo + 1) - 1) = p
          BY <1>2, <1>7, <1>8, <3>3, <3>4
        <4> QED BY <1>9, <3>2, <4>1
      <3>5. CASE ~(lo < hi)
        <4>1. lo - p + 1 \in 1..(m + 1) /\ step = -1 /\ lo + step * ((lo - p + 1) - 1) = p
          BY <1>2, <1>7, <1>8, <3>3, <3>5
        <4> QED BY <1>9, <3>2, <4>1
      <3> QED BY <3>4, <3>5
    <2> QED BY <2>1, <2>2, <2>3
  <1>15. ASSUME NEW k \in 1..(m + 1), NEW l \in 1..(m + 1), stops[k] = stops[l]
         PROVE  k = l
    <2>1. lo + step * (k - 1) = lo + step * (l - 1)
      <3>1. lo + step * (k - 1) \in 1..N /\ lo + step * (l - 1) \in 1..N
        BY <1>5, <1>9
      <3> QED BY <1>1, <1>9, <1>15, <3>1
    <2>2. CASE step = 1
      BY <1>5, <1>7, <2>1, <2>2
    <2>3. CASE step = -1
      BY <1>5, <1>7, <2>1, <2>3
    <2> QED BY <1>2, <2>2, <2>3
  <1> HIDE DEF C
  <1>16. Cardinality(C) = m + 1
    <2>1. stops \in [1..(m + 1) -> C]
      BY <1>6, <1>13
    <2>2. stops \in Injection(1..(m + 1), C) /\ stops \in Surjection(1..(m + 1), C)
      BY <1>11, <1>14, <1>15, <2>1 DEF Injection, IsInjective, Surjection
    <2>3. ExistsBijection(1..(m + 1), C)
      BY <2>2 DEF ExistsBijection, Bijection
    <2>4. m + 1 \in Nat
      BY <1>5
    <2> QED BY <2>3, <2>4, FS_CountingElements
  <1>17. B \subseteq Range(stops)
    BY <1>11, <1>14 DEF Range, C
  <1>18. from # to => edges # << >>
    <2>1. from # to => lo # hi
      BY <1>2
    <2>2. lo # hi => m # 0
      BY <1>7, <1>8
    <2>3. Len(edges) # 0 => edges # << >>
      OBVIOUS
    <2> QED BY <1>2, <2>1, <2>2, <2>3
  <1> QED BY <1>10, <1>11, <1>12, <1>16, <1>17, <1>18 DEF Fits, stops, B, C

-----------------------------------------------------------------------------
(* What planning afresh gives. *)

\* Planning afresh, once the payload is walked.
Replanned(g, entries, target) ==
    LET goals == [i \in DOMAIN entries |->
                    Goal(g, SpecFor(target, entries[i].node[1]), entries[i].node, NoNode)]
        found == [i \in DOMAIN entries |->
                    IF goals[i].error # "none" THEN Raised(goals[i].error)
                    ELSE IF goals[i].node = NoNode THEN Plan(<< >>)
                    ELSE EdgePath(g, entries[i].node, goals[i].node)]
        failed == {i \in DOMAIN entries : found[i].status # "plan"}
    IN  IF ~Compiles(g, target) THEN Raised("CatalogError")
        ELSE IF failed # {} THEN found[CHOOSE i \in failed : \A j \in failed : i <= j]
        ELSE ApplyPolicy(g, Targeted([i \in DOMAIN entries |->
                Resolved(entries[i], goals[i].node, found[i].entries)]))

\* It is the walk and then the rest.
LEMMA AfreshIsReplanned ==
    ASSUME NEW g, NEW r
    PROVE  Afresh(g, r) = IF Extract(g, r).status # "plan" THEN Extract(g, r)
                          ELSE Replanned(g, Entries(g, r), r.target)
  BY DEF Afresh, Replanned

\* What the loop makes of the i-th entry when no path is cached.
Fresh(g, r, i) ==
    IF FixedGoal(g, r, i).error # "none" THEN Raised(FixedGoal(g, r, i).error)
    ELSE IF FixedGoal(g, r, i).node = NoNode THEN Plan(<< >>)
    ELSE EdgePath(g, Entries(g, r)[i].node, FixedGoal(g, r, i).node)

\* A policy that does not compile, the first entry that fails, or the policy's verdict.
LEMMA AfreshCases ==
    ASSUME NEW g, NEW r, Extract(g, r).status = "plan", Entries(g, r) \in Seq(Mappings(g))
    PROVE  /\ ~Compiles(g, r.target) => Afresh(g, r) = Raised("CatalogError")
           /\ \A i \in 1..Len(Entries(g, r)) :
                 (/\ Compiles(g, r.target) /\ Fresh(g, r, i).status # "plan"
                  /\ \A j \in 1..(i - 1) : Fresh(g, r, j).status = "plan")
                 => Afresh(g, r) = Fresh(g, r, i)
           /\ (/\ Compiles(g, r.target)
               /\ \A i \in 1..Len(Entries(g, r)) : Fresh(g, r, i).status = "plan")
              => Afresh(g, r) = ApplyPolicy(g, Targeted([i \in 1..Len(Entries(g, r)) |->
                    Resolved(Entries(g, r)[i], FixedGoal(g, r, i).node, Fresh(g, r, i).entries)]))
  <1> DEFINE entries == Entries(g, r)
             L == Len(entries)
             goals == [i \in DOMAIN entries |->
                         Goal(g, SpecFor(r.target, entries[i].node[1]), entries[i].node, NoNode)]
             found == [i \in DOMAIN entries |->
                         IF goals[i].error # "none" THEN Raised(goals[i].error)
                         ELSE IF goals[i].node = NoNode THEN Plan(<< >>)
                         ELSE EdgePath(g, entries[i].node, goals[i].node)]
             failed == {i \in DOMAIN entries : found[i].status # "plan"}
             legs == [i \in DOMAIN entries |->
                         Resolved(entries[i], goals[i].node, found[i].entries)]
             first == CHOOSE i \in failed : \A j \in failed : i <= j
  <1>1. Afresh(g, r) = IF ~Compiles(g, r.target) THEN Raised("CatalogError")
                       ELSE IF failed # {} THEN found[first]
                       ELSE ApplyPolicy(g, Targeted(legs))
    <2>1. Replanned(g, entries, r.target) = IF ~Compiles(g, r.target) THEN Raised("CatalogError")
                       ELSE IF failed # {} THEN found[first]
                       ELSE ApplyPolicy(g, Targeted(legs))
      BY DEF Replanned
    <2> HIDE DEF failed, found, first, legs, goals
    <2> QED BY <2>1, AfreshIsReplanned
  <1>2. DOMAIN entries = 1..L /\ L \in Nat
    OBVIOUS
  <1>3. ASSUME NEW i \in 1..L
        PROVE  goals[i] = FixedGoal(g, r, i) /\ found[i] = Fresh(g, r, i)
    <2>1. goals[i] = FixedGoal(g, r, i)
      BY <1>2 DEF FixedGoal
    <2> HIDE DEF goals
    <2>2. found[i] = IF goals[i].error # "none" THEN Raised(goals[i].error)
                     ELSE IF goals[i].node = NoNode THEN Plan(<< >>)
                     ELSE EdgePath(g, entries[i].node, goals[i].node)
      BY <1>2
    <2> HIDE DEF found
    <2> QED BY <2>1, <2>2 DEF Fresh
  <1>4. legs = [i \in 1..L |->
                  Resolved(Entries(g, r)[i], FixedGoal(g, r, i).node, Fresh(g, r, i).entries)]
    <2> HIDE DEF goals, found
    <2> QED BY <1>2, <1>3
  <1>5. failed = {i \in 1..L : Fresh(g, r, i).status # "plan"}
    <2> HIDE DEF goals, found
    <2> QED BY <1>2, <1>3
  <1> HIDE DEF goals, found, failed, legs, first
  <1>6. ASSUME NEW i \in 1..L, Compiles(g, r.target), Fresh(g, r, i).status # "plan",
               \A j \in 1..(i - 1) : Fresh(g, r, j).status = "plan"
        PROVE  Afresh(g, r) = Fresh(g, r, i)
    <2>1. i \in failed /\ \A j \in failed : i <= j
      BY <1>2, <1>5, <1>6
    <2>2. first \in failed /\ first <= i
      BY <2>1 DEF first
    <2>3. first = i
      BY <1>2, <1>5, <2>1, <2>2
    <2> QED BY <1>1, <1>3, <1>6, <2>1, <2>3
  <1>7. (Compiles(g, r.target) /\ \A i \in 1..L : Fresh(g, r, i).status = "plan")
        => Afresh(g, r) = ApplyPolicy(g, Targeted(legs))
    BY <1>1, <1>5
  <1> QED BY <1>1, <1>4, <1>6, <1>7

\* Equal keys: the same target policy over the same entries.
LEMMA KeyDetermines ==
    ASSUME NEW g, NEW r, NEW q, KeyOf(g, r) = KeyOf(g, q), KeyOf(g, r) # NoKey
    PROVE  r.target = q.target /\ Entries(g, r) = Entries(g, q)
  <1>1. r.target.form # "callable" /\ q.target.form # "callable"
    BY DEF KeyOf
  <1>2. KeyOf(g, r) = [target |-> r.target, source |-> r.source, entries |-> Entries(g, r)]
    BY <1>1 DEF KeyOf
  <1>3. KeyOf(g, q) = [target |-> q.target, source |-> q.source, entries |-> Entries(g, q)]
    BY <1>1 DEF KeyOf
  <1>4. KeyOf(g, r).target = r.target /\ KeyOf(g, r).entries = Entries(g, r)
    BY <1>2
  <1>5. KeyOf(g, q).target = q.target /\ KeyOf(g, q).entries = Entries(g, q)
    BY <1>3
  <1> QED BY <1>4, <1>5

\* And so the answer to one is an answer to the other.
LEMMA AnswersTransfer ==
    ASSUME NEW g, NEW r, NEW q, NEW o, KeyOf(g, r) = KeyOf(g, q), KeyOf(g, r) # NoKey,
           Extract(g, r).status = "plan", Extract(g, q).status = "plan", Answers(g, r, o)
    PROVE  Answers(g, q, o)
  <1>1. r.target = q.target /\ Entries(g, r) = Entries(g, q)
    BY KeyDetermines
  <1>2. Afresh(g, r) = Afresh(g, q)
    BY <1>1, AfreshIsReplanned
  <1>3. \A e : Walked(g, r, e) <=> Walked(g, q, e)
    BY <1>1 DEF Walked
  <1> QED BY <1>1, <1>2, <1>3 DEF Answers

\* An error is an answer where planning afresh raises it.
LEMMA RaisedAnswers ==
    ASSUME NEW g, NEW r, NEW error \in Statuses, ~Dynamic(r.target) => Raised(error) = Afresh(g, r)
    PROVE  Raised(error) \in Outcomes(g) /\ Answers(g, r, Raised(error))
  <1>1. Raised(error).entries = << >>
    BY DEF Raised
  <1>2. Raised(error) \in Outcomes(g)
    <2>1. << >> \in Seq(Legs(g))
      BY EmptySeq
    <2> QED BY <2>1 DEF Raised, Outcomes
  <1> QED BY <1>1, <1>2 DEF Answers

\* An entry that was resolved is as planning afresh has it.
LEMMA FollowsFresh ==
    ASSUME NEW g, NEW r, NEW i, NEW e, Follows(g, r, i, e), ~Dynamic(r.target)
    PROVE  /\ Fresh(g, r, i) = Plan(e.edges) /\ e.target = FixedGoal(g, r, i).node
           /\ Fresh(g, r, i).status = "plan" /\ Fresh(g, r, i).entries = e.edges
  <1>1. /\ FixedGoal(g, r, i).error = "none" /\ e.target = FixedGoal(g, r, i).node
        /\ e.source = Entries(g, r)[i].node
        /\ Leads(g, e) \/ (e.target = NoNode /\ e.edges = << >>)
    BY DEF Follows
  <1>2. Fresh(g, r, i) = IF e.target = NoNode THEN Plan(<< >>) ELSE EdgePath(g, e.source, e.target)
    BY <1>1 DEF Fresh
  <1>3. Fresh(g, r, i) = Plan(e.edges)
    BY <1>1, <1>2 DEF Leads
  <1>4. Plan(e.edges).status = "plan" /\ Plan(e.edges).entries = e.edges
    BY DEF Plan
  <1> QED BY <1>1, <1>3, <1>4

\* The first entry that fails decides what planning afresh raises.
LEMMA LoopFails ==
    ASSUME NEW g \in Setups, NEW r \in g.requests, Extract(g, r).status = "plan",
           Compiles(g, r.target), ~Dynamic(r.target),
           NEW s \in Seq(Legs(g)), \A i \in 1..Len(s) : Follows(g, r, i, s[i]),
           Len(s) < Len(Entries(g, r)), Fresh(g, r, Len(s) + 1).status # "plan"
    PROVE  Afresh(g, r) = Fresh(g, r, Len(s) + 1)
  <1>1. Entries(g, r) \in Seq(Mappings(g))
    BY ExtractFacts
  <1>2. \A j \in 1..Len(s) : Fresh(g, r, j).status = "plan"
    BY FollowsFresh
  <1> DEFINE n == Len(s) + 1
  <1>3. n \in 1..Len(Entries(g, r)) /\ 1..(n - 1) = 1..Len(s)
    BY <1>1
  <1>4. \A j \in 1..(n - 1) : Fresh(g, r, j).status = "plan"
    BY <1>2, <1>3
  <1>5. Fresh(g, r, n).status # "plan"
    OBVIOUS
  <1> HIDE DEF n
  <1>6. Afresh(g, r) = Fresh(g, r, n)
    BY <1>1, <1>3, <1>4, <1>5, AfreshCases
  <1> QED BY <1>6 DEF n

\* What the policy leaves of the resolved entries.
LEMMA PolicyFacts ==
    ASSUME NEW g \in Setups, NEW s \in Seq(Legs(g))
    PROVE  /\ ApplyPolicy(g, Targeted(s)) \in Outcomes(g)
           /\ \A i \in DOMAIN ApplyPolicy(g, Targeted(s)).entries :
                 \E k \in 1..Len(s) : /\ ApplyPolicy(g, Targeted(s)).entries[i] = s[k]
                                      /\ s[k].target # NoNode /\ Verdict(g, s[k]) = "keep"
  <1> DEFINE T == {i \in DOMAIN s : s[i].target # NoNode}
             t == Targeted(s)
             K == {i \in DOMAIN t : Verdict(g, t[i]) = "keep"}
             u == Subsequence(t, K)
             o == ApplyPolicy(g, t)
  <1>1. t \in Seq(Legs(g)) /\ \A i \in DOMAIN t : \E k \in T : t[i] = s[k]
    <2>1. t = Subsequence(s, T) /\ T \in SUBSET DOMAIN s
      BY DEF Targeted
    <2> HIDE DEF t, T
    <2> QED BY <2>1, SubsequenceFacts
  <1>2. \A k \in T : k \in 1..Len(s) /\ s[k].target # NoNode
    OBVIOUS
  <1>3. o = Raised("CatalogError") \/ o = Plan(u)
    BY DEF ApplyPolicy
  <1> HIDE DEF t, T
  <1>4. u \in Seq(Legs(g)) /\ \A i \in DOMAIN u : \E k \in K : u[i] = t[k]
    <2>1. K \in SUBSET DOMAIN t
      OBVIOUS
    <2> HIDE DEF K
    <2> QED BY <1>1, <2>1, SubsequenceFacts
  <1>5. \A k \in K : k \in DOMAIN t /\ Verdict(g, t[k]) = "keep"
    OBVIOUS
  <1> HIDE DEF K, u, o
  <1>6. CASE o = Raised("CatalogError")
    <2>1. << >> \in Seq(Legs(g)) /\ "CatalogError" \in Statuses
      BY EmptySeq DEF Statuses
    <2>2. o \in Outcomes(g) /\ o.entries = << >>
      BY <1>6, <2>1 DEF Raised, Outcomes
    <2> QED BY <2>2 DEF o, t
  <1>7. CASE o = Plan(u)
    <2>1. o \in Outcomes(g) /\ o.entries = u
      BY <1>4, <1>7 DEF Plan, Outcomes, Statuses
    <2>2. ASSUME NEW i \in DOMAIN u
          PROVE  \E k \in 1..Len(s) : u[i] = s[k] /\ s[k].target # NoNode /\ Verdict(g, s[k]) = "keep"
      <3>1. PICK l \in K : u[i] = t[l]
        BY <1>4
      <3>2. PICK k \in T : t[l] = s[k]
        BY <1>1, <1>5
      <3> QED BY <1>2, <1>5, <3>1, <3>2
    <2> QED BY <2>1, <2>2 DEF o, t
  <1> QED BY <1>3, <1>6, <1>7

\* The policy applied to a loop that is through is an answer.
LEMMA PolicyAnswers ==
    ASSUME NEW g \in Setups, NEW r \in g.requests, Extract(g, r).status = "plan",
           Compiles(g, r.target), NEW s \in Seq(Legs(g)), Len(s) = Len(Entries(g, r)),
           \A i \in 1..Len(s) : Follows(g, r, i, s[i])
    PROVE  Answers(g, r, ApplyPolicy(g, Targeted(s)))
  <1> DEFINE o == ApplyPolicy(g, Targeted(s))
  <1>1. Entries(g, r) \in Seq(Mappings(g))
    BY ExtractFacts
  <1>2. \A i \in DOMAIN o.entries :
           \E k \in 1..Len(s) : o.entries[i] = s[k] /\ s[k].target # NoNode /\ Verdict(g, s[k]) = "keep"
    BY PolicyFacts
  <1>3. ASSUME NEW k \in 1..Len(s), s[k].target # NoNode
        PROVE  Walked(g, r, s[k]) /\ Leads(g, s[k])
    <2>1. k \in DOMAIN Entries(g, r)
      BY <1>1
    <2>2. Follows(g, r, k, s[k])
      OBVIOUS
    <2> QED BY <1>3, <2>1, <2>2 DEF Follows, Walked
  <1>4. ASSUME ~Dynamic(r.target)
        PROVE  o = Afresh(g, r)
    <2> DEFINE L == Len(Entries(g, r))
               f == [i \in 1..L |->
                       Resolved(Entries(g, r)[i], FixedGoal(g, r, i).node, Fresh(g, r, i).entries)]
    <2>1. ASSUME NEW i \in 1..L
          PROVE  /\ Fresh(g, r, i).status = "plan"
                 /\ s[i] = Resolved(Entries(g, r)[i], FixedGoal(g, r, i).node, Fresh(g, r, i).entries)
      <3>1. Follows(g, r, i, s[i])
        OBVIOUS
      <3>2. Fresh(g, r, i).status = "plan" /\ Fresh(g, r, i).entries = s[i].edges
            /\ s[i].target = FixedGoal(g, r, i).node
        BY <1>4, <3>1, FollowsFresh
      <3>3. s[i].path = Entries(g, r)[i].path /\ s[i].source = Entries(g, r)[i].node
        BY <3>1 DEF Follows
      <3>4. s[i] \in Legs(g)
        OBVIOUS
      <3>5. s[i] = [path |-> s[i].path, source |-> s[i].source, target |-> s[i].target,
                    edges |-> s[i].edges]
        BY <3>4 DEF Legs
      <3> QED BY <3>2, <3>3, <3>5 DEF Resolved
    <2>2. s = f
      <3>1. s = [i \in 1..L |-> s[i]]
        OBVIOUS
      <3> HIDE DEF L
      <3> QED BY <2>1, <3>1
    <2> HIDE DEF f
    <2>3. Afresh(g, r) = ApplyPolicy(g, Targeted(f))
      BY <1>1, <2>1, AfreshCases DEF f
    <2> QED BY <2>2, <2>3
  <1> HIDE DEF o
  <1>5. Answers(g, r, o)
    BY <1>2, <1>3, <1>4 DEF Answers
  <1> QED BY <1>5 DEF o

-----------------------------------------------------------------------------
(* Every step keeps the invariant. *)

\* Where a call is tells what is known of it.
LEMMA CallAt ==
    ASSUME NEW g, NEW k, CallInv(g, k)
    PROVE  /\ k.at = "idle" => k = Idle
           /\ k.at \in {"lookup", "compile", "find", "record"} => InPlanning(g, k)
           /\ k.at \in {"put", "answered"} => Answered(g, k)
  <1>1. k = Idle => k.at = "idle"
    BY DEF Idle
  <1>2. InPlanning(g, k) => k.at \in {"lookup", "compile", "find", "record"}
    BY DEF InPlanning
  <1>3. Answered(g, k) => k.at \in {"put", "answered"}
    BY DEF Answered
  <1> QED BY <1>1, <1>2, <1>3 DEF CallInv

\* A call that has been answered with o.
Done(k, o) == [at |-> "answered", request |-> k.request, outcome |-> o]

\* An answer ends a call.
LEMMA DoneFacts ==
    ASSUME NEW g, NEW k, NEW o \in Outcomes(g), k.request \in g.requests, Answers(g, k.request, o)
    PROVE  CallInv(g, Done(k, o))
  <1>1. /\ Done(k, o) \in [at : {"put", "answered"}, request : g.requests, outcome : Outcomes(g)]
        /\ Done(k, o).at = "answered" /\ Done(k, o).request = k.request /\ Done(k, o).outcome = o
    BY DEF Done
  <1>2. Answered(g, Done(k, o))
    BY <1>1 DEF Answered
  <1> QED BY <1>2 DEF CallInv

\* A step of one call leaves the others as they are.
LEMMA OneCall ==
    ASSUME Inv, NEW c \in Callers, NEW k, calls' = [calls EXCEPT ![c] = k], CallInv(setup, k)
    PROVE  /\ calls' = [x \in Callers |-> calls'[x]]
           /\ \A x \in Callers : CallInv(setup, calls'[x])
  <1>1. calls = [x \in Callers |-> calls[x]] /\ \A x \in Callers : CallInv(setup, calls[x])
    BY DEF Inv
  <1>2. calls' = [x \in Callers |-> IF x = c THEN k ELSE calls[x]]
    BY <1>1
  <1> QED BY <1>1, <1>2

\* A step that touches nothing shared.
LEMMA OwnStep ==
    ASSUME Inv, NEW c \in Callers, NEW k, calls' = [calls EXCEPT ![c] = k], CallInv(setup, k),
           UNCHANGED <<setup, cache, paths, uses>>
    PROVE  Inv'
  <1>1. calls' = [x \in Callers |-> calls'[x]] /\ \A x \in Callers : CallInv(setup, calls'[x])
    BY OneCall
  <1>2. setup' = setup /\ cache' = cache /\ paths' = paths /\ uses' = uses
    OBVIOUS
  <1> QED BY <1>1, <1>2 DEF Inv

\* Nothing is cached and nobody has called.
LEMMA InitInv ==
    ASSUME Init
    PROVE  Inv
  <1>1. cache \in Seq([key : KeysOf(setup), plan : Outcomes(setup)]) /\ uses \in Seq(KeysOf(setup))
    BY EmptySeq DEF Init
  <1>2. Distinct(uses) /\ CacheInv(setup, cache) /\ PathsInv(setup, paths)
    BY DEF Init, Distinct, CacheInv, PathsInv
  <1>3. setup.cacheSize \in Nat \cup {-1}
    BY SetupFacts DEF Init
  <1>4. Len(cache) = 0 /\ Len(uses) = 0
    BY DEF Init
  <1>5. Lru(cache, uses, setup.cacheSize)
    BY <1>3, <1>4 DEF Lru, Kept
  <1>6. calls = [c \in Callers |-> calls[c]] /\ \A c \in Callers : CallInv(setup, calls[c])
    BY DEF Init, CallInv
  <1> QED BY <1>1, <1>2, <1>5, <1>6 DEF Init, Inv

\* A walk that raises is answered at once.
LEMMA AskStep ==
    ASSUME Inv, NEW c \in Callers, NEW r \in setup.requests, Ask(c, r)
    PROVE  Inv'
  <1>1. setup \in Setups
    BY DEF Inv
  <1> DEFINE walk == Extract(setup, r)
             call == [at |-> IF KeyOf(setup, r) = NoKey THEN "compile" ELSE "lookup",
                      request |-> r, entries |-> walk.entries, resolved |-> << >>]
             over == [at |-> "answered", request |-> r, outcome |-> walk]
  <1>2. /\ walk.status \in Statuses /\ Entries(setup, r) \in Seq(Mappings(setup))
        /\ walk.status # "plan" => walk \in Outcomes(setup) /\ walk.entries = << >>
    BY <1>1, ExtractFacts
  <1>3. UNCHANGED <<setup, cache, paths, uses>>
        /\ calls' = [calls EXCEPT ![c] = IF walk.status = "plan" THEN call ELSE over]
    BY DEF Ask
  <1>4. CASE walk.status = "plan"
    <2>1. << >> \in Seq(Legs(setup))
      BY EmptySeq
    <2>2. walk.entries = Entries(setup, r)
      BY DEF Entries
    <2>3. /\ call \in [at : {"lookup", "compile", "find", "record"}, request : setup.requests,
                       entries : Seq(Mappings(setup)), resolved : Seq(Legs(setup))]
          /\ call.request = r /\ call.entries = Entries(setup, r) /\ call.resolved = << >>
          /\ call.at = IF KeyOf(setup, r) = NoKey THEN "compile" ELSE "lookup"
      <3> HIDE DEF walk
      <3> QED BY <1>2, <2>1, <2>2
    <2>4. Extract(setup, r).status = "plan"
      BY <1>4
    <2> HIDE DEF call, walk
    <2>5. Len(<< >>) = 0 /\ Len(Entries(setup, r)) \in Nat
      BY <1>2
    <2>6. InPlanning(setup, call)
      BY <2>3, <2>4, <2>5 DEF InPlanning
    <2>7. CallInv(setup, call)
      BY <2>6 DEF CallInv
    <2>8. PICK k : k = call
      OBVIOUS
    <2>9. calls' = [calls EXCEPT ![c] = k] /\ CallInv(setup, k)
      BY <1>3, <1>4, <2>7, <2>8
    <2> QED BY <1>3, <2>9, OwnStep
  <1>5. CASE walk.status # "plan"
    <2>1. Afresh(setup, r) = walk
      BY <1>5, AfreshIsReplanned
    <2>2. walk \in Outcomes(setup) /\ walk.entries = << >>
      BY <1>2, <1>5
    <2> HIDE DEF walk
    <2>3. Answers(setup, r, walk)
      BY <2>1, <2>2 DEF Answers
    <2>4. /\ over \in [at : {"put", "answered"}, request : setup.requests, outcome : Outcomes(setup)]
          /\ over.at = "answered" /\ over.request = r /\ over.outcome = walk
      BY <2>2
    <2> HIDE DEF over
    <2>5. CallInv(setup, over)
      BY <2>3, <2>4 DEF Answered, CallInv
    <2>6. PICK k : k = over
      OBVIOUS
    <2>7. calls' = [calls EXCEPT ![c] = k] /\ CallInv(setup, k)
      BY <1>3, <1>5, <2>5, <2>6
    <2> QED BY <1>3, <2>7, OwnStep
  <1> QED BY <1>4, <1>5

\* A call moves on with nothing but its place changed.
LEMMA Moved ==
    ASSUME NEW g, NEW k, InPlanning(g, k), NEW place \in {"compile", "find", "record"},
           place = "compile" => k.resolved = << >>,
           place # "compile" => Compiles(g, k.request.target),
           place = "record" => k.resolved # << >> /\ Last(k.resolved).target # NoNode
    PROVE  CallInv(g, [k EXCEPT !.at = place])
  <1> DEFINE m == [k EXCEPT !.at = place]
  <1>1. k \in [at : {"lookup", "compile", "find", "record"}, request : g.requests,
               entries : Seq(Mappings(g)), resolved : Seq(Legs(g))]
    BY DEF InPlanning
  <1>2. m.at = place /\ m.request = k.request /\ m.entries = k.entries /\ m.resolved = k.resolved
    BY <1>1
  <1>3. m \in [at : {"lookup", "compile", "find", "record"}, request : g.requests,
               entries : Seq(Mappings(g)), resolved : Seq(Legs(g))]
    BY <1>1
  <1> HIDE DEF m
  <1>4. InPlanning(g, m)
    BY <1>2, <1>3 DEF InPlanning
  <1> QED BY <1>4 DEF CallInv, m

\* A miss starts planning.
LEMMA LookupMissStep ==
    ASSUME Inv, NEW c \in Callers, LookupMiss(c)
    PROVE  Inv'
  <1>1. CallInv(setup, calls[c]) /\ calls[c].at = "lookup"
    BY DEF Inv, LookupMiss, At
  <1>2. InPlanning(setup, calls[c])
    BY <1>1, CallAt
  <1>3. calls[c].resolved = << >>
    BY <1>1, <1>2 DEF InPlanning
  <1>4. PICK k : k = [calls[c] EXCEPT !.at = "compile"]
    OBVIOUS
  <1>5. CallInv(setup, [calls[c] EXCEPT !.at = "compile"])
    BY <1>2, <1>3, Moved
  <1>6. calls' = [calls EXCEPT ![c] = k] /\ UNCHANGED <<setup, cache, paths, uses>>
    BY <1>4 DEF LookupMiss
  <1> QED BY <1>4, <1>5, <1>6, OwnStep

\* A policy that does not compile is what planning afresh raises.
LEMMA CompileStep ==
    ASSUME Inv, NEW c \in Callers, Compile(c)
    PROVE  Inv'
  <1>1. CallInv(setup, calls[c]) /\ calls[c].at = "compile" /\ setup \in Setups
    BY DEF Inv, Compile, At
  <1>2. InPlanning(setup, calls[c])
    BY <1>1, CallAt
  <1> DEFINE r == calls[c].request
  <1>3. calls[c].resolved = << >> /\ r \in setup.requests /\ Extract(setup, r).status = "plan"
    BY <1>1, <1>2 DEF InPlanning
  <1>4. UNCHANGED <<setup, cache, paths, uses>>
    BY DEF Compile
  <1>5. CASE Compiles(setup, r.target)
    <2>1. PICK k : k = [calls[c] EXCEPT !.at = "find"]
      OBVIOUS
    <2>2. CallInv(setup, [calls[c] EXCEPT !.at = "find"])
      BY <1>2, <1>5, Moved
    <2>3. calls' = [calls EXCEPT ![c] = k]
      BY <1>5, <2>1 DEF Compile
    <2> QED BY <1>4, <2>1, <2>2, <2>3, OwnStep
  <1>6. CASE ~Compiles(setup, r.target)
    <2>1. PICK k : k = Done(calls[c], Raised("CatalogError"))
      OBVIOUS
    <2>2. "CatalogError" \in Statuses
      BY DEF Statuses
    <2>3. Entries(setup, r) \in Seq(Mappings(setup))
      BY <1>1, <1>3, ExtractFacts
    <2>4. Raised("CatalogError") = Afresh(setup, r)
      BY <1>3, <1>6, <2>3, AfreshCases
    <2>5. Raised("CatalogError") \in Outcomes(setup) /\ Answers(setup, r, Raised("CatalogError"))
      BY <2>2, <2>4, RaisedAnswers
    <2>6. CallInv(setup, Done(calls[c], Raised("CatalogError")))
      BY <1>3, <2>5, DoneFacts
    <2>7. calls' = [calls EXCEPT ![c] = k]
      BY <1>6, <2>1 DEF Compile, Answer, Done
    <2> QED BY <1>4, <2>1, <2>6, <2>7, OwnStep
  <1> QED BY <1>5, <1>6

\* A caller is free again.
LEMMA ReturnStep ==
    ASSUME Inv, NEW c \in Callers, Return(c)
    PROVE  Inv'
  <1>1. CallInv(setup, Idle)
    BY DEF CallInv
  <1>2. calls' = [calls EXCEPT ![c] = Idle] /\ UNCHANGED <<setup, cache, paths, uses>>
    BY DEF Return
  <1> QED BY <1>1, <1>2, OwnStep

\* The cache is emptied while calls are under way.
LEMMA ClearStep ==
    ASSUME Inv, Clear
    PROVE  Inv'
  <1>1. setup' = setup /\ paths' = paths /\ calls' = calls /\ cache' = << >> /\ uses' = << >>
    BY DEF Clear
  <1>2. cache' \in Seq([key : KeysOf(setup), plan : Outcomes(setup)]) /\ uses' \in Seq(KeysOf(setup))
    BY <1>1, EmptySeq
  <1>3. Distinct(uses') /\ CacheInv(setup, cache')
    BY <1>1 DEF Distinct, CacheInv
  <1>4. setup.cacheSize \in Nat \cup {-1}
    BY SetupFacts DEF Inv
  <1>5. Lru(cache', uses', setup.cacheSize)
    BY <1>1, <1>4 DEF Lru, Kept
  <1> QED BY <1>1, <1>2, <1>3, <1>5 DEF Inv

\* What the loop makes of its next entry, given what the path cache holds.
LooksUp(g, k, d, ps, entry, goal, found) ==
    /\ entry = k.entries[Len(k.resolved) + 1]
    /\ goal = Goal(g, SpecFor(k.request.target, entry.node[1]), entry.node, d)
    /\ found = IF goal.node = NoNode THEN Plan(<< >>)
               ELSE IF <<entry.node, goal.node>> \in DOMAIN ps
               THEN Plan(ps[<<entry.node, goal.node>>])
               ELSE EdgePath(g, entry.node, goal.node)

\* The call after that.
After(k, entry, goal, found, place) ==
    IF goal.error # "none" THEN Done(k, Raised(goal.error))
    ELSE IF found.status # "plan" THEN Done(k, found)
    ELSE [k EXCEPT !.resolved = Append(@, Resolved(entry, goal.node, found.entries)),
                   !.at = place]

\* The loop goes on, or ends with what planning afresh raises.
LEMMA ResolveFacts ==
    ASSUME NEW g \in Setups, NEW k, InPlanning(g, k), k.at = "find",
           Len(k.resolved) < Len(k.entries), NEW d \in g.models \cup {NoNode},
           NEW ps, PathsInv(g, ps), NEW entry, NEW goal, NEW found,
           LooksUp(g, k, d, ps, entry, goal, found),
           NEW place \in {"find", "record"}, place = "record" => goal.node # NoNode
    PROVE  CallInv(g, After(k, entry, goal, found, place))
  <1> DEFINE r == k.request
             n == Len(k.resolved) + 1
  <1>1. /\ k \in [at : {"lookup", "compile", "find", "record"}, request : g.requests,
                  entries : Seq(Mappings(g)), resolved : Seq(Legs(g))]
        /\ r \in g.requests /\ k.entries \in Seq(Mappings(g)) /\ k.resolved \in Seq(Legs(g))
        /\ Extract(g, r).status = "plan" /\ k.entries = Entries(g, r) /\ Compiles(g, r.target)
        /\ \A i \in 1..Len(k.resolved) : Follows(g, r, i, k.resolved[i])
    BY DEF InPlanning
  <1>2. n \in 1..Len(k.entries) /\ Len(k.resolved) \in Nat
    BY <1>1
  <1>3. entry \in Mappings(g)
    BY <1>1, <1>2 DEF LooksUp
  <1>4. entry.node \in g.models /\ entry.path \in Seq(STRING)
    BY <1>3 DEF Mappings
  <1> DEFINE spec == SpecFor(r.target, entry.node[1])
  <1>5. /\ spec.form \in SpecForms \ {"unparsable"}
        /\ spec.form = "node" => spec.node \in g.models
        /\ ~Dynamic(r.target) => spec.form # "callable"
    BY <1>1, SpecForFacts
  <1>6. goal = Goal(g, spec, entry.node, d) /\ FixedGoal(g, r, n) = Goal(g, spec, entry.node, NoNode)
    BY <1>1 DEF FixedGoal, LooksUp
  <1> HIDE DEF spec
  <1>7. /\ goal.error \in {"none"} \cup (Statuses \ {"plan"})
        /\ goal.node \in g.models \cup {NoNode}
        /\ ~Dynamic(r.target) => goal = FixedGoal(g, r, n)
    <2> DEFINE x == Goal(g, spec, entry.node, d)
    <2>1. /\ x.error \in {"none"} \cup (Statuses \ {"plan"})
          /\ x.node \in g.models \cup {NoNode}
          /\ spec.form # "callable" => x = Goal(g, spec, entry.node, NoNode)
      BY <1>4, <1>5, GoalFacts
    <2> HIDE DEF x
    <2>2. goal = x
      BY <1>6 DEF x
    <2> QED BY <1>5, <1>6, <2>1, <2>2
  <1>8. goal.node # NoNode => found = EdgePath(g, entry.node, goal.node)
    <2>1. ASSUME <<entry.node, goal.node>> \in DOMAIN ps
          PROVE  Plan(ps[<<entry.node, goal.node>>]) = EdgePath(g, entry.node, goal.node)
      BY <2>1 DEF PathsInv
    <2> QED BY <2>1 DEF LooksUp
  <1>9. Entries(g, r)[n] = entry /\ (goal.node = NoNode => found = Plan(<< >>))
    BY <1>1 DEF LooksUp
  <1>10. ~Dynamic(r.target) /\ goal.error = "none" => found = Fresh(g, r, n)
    BY <1>7, <1>8, <1>9 DEF Fresh
  <1>11. ASSUME goal.error # "none"
         PROVE  CallInv(g, Done(k, Raised(goal.error)))
    <2>1. goal.error \in Statuses /\ goal.error # "plan"
      BY <1>7, <1>11
    <2>2. Raised(goal.error).status = goal.error
      BY DEF Raised
    <2>3. ASSUME ~Dynamic(r.target)
          PROVE  Raised(goal.error) = Afresh(g, r)
      <3>1. Fresh(g, r, n) = Raised(goal.error)
        BY <1>7, <1>11, <2>3 DEF Fresh
      <3>2. Afresh(g, r) = Fresh(g, r, n)
        BY <1>1, <2>1, <2>2, <2>3, <3>1, LoopFails
      <3> QED BY <3>1, <3>2
    <2>4. Raised(goal.error) \in Outcomes(g) /\ Answers(g, r, Raised(goal.error))
      BY <2>1, <2>3, RaisedAnswers
    <2> QED BY <1>1, <2>4, DoneFacts
  <1>12. goal.node # NoNode =>
            \/ \E error \in Statuses \ {"plan"} : found = Raised(error)
            \/ \E edges \in Seq(Hops(g)) : found = Plan(edges)
    <2>1. \A edges, lo, hi, step :
             IsWalk(g, entry.node, goal.node, edges, lo, hi, step) => edges \in Seq(Hops(g))
      BY DEF IsWalk
    <2> SUFFICES ASSUME goal.node # NoNode
                 PROVE  \/ \E error \in Statuses \ {"plan"} : EdgePath(g, entry.node, goal.node) = Raised(error)
                        \/ \E edges \in Seq(Hops(g)) : EdgePath(g, entry.node, goal.node) = Plan(edges)
      BY <1>8
    <2>2. entry.node \in g.models /\ goal.node \in g.models
      BY <1>4, <1>7
    <2> QED BY <2>1, <2>2, EdgePathFacts
  <1>13. ASSUME goal.error = "none", found.status # "plan"
         PROVE  CallInv(g, Done(k, found))
    <2>1. goal.node # NoNode /\ \A edges : found # Plan(edges)
      <3>1. \A edges : Plan(edges).status = "plan"
        BY DEF Plan
      <3> QED BY <1>9, <1>13, <3>1
    <2>2. PICK error \in Statuses \ {"plan"} : found = Raised(error)
      BY <1>12, <2>1
    <2>3. ASSUME ~Dynamic(r.target)
          PROVE  Raised(error) = Afresh(g, r)
      <3>1. Fresh(g, r, n) = found
        BY <1>10, <1>13, <2>3
      <3>2. Afresh(g, r) = Fresh(g, r, n)
        BY <1>1, <1>13, <2>3, <3>1, LoopFails
      <3> QED BY <2>2, <3>1, <3>2
    <2>4. Raised(error) \in Outcomes(g) /\ Answers(g, r, Raised(error))
      BY <2>2, <2>3, RaisedAnswers
    <2> QED BY <1>1, <2>2, <2>4, DoneFacts
  <1>14. ASSUME goal.error = "none", found.status = "plan"
         PROVE  CallInv(g, [k EXCEPT !.resolved = Append(@, Resolved(entry, goal.node, found.entries)),
                                     !.at = place])
    <2> DEFINE e == Resolved(entry, goal.node, found.entries)
               s == Append(k.resolved, e)
               m == [k EXCEPT !.resolved = s, !.at = place]
    <2>1. PICK edges \in Seq(Hops(g)) : found = Plan(edges) /\ (goal.node = NoNode => edges = << >>)
      <3>1. CASE goal.node = NoNode
        <4>1. << >> \in Seq(Hops(g))
          BY EmptySeq
        <4> QED BY <1>9, <3>1, <4>1
      <3>2. CASE goal.node # NoNode
        <4>1. \A error : Raised(error).status = error
          BY DEF Raised
        <4> QED BY <1>12, <1>14, <3>2, <4>1
      <3> QED BY <3>1, <3>2
    <2>2. found.entries = edges
      <3>1. Plan(edges).entries = edges
        BY DEF Plan
      <3> QED BY <2>1, <3>1
    <2>3. /\ e \in Legs(g) /\ e.path = entry.path /\ e.source = entry.node
          /\ e.target = goal.node /\ e.edges = edges
      BY <1>4, <1>7, <2>2 DEF Resolved, Legs
    <2> HIDE DEF e
    <2>4. Leads(g, e) \/ (e.target = NoNode /\ e.edges = << >>)
      BY <1>8, <2>1, <2>3 DEF Leads
    <2>5. Follows(g, r, n, e)
      BY <1>7, <1>9, <1>14, <2>3, <2>4 DEF Follows
    <2>6. s \in Seq(Legs(g)) /\ Len(s) = n /\ s[n] = e /\ s # << >> /\ \A i \in 1..Len(k.resolved) : s[i] = k.resolved[i]
      <3>1. PICK q : q = k.resolved
        OBVIOUS
      <3>2. q \in Seq(Legs(g)) /\ e \in Legs(g)
        BY <1>1, <2>3, <3>1
      <3>3. /\ Append(q, e) \in Seq(Legs(g)) /\ Len(Append(q, e)) = Len(q) + 1
            /\ Append(q, e)[Len(q) + 1] = e /\ \A i \in 1..Len(q) : Append(q, e)[i] = q[i]
        BY <3>2, AppendFacts
      <3>4. Len(Append(q, e)) # 0 /\ Len(<< >>) = 0
        BY <3>2, <3>3
      <3> QED BY <3>1, <3>3, <3>4
    <2>7. \A i \in 1..Len(s) : Follows(g, r, i, s[i])
      BY <1>1, <1>2, <2>5, <2>6
    <2>8. Last(s) = e
      BY <2>6 DEF Last
    <2> HIDE DEF s
    <2>9. /\ m \in [at : {"lookup", "compile", "find", "record"}, request : g.requests,
                    entries : Seq(Mappings(g)), resolved : Seq(Legs(g))]
          /\ m.at = place /\ m.request = r /\ m.entries = k.entries /\ m.resolved = s
      BY <1>1, <2>6
    <2> HIDE DEF m
    <2>10. InPlanning(g, m)
      BY <1>1, <1>2, <2>3, <2>6, <2>7, <2>8, <2>9 DEF InPlanning
    <2> QED BY <2>10 DEF CallInv, m, s, e
  <1> QED BY <1>11, <1>13, <1>14 DEF After

\* A step of the loop.
LEMMA ResolveStep ==
    ASSUME Inv, NEW c \in Callers, NEW d \in setup.models \cup {NoNode}, Resolve(c, d)
    PROVE  Inv'
  <1>1. /\ CallInv(setup, calls[c]) /\ calls[c].at = "find" /\ setup \in Setups
        /\ PathsInv(setup, paths) /\ Len(calls[c].resolved) < Len(calls[c].entries)
        /\ UNCHANGED <<setup, cache, paths, uses>>
    BY DEF Inv, Resolve, At
  <1>2. InPlanning(setup, calls[c])
    BY <1>1, CallAt
  <1>3. PICK entry : entry = calls[c].entries[Len(calls[c].resolved) + 1]
    OBVIOUS
  <1>4. PICK goal : goal = Goal(setup, SpecFor(calls[c].request.target, entry.node[1]), entry.node, d)
    OBVIOUS
  <1> DEFINE known == <<entry.node, goal.node>> \in DOMAIN paths
             place == IF known \/ goal.node = NoNode THEN "find" ELSE "record"
  <1>5. PICK found : found = IF goal.node = NoNode THEN Plan(<< >>)
                             ELSE IF known THEN Plan(paths[<<entry.node, goal.node>>])
                             ELSE EdgePath(setup, entry.node, goal.node)
    OBVIOUS
  <1>6. place \in {"find", "record"} /\ (place = "record" => goal.node # NoNode)
    OBVIOUS
  <1>7. LooksUp(setup, calls[c], d, paths, entry, goal, found)
    BY <1>3, <1>4, <1>5 DEF LooksUp
  <1> DEFINE next == [calls[c] EXCEPT
                         !.resolved = Append(@, Resolved(entry, goal.node, found.entries)),
                         !.at = place]
             k == After(calls[c], entry, goal, found, place)
  <1>8. calls' = [calls EXCEPT ![c] = k]
    <2>1. IF goal.error # "none" THEN Answer(c, Raised(goal.error))
          ELSE IF found.status # "plan" THEN Answer(c, found)
          ELSE calls' = [calls EXCEPT
                   ![c].resolved = Append(@, Resolved(entry, goal.node, found.entries)),
                   ![c].at = place]
      BY <1>3, <1>4, <1>5 DEF Resolve
    <2>2. CASE goal.error # "none"
      BY <2>1, <2>2 DEF Answer, Done, After
    <2>3. CASE goal.error = "none" /\ found.status # "plan"
      BY <2>1, <2>3 DEF Answer, Done, After
    <2>4. CASE goal.error = "none" /\ found.status = "plan"
      <3> HIDE DEF place
      <3>1. calls' = [calls EXCEPT
                   ![c].resolved = Append(@, Resolved(entry, goal.node, found.entries)),
                   ![c].at = place]
        BY <2>1, <2>4
      <3>2. calls' = [calls EXCEPT ![c] = next]
        BY <3>1 DEF Inv
      <3> QED BY <2>4, <3>2 DEF After
    <2> QED BY <2>2, <2>3, <2>4
  <1>9. CallInv(setup, k)
    <2> HIDE DEF place
    <2> QED BY <1>1, <1>2, <1>6, <1>7, ResolveFacts
  <1>10. PICK x : x = k
    OBVIOUS
  <1> HIDE DEF k
  <1> QED BY <1>1, <1>8, <1>9, <1>10, OwnStep

\* Two callers that record the same pair record the same path.
LEMMA RecordStep ==
    ASSUME Inv, NEW c \in Callers, Record(c)
    PROVE  Inv'
  <1>1. /\ CallInv(setup, calls[c]) /\ calls[c].at = "record" /\ setup \in Setups
        /\ PathsInv(setup, paths)
    BY DEF Inv, Record, At
  <1>2. InPlanning(setup, calls[c])
    BY <1>1, CallAt
  <1> DEFINE s == calls[c].resolved
             e == Last(s)
             pair == <<e.source, e.target>>
  <1>3. /\ s \in Seq(Legs(setup)) /\ s # << >> /\ e.target # NoNode
        /\ \A i \in 1..Len(s) : Follows(setup, calls[c].request, i, s[i])
        /\ Compiles(setup, calls[c].request.target)
    BY <1>1, <1>2 DEF InPlanning
  <1>4. e \in Legs(setup) /\ Leads(setup, e)
    <2>1. Len(s) \in 1..Len(s) /\ e = s[Len(s)]
      BY <1>3 DEF Last
    <2> HIDE DEF s, e
    <2>2. Follows(setup, calls[c].request, Len(s), e) /\ e \in Legs(setup)
      BY <1>3, <2>1
    <2> QED BY <1>3, <2>2 DEF Follows
  <1>5. PICK f : f = [p \in DOMAIN paths \cup {pair} |-> IF p = pair THEN e.edges ELSE paths[p]]
    OBVIOUS
  <1>6. paths' = f /\ setup' = setup /\ cache' = cache /\ uses' = uses
        /\ calls' = [calls EXCEPT ![c].at = "find"]
    BY <1>5 DEF Record
  <1> HIDE DEF e
  <1>7. e.source \in setup.models /\ e.target \in setup.models
    BY <1>3, <1>4 DEF Legs
  <1>8. PathsInv(setup, f)
    <2>1. DOMAIN f = DOMAIN paths \cup {pair}
      BY <1>5
    <2>2. ASSUME NEW p \in DOMAIN f
          PROVE  p \in setup.models \X setup.models /\ EdgePath(setup, p[1], p[2]) = Plan(f[p])
      <3>1. CASE p = pair
        <4>1. f[p] = e.edges /\ p[1] = e.source /\ p[2] = e.target
          BY <1>5, <3>1
        <4>2. pair \in setup.models \X setup.models
          BY <1>7
        <4>3. EdgePath(setup, e.source, e.target) = Plan(e.edges)
          BY <1>4 DEF Leads
        <4> HIDE DEF pair
        <4> QED BY <3>1, <4>1, <4>2, <4>3
      <3>2. CASE p # pair
        <4>1. p \in DOMAIN paths /\ f[p] = paths[p]
          BY <1>5, <2>1, <3>2
        <4> QED BY <1>1, <4>1 DEF PathsInv
      <3> QED BY <3>1, <3>2
    <2> QED BY <2>2 DEF PathsInv
  <1>9. PICK k : k = [calls[c] EXCEPT !.at = "find"]
    OBVIOUS
  <1>10. CallInv(setup, k)
    BY <1>2, <1>3, <1>9, Moved
  <1>11. calls' = [calls EXCEPT ![c] = k]
    BY <1>6, <1>9
  <1>12. calls' = [x \in Callers |-> calls'[x]] /\ \A x \in Callers : CallInv(setup, calls'[x])
    BY <1>10, <1>11, OneCall
  <1> QED BY <1>6, <1>8, <1>12 DEF Inv

\* The policy's answer is put into the cache if the call has a key.
LEMMA ApplyStep ==
    ASSUME Inv, NEW c \in Callers, Apply(c)
    PROVE  Inv'
  <1>1. /\ CallInv(setup, calls[c]) /\ calls[c].at = "find" /\ setup \in Setups
        /\ Len(calls[c].resolved) = Len(calls[c].entries)
        /\ UNCHANGED <<setup, cache, paths, uses>>
    BY DEF Inv, Apply, At
  <1>2. InPlanning(setup, calls[c])
    BY <1>1, CallAt
  <1> DEFINE r == calls[c].request
             s == calls[c].resolved
             o == ApplyPolicy(setup, Targeted(s))
             put == [at |-> "put", request |-> r, outcome |-> o]
  <1>3. /\ r \in setup.requests /\ s \in Seq(Legs(setup)) /\ Extract(setup, r).status = "plan"
        /\ Len(s) = Len(Entries(setup, r)) /\ Compiles(setup, r.target)
        /\ \A i \in 1..Len(s) : Follows(setup, r, i, s[i])
    BY <1>1, <1>2 DEF InPlanning
  <1>4. o \in Outcomes(setup)
    BY <1>1, <1>3, PolicyFacts
  <1>5. Answers(setup, r, o)
    <2> HIDE DEF r, s
    <2> QED BY <1>1, <1>3, PolicyAnswers
  <1>6. IF o.status = "plan" /\ KeyOf(setup, r) # NoKey
        THEN calls' = [calls EXCEPT ![c] = put]
        ELSE calls' = [calls EXCEPT ![c] = Done(calls[c], o)]
    BY DEF Apply, Answer, Done
  <1> HIDE DEF o
  <1>7. CallInv(setup, Done(calls[c], o))
    BY <1>3, <1>4, <1>5, DoneFacts
  <1>8. ASSUME KeyOf(setup, r) # NoKey
        PROVE  CallInv(setup, put)
    <2>1. /\ put \in [at : {"put", "answered"}, request : setup.requests, outcome : Outcomes(setup)]
          /\ put.at = "put" /\ put.request = r /\ put.outcome = o
      BY <1>3, <1>4
    <2> HIDE DEF put
    <2>2. Answered(setup, put)
      BY <1>3, <1>5, <1>8, <2>1 DEF Answered
    <2> QED BY <2>2 DEF CallInv
  <1>9. CASE o.status = "plan" /\ KeyOf(setup, r) # NoKey
    <2>1. PICK k : k = put
      OBVIOUS
    <2>2. calls' = [calls EXCEPT ![c] = k] /\ CallInv(setup, k)
      BY <1>6, <1>8, <1>9, <2>1
    <2> QED BY <1>1, <2>2, OwnStep
  <1>10. CASE ~(o.status = "plan" /\ KeyOf(setup, r) # NoKey)
    <2>1. PICK k : k = Done(calls[c], o)
      OBVIOUS
    <2>2. calls' = [calls EXCEPT ![c] = k] /\ CallInv(setup, k)
      BY <1>6, <1>7, <1>10, <2>1
    <2> QED BY <1>1, <2>2, OwnStep
  <1> QED BY <1>9, <1>10

\* A hit answers with a plan of the same key.
LEMMA LookupHitStep ==
    ASSUME Inv, NEW c \in Callers, LookupHit(c)
    PROVE  Inv'
  <1> DEFINE T == [key : KeysOf(setup), plan : Outcomes(setup)]
             r == calls[c].request
             key == KeyOf(setup, r)
  <1>1. /\ CallInv(setup, calls[c]) /\ calls[c].at = "lookup" /\ setup \in Setups
        /\ cache \in Seq(T) /\ uses \in Seq(KeysOf(setup)) /\ Distinct(uses)
        /\ Lru(cache, uses, setup.cacheSize) /\ CacheInv(setup, cache)
        /\ PathsInv(setup, paths)
    BY DEF Inv, LookupHit, At
  <1>2. InPlanning(setup, calls[c])
    BY <1>1, CallAt
  <1>3. r \in setup.requests /\ Extract(setup, r).status = "plan" /\ key # NoKey
    BY <1>1, <1>2 DEF InPlanning
  <1>4. /\ \E i \in Slots(cache, key) : Answer(c, cache[i].plan)
        /\ cache' = CacheGet(cache, key) /\ Used(key)
        /\ setup' = setup /\ paths' = paths
    BY DEF LookupHit
  <1>5. PICK i \in Slots(cache, key) : Answer(c, cache[i].plan)
    BY <1>4
  <1>6. key \in KeysOf(setup)
    BY <1>3 DEF KeysOf
  <1> HIDE DEF key, T
  <1>7. i \in DOMAIN cache /\ cache[i].key = key /\ cache[i] \in T
    BY <1>1, <1>5 DEF Slots
  <1>8. cache[i].plan \in Outcomes(setup) /\ Answers(setup, r, cache[i].plan)
    <2>1. cache[i].plan \in Outcomes(setup)
      BY <1>7 DEF T
    <2> QED BY <1>1, <1>3, <1>7, <2>1 DEF CacheInv, key
  <1>9. CallInv(setup, Done(calls[c], cache[i].plan))
    BY <1>3, <1>8, DoneFacts
  <1>10. PICK k : k = Done(calls[c], cache[i].plan)
    OBVIOUS
  <1>11. calls' = [calls EXCEPT ![c] = k]
    BY <1>5, <1>10 DEF Answer, Done
  <1>12. calls' = [x \in Callers |-> calls'[x]] /\ \A x \in Callers : CallInv(setup, calls'[x])
    BY <1>9, <1>10, <1>11, OneCall
  <1>13. /\ uses' \in Seq(KeysOf(setup)) /\ Distinct(uses')
         /\ AddedTo(uses, uses', key) \/ \E j \in 1..Len(uses) : MovedTo(uses, uses', key, j)
    <2>1. PICK K, x : K = KeysOf(setup) /\ x = key
      OBVIOUS
    <2>2. uses \in Seq(K) /\ x \in K /\ Used(x)
      BY <1>1, <1>4, <1>6, <2>1
    <2>3. /\ uses' \in Seq(K) /\ Distinct(uses')
          /\ AddedTo(uses, uses', x) \/ \E j \in 1..Len(uses) : MovedTo(uses, uses', x, j)
      BY <1>1, <2>2, UsedFacts
    <2> QED BY <2>1, <2>3
  <1>14. setup.cacheSize \in Nat \cup {-1}
    BY <1>1, SetupFacts
  <1> DEFINE d == CacheGet(cache, key)
  <1>15. /\ d \in Seq(T) /\ Lru(d, uses', setup.cacheSize)
         /\ \A n \in DOMAIN d : \E l \in DOMAIN cache : d[n] = cache[l]
    <2>1. Slots(cache, key) # {}
      BY <1>5
    <2>2. PICK v, size : v = uses' /\ size = setup.cacheSize
      OBVIOUS
    <2>3. /\ v \in Seq(KeysOf(setup)) /\ size \in Nat \cup {-1} /\ Lru(cache, uses, size)
          /\ AddedTo(uses, v, key) \/ \E j \in 1..Len(uses) : MovedTo(uses, v, key, j)
      BY <1>1, <1>13, <1>14, <2>2
    <2>4. /\ d \in Seq(T) /\ Lru(d, v, size)
          /\ \A n \in DOMAIN d : \E l \in DOMAIN cache : d[n] = cache[l]
      BY <1>1, <2>1, <2>3, GetOrder
    <2> QED BY <2>2, <2>4
  <1>16. CacheInv(setup, d)
    <2> HIDE DEF d
    <2> QED BY <1>1, <1>15 DEF CacheInv
  <1>17. cache' = d
    BY <1>4
  <1> HIDE DEF d
  <1> QED BY <1>1, <1>4, <1>12, <1>13, <1>15, <1>16, <1>17 DEF Inv, T

\* A plan that is stored answers every request of its key.
LEMMA PutStep ==
    ASSUME Inv, NEW c \in Callers, Put(c)
    PROVE  Inv'
  <1> DEFINE T == [key : KeysOf(setup), plan : Outcomes(setup)]
             r == calls[c].request
             o == calls[c].outcome
             key == KeyOf(setup, r)
             size == setup.cacheSize
             d == CachePut(cache, key, o, size)
  <1>1. /\ CallInv(setup, calls[c]) /\ calls[c].at = "put" /\ setup \in Setups
        /\ cache \in Seq(T) /\ uses \in Seq(KeysOf(setup)) /\ Distinct(uses)
        /\ Lru(cache, uses, size) /\ CacheInv(setup, cache)
        /\ PathsInv(setup, paths)
    BY DEF Inv, Put, At
  <1>2. Answered(setup, calls[c])
    BY <1>1, CallAt
  <1>3. /\ r \in setup.requests /\ o \in Outcomes(setup) /\ Answers(setup, r, o)
        /\ Extract(setup, r).status = "plan" /\ key # NoKey
    BY <1>1, <1>2 DEF Answered
  <1>4. /\ cache' = d /\ IF size = 0 THEN uses' = uses ELSE Used(key)
        /\ Answer(c, o) /\ setup' = setup /\ paths' = paths
    BY DEF Put
  <1>5. CallInv(setup, Done(calls[c], o))
    BY <1>3, DoneFacts
  <1>6. PICK k : k = Done(calls[c], o)
    OBVIOUS
  <1>7. calls' = [calls EXCEPT ![c] = k]
    BY <1>4, <1>6 DEF Answer, Done
  <1>8. calls' = [x \in Callers |-> calls'[x]] /\ \A x \in Callers : CallInv(setup, calls'[x])
    BY <1>5, <1>6, <1>7, OneCall
  <1>9. size \in Nat \cup {-1}
    BY <1>1, SetupFacts
  <1>10. key \in KeysOf(setup)
    BY <1>3 DEF KeysOf
  <1>11. CASE size = 0
    <2>1. d = cache
      BY <1>11 DEF CachePut
    <2> HIDE DEF d
    <2>2. cache' = cache /\ uses' = uses
      BY <1>4, <1>11, <2>1
    <2> QED BY <1>1, <1>4, <1>8, <2>2 DEF Inv, T, size
  <1>12. CASE size # 0
    <2> DEFINE e == [key |-> key, plan |-> o]
    <2>1. e \in T
      BY <1>3, <1>10
    <2> HIDE DEF key, T, r, o, size
    <2>2. /\ uses' \in Seq(KeysOf(setup)) /\ Distinct(uses')
          /\ AddedTo(uses, uses', key) \/ \E j \in 1..Len(uses) : MovedTo(uses, uses', key, j)
      <3>1. PICK K, x : K = KeysOf(setup) /\ x = key
        OBVIOUS
      <3>2. uses \in Seq(K) /\ x \in K /\ Used(x)
        BY <1>1, <1>4, <1>10, <1>12, <3>1
      <3>3. /\ uses' \in Seq(K) /\ Distinct(uses')
            /\ AddedTo(uses, uses', x) \/ \E j \in 1..Len(uses) : MovedTo(uses, uses', x, j)
        BY <1>1, <3>2, UsedFacts
      <3> QED BY <3>1, <3>3
    <2>3. /\ d \in Seq(T) /\ Lru(d, uses', size)
          /\ \A n \in DOMAIN d : d[n] = e \/ \E l \in DOMAIN cache : d[n] = cache[l]
      <3>1. PICK v : v = uses'
        OBVIOUS
      <3>2. /\ v \in Seq(KeysOf(setup))
            /\ AddedTo(uses, v, key) \/ \E j \in 1..Len(uses) : MovedTo(uses, v, key, j)
        BY <2>2, <3>1
      <3>3. /\ d \in Seq(T) /\ Lru(d, v, size)
            /\ \A n \in DOMAIN d : d[n] = e \/ \E l \in DOMAIN cache : d[n] = cache[l]
        BY <1>1, <1>9, <1>12, <2>1, <3>2, PutOrder
      <3> QED BY <3>1, <3>3
    <2>4. e.key = key /\ e.plan = o
      OBVIOUS
    <2> HIDE DEF d, e
    <2>5. ASSUME NEW n \in DOMAIN d, NEW q \in setup.requests,
                 KeyOf(setup, q) = d[n].key, KeyOf(setup, q) # NoKey,
                 Extract(setup, q).status = "plan"
          PROVE  Answers(setup, q, d[n].plan)
      <3>1. CASE d[n] = e
        <4>1. KeyOf(setup, r) = KeyOf(setup, q) /\ KeyOf(setup, r) # NoKey
          BY <2>4, <2>5, <3>1 DEF key
        <4>2. Answers(setup, q, o)
          BY <1>3, <2>5, <4>1, AnswersTransfer
        <4> QED BY <2>4, <3>1, <4>2
      <3>2. CASE \E l \in DOMAIN cache : d[n] = cache[l]
        BY <1>1, <2>5, <3>2 DEF CacheInv
      <3> QED BY <2>3, <3>1, <3>2
    <2>6. CacheInv(setup, d)
      BY <2>5 DEF CacheInv
    <2> QED BY <1>1, <1>4, <1>8, <2>2, <2>3, <2>6 DEF Inv, T, size
  <1> QED BY <1>11, <1>12

\* Every step.
LEMMA NextInv ==
    ASSUME Inv, [Next]_vars
    PROVE  Inv'
  <1>1. CASE UNCHANGED vars
    BY <1>1 DEF Inv, vars
  <1>2. ASSUME NEW c \in Callers, NEW r \in setup.requests, Ask(c, r)
        PROVE  Inv'
    BY <1>2, AskStep
  <1>3. ASSUME NEW c \in Callers, LookupHit(c)
        PROVE  Inv'
    BY <1>3, LookupHitStep
  <1>4. ASSUME NEW c \in Callers, LookupMiss(c)
        PROVE  Inv'
    BY <1>4, LookupMissStep
  <1>5. ASSUME NEW c \in Callers, Compile(c)
        PROVE  Inv'
    BY <1>5, CompileStep
  <1>6. ASSUME NEW c \in Callers, NEW d \in setup.models \cup {NoNode}, Resolve(c, d)
        PROVE  Inv'
    BY <1>6, ResolveStep
  <1>7. ASSUME NEW c \in Callers, Record(c)
        PROVE  Inv'
    BY <1>7, RecordStep
  <1>8. ASSUME NEW c \in Callers, Apply(c)
        PROVE  Inv'
    BY <1>8, ApplyStep
  <1>9. ASSUME NEW c \in Callers, Put(c)
        PROVE  Inv'
    BY <1>9, PutStep
  <1>10. ASSUME NEW c \in Callers, Return(c)
         PROVE  Inv'
    BY <1>10, ReturnStep
  <1>11. CASE Clear
    BY <1>11, ClearStep
  <1> QED BY <1>1, <1>2, <1>3, <1>4, <1>5, <1>6, <1>7, <1>8, <1>9, <1>10, <1>11 DEF Next

\* The invariant holds whatever the callers do.
LEMMA SpecInv == Spec => []Inv
  <1>1. Init => Inv
    BY InitInv
  <1>2. Inv /\ [Next]_vars => Inv'
    BY NextInv
  <1> QED BY <1>1, <1>2, PTL DEF Spec

-----------------------------------------------------------------------------
(* What the invariant says of answers. *)

\* Edges that lead to the target are a walk.
LEMMA LeadsWalks ==
    ASSUME NEW g \in Setups, NEW e \in Legs(g), Leads(g, e)
    PROVE  /\ e.source \in g.models /\ e.target \in g.models /\ e.edges \in Seq(Hops(g))
           /\ \E lo, hi, step : IsWalk(g, e.source, e.target, e.edges, lo, hi, step)
  <1>1. e.source \in g.models /\ e.target \in g.models /\ e.edges \in Seq(Hops(g))
    BY DEF Legs, Leads
  <1>2. EdgePath(g, e.source, e.target) = Plan(e.edges)
    BY DEF Leads
  <1>3. \A error \in Statuses \ {"plan"} : Plan(e.edges) # Raised(error)
    <2>1. Plan(e.edges).status = "plan" /\ \A error : Raised(error).status = error
      BY DEF Plan, Raised
    <2> QED BY <2>1
  <1>4. PICK edges, lo, hi, step : /\ EdgePath(g, e.source, e.target) = Plan(edges)
                                   /\ IsWalk(g, e.source, e.target, edges, lo, hi, step)
    BY <1>1, <1>2, <1>3, EdgePathFacts
  <1>5. edges = e.edges
    <2>1. Plan(edges).entries = edges /\ Plan(e.edges).entries = e.edges
      BY DEF Plan
    <2> QED BY <1>2, <1>4, <2>1
  <1> QED BY <1>1, <1>4, <1>5

\* What it takes to be kept, and that a walk is never missing.
LEMMA VerdictFacts ==
    ASSUME NEW g \in Setups, NEW e \in Legs(g), Leads(g, e)
    PROVE  /\ Verdict(g, e) = "keep" => /\ Allows(g.direction, e.source, e.target)
                                        /\ g.depthLimit >= 0 => Len(e.edges) <= g.depthLimit
           /\ Verdict(g, e) \in {g.onDirection, g.onDepth, "keep"}
  <1>1. /\ e.source \in g.models /\ e.target \in g.models /\ e.edges \in Seq(Hops(g))
        /\ \E lo, hi, step : IsWalk(g, e.source, e.target, e.edges, lo, hi, step)
    BY LeadsWalks
  <1>2. PICK lo, hi, step : IsWalk(g, e.source, e.target, e.edges, lo, hi, step)
    BY <1>1
  <1>3. (\A k \in DOMAIN e.edges : e.edges[k] \in g.executable) /\ (e.source # e.target => e.edges # << >>)
    <2>1. Fits(g, e.source, e.target, e.edges)
      BY <1>1, <1>2, WalkFits
    <2> QED BY <2>1 DEF Fits
  <1>4. Range(e.edges) \subseteq g.executable
    BY <1>3 DEF Range
  <1>5. Verdict(g, e) = IF ~Allows(g.direction, e.source, e.target) THEN g.onDirection
                        ELSE IF g.depthLimit >= 0 /\ Len(e.edges) > g.depthLimit THEN g.onDepth
                        ELSE "keep"
    BY <1>3, <1>4 DEF Verdict
  <1>6. /\ g.onDirection \in {"raise", "skip"} /\ g.onDepth \in {"raise", "skip"}
        /\ g.depthLimit \in Int /\ Len(e.edges) \in Nat
    BY <1>1, SetupFacts
  <1>7. Verdict(g, e) = "keep" => Allows(g.direction, e.source, e.target)
    BY <1>5, <1>6
  <1>8. Verdict(g, e) = "keep" => ~(g.depthLimit >= 0 /\ Len(e.edges) > g.depthLimit)
    BY <1>5, <1>6
  <1>9. Verdict(g, e) \in {g.onDirection, g.onDepth, "keep"}
    BY <1>5
  <1> QED BY <1>6, <1>7, <1>8, <1>9

\* A set of places has a first one.
LEMMA MinFacts ==
    ASSUME NEW N \in Nat, NEW K \in SUBSET (1..N), K # {}
    PROVE  \E i \in K : \A j \in K : i <= j
  <1> DEFINE M == {(N + 1) - i : i \in K}
  <1>1. M \in SUBSET (1..N) /\ M # {}
    <2>1. \A i \in K : (N + 1) - i \in 1..N
      OBVIOUS
    <2>2. PICK i \in K : TRUE
      OBVIOUS
    <2>3. (N + 1) - i \in M
      OBVIOUS
    <2> QED BY <2>1, <2>3
  <1>2. Max(M) \in M /\ \A x \in M : Max(M) >= x
    <2> HIDE DEF M
    <2> QED BY <1>1, MaxFacts
  <1>3. PICK i \in K : Max(M) = (N + 1) - i
    BY <1>2
  <1>4. ASSUME NEW j \in K
        PROVE  i <= j
    <2>1. (N + 1) - j \in M
      OBVIOUS
    <2>2. (N + 1) - i >= (N + 1) - j
      BY <1>2, <1>3, <2>1
    <2> QED BY <2>2
  <1> QED BY <1>4

\* A plan that planning afresh finds has a kept entry for every target that was found.
LEMMA AfreshKeeps ==
    ASSUME NEW g \in Setups, NEW r \in g.requests, Afresh(g, r).status = "plan",
           ~Dynamic(r.target), g.onDirection = "raise", g.onDepth = "raise",
           NEW j \in DOMAIN Entries(g, r), FixedGoal(g, r, j).node # NoNode
    PROVE  /\ Extract(g, r).status = "plan"
           /\ \E i \in DOMAIN Afresh(g, r).entries : Afresh(g, r).entries[i].path = Entries(g, r)[j].path
  <1> DEFINE L == Len(Entries(g, r))
             leg(i) == Resolved(Entries(g, r)[i], FixedGoal(g, r, i).node, Fresh(g, r, i).entries)
             f == [i \in 1..L |-> leg(i)]
             t == Targeted(f)
             T == {i \in DOMAIN f : f[i].target # NoNode}
             K == {i \in DOMAIN t : Verdict(g, t[i]) = "keep"}
  <1>1. Extract(g, r).status = "plan"
    BY AfreshIsReplanned
  <1>2. Entries(g, r) \in Seq(Mappings(g)) /\ L \in Nat /\ j \in 1..L
    <2>1. Entries(g, r) \in Seq(Mappings(g))
      BY ExtractFacts
    <2> QED BY <2>1
  <1>3. Compiles(g, r.target)
    <2>1. Raised("CatalogError").status = "CatalogError"
      BY DEF Raised
    <2> QED BY <1>1, <1>2, <2>1, AfreshCases
  <1>4. \A i \in 1..L : Fresh(g, r, i).status = "plan"
    <2> SUFFICES ASSUME \E i \in 1..L : Fresh(g, r, i).status # "plan"
                 PROVE  FALSE
      OBVIOUS
    <2> DEFINE F == {i \in 1..L : Fresh(g, r, i).status # "plan"}
    <2>1. PICK i \in F : \A k \in F : i <= k
      <3>1. F \in SUBSET (1..L) /\ F # {}
        OBVIOUS
      <3> HIDE DEF F, L
      <3> QED BY <1>2, <3>1, MinFacts
    <2>2. i \in 1..L /\ Fresh(g, r, i).status # "plan"
      OBVIOUS
    <2>3. \A k \in 1..(i - 1) : Fresh(g, r, k).status = "plan"
      <3> SUFFICES ASSUME NEW k \in 1..(i - 1), Fresh(g, r, k).status # "plan"
                   PROVE  FALSE
        OBVIOUS
      <3>1. k \in F /\ ~(i <= k)
        BY <1>2, <2>2
      <3> QED BY <2>1, <3>1
    <2>4. Afresh(g, r) = Fresh(g, r, i)
      BY <1>1, <1>2, <1>3, <2>2, <2>3, AfreshCases
    <2> QED BY <2>2, <2>4
  <1>5. Afresh(g, r) = ApplyPolicy(g, t)
    BY <1>1, <1>2, <1>3, <1>4, AfreshCases
  <1>6. ASSUME NEW i \in 1..L
        PROVE  /\ leg(i) \in Legs(g) /\ leg(i).path = Entries(g, r)[i].path
               /\ leg(i).target = FixedGoal(g, r, i).node
               /\ FixedGoal(g, r, i).node # NoNode => Leads(g, leg(i))
    <2> DEFINE entry == Entries(g, r)[i]
               goal == FixedGoal(g, r, i)
               spec == SpecFor(r.target, entry.node[1])
    <2>1. entry \in Mappings(g)
      BY <1>2
    <2>2. entry.node \in g.models /\ entry.path \in Seq(STRING)
      BY <2>1 DEF Mappings
    <2>3. /\ spec.form \in SpecForms \ {"unparsable"}
          /\ spec.form = "node" => spec.node \in g.models
      BY <1>3, SpecForFacts
    <2>4. goal = Goal(g, spec, entry.node, NoNode)
      BY DEF FixedGoal
    <2> HIDE DEF spec, entry, goal
    <2>5. goal.node \in g.models \cup {NoNode}
      BY <2>2, <2>3, <2>4, GoalFacts
    <2>6. Fresh(g, r, i) = IF goal.error # "none" THEN Raised(goal.error)
                           ELSE IF goal.node = NoNode THEN Plan(<< >>)
                           ELSE EdgePath(g, entry.node, goal.node)
      BY DEF Fresh, goal, entry
    <2>7. goal.error \in {"none"} \cup (Statuses \ {"plan"})
      BY <2>2, <2>3, <2>4, GoalFacts
    <2>8. goal.error = "none"
      <3>1. Raised(goal.error).status = goal.error
        BY DEF Raised
      <3> QED BY <1>4, <2>6, <2>7, <3>1
    <2>9. PICK edges \in Seq(Hops(g)) : Fresh(g, r, i) = Plan(edges)
      <3>1. CASE goal.node = NoNode
        <4>1. << >> \in Seq(Hops(g))
          BY EmptySeq
        <4> QED BY <2>6, <2>8, <3>1, <4>1
      <3>2. CASE goal.node # NoNode
        <4>1. \A es, lo, hi, step :
                 IsWalk(g, entry.node, goal.node, es, lo, hi, step) => es \in Seq(Hops(g))
          BY DEF IsWalk
        <4>2. \A error \in Statuses \ {"plan"} : Fresh(g, r, i) # Raised(error)
          <5>1. \A error : Raised(error).status = error
            BY DEF Raised
          <5> QED BY <1>4, <5>1
        <4>3. goal.node \in g.models /\ Fresh(g, r, i) = EdgePath(g, entry.node, goal.node)
          BY <2>5, <2>6, <2>8, <3>2
        <4> QED BY <2>2, <4>1, <4>2, <4>3, EdgePathFacts
      <3> QED BY <3>1, <3>2
    <2>10. Fresh(g, r, i).entries = edges
      <3>1. Plan(edges).entries = edges
        BY DEF Plan
      <3> QED BY <2>9, <3>1
    <2>11. leg(i) = [path |-> entry.path, source |-> entry.node, target |-> goal.node, edges |-> edges]
      BY <2>10 DEF Resolved, entry, goal
    <2>12. /\ leg(i) \in Legs(g) /\ leg(i).path = entry.path /\ leg(i).target = goal.node
           /\ leg(i).source = entry.node /\ leg(i).edges = edges
      <3> HIDE DEF leg
      <3> QED BY <2>2, <2>5, <2>11 DEF Legs
    <2> HIDE DEF leg
    <2>13. goal.node # NoNode => Leads(g, leg(i))
      BY <2>6, <2>8, <2>9, <2>12 DEF Leads
    <2> QED BY <2>12, <2>13 DEF entry, goal
  <1> HIDE DEF leg, L
  <1>7. f \in Seq(Legs(g)) /\ DOMAIN f = 1..L
    <2>1. f \in [1..L -> Legs(g)]
      BY <1>6
    <2> QED BY <1>2, <2>1
  <1>8. /\ t \in Seq(Legs(g)) /\ \A k \in T : \E i \in DOMAIN t : t[i] = f[k]
    <2>1. t = Subsequence(f, T) /\ T \in SUBSET DOMAIN f
      BY DEF Targeted
    <2> HIDE DEF t, T, f
    <2> QED BY <1>7, <2>1, SubsequenceFacts
  <1>9. f[j] = leg(j) /\ j \in T
    BY <1>2, <1>6, <1>7
  <1> HIDE DEF f, T
  <1>10. PICK i \in DOMAIN t : t[i] = leg(j)
    BY <1>8, <1>9
  <1>11. Verdict(g, leg(j)) \in {"raise", "keep"}
    <2>1. leg(j) \in Legs(g) /\ Leads(g, leg(j))
      BY <1>2, <1>6
    <2> QED BY <2>1, VerdictFacts
  <1> HIDE DEF t
  <1>12. /\ ~\E k \in DOMAIN t : Verdict(g, t[k]) = "raise"
         /\ ApplyPolicy(g, t) = Plan(Subsequence(t, K))
    <2>1. Raised("CatalogError").status = "CatalogError"
      BY DEF Raised
    <2> QED BY <1>5, <2>1 DEF ApplyPolicy
  <1>13. i \in K
    BY <1>10, <1>11, <1>12
  <1>14. \E k \in DOMAIN Subsequence(t, K) : Subsequence(t, K)[k] = t[i]
    <2>1. K \in SUBSET DOMAIN t
      OBVIOUS
    <2> HIDE DEF K
    <2> QED BY <1>8, <1>13, <2>1, SubsequenceFacts
  <1>15. Afresh(g, r).entries = Subsequence(t, K)
    <2> HIDE DEF K
    <2>1. Plan(Subsequence(t, K)).entries = Subsequence(t, K)
      BY DEF Plan
    <2> QED BY <1>5, <1>12, <2>1
  <1>16. t[i].path = Entries(g, r)[j].path
    BY <1>2, <1>6, <1>10
  <1> HIDE DEF K
  <1> QED BY <1>1, <1>14, <1>15, <1>16

\* What is known of a call that has been answered.
LEMMA AnsweredFacts ==
    ASSUME Inv, NEW c \in Callers, At(c, "answered")
    PROVE  /\ setup \in Setups /\ calls[c].request \in setup.requests
           /\ calls[c].outcome \in Outcomes(setup)
           /\ Answers(setup, calls[c].request, calls[c].outcome)
  <1>1. setup \in Setups /\ CallInv(setup, calls[c]) /\ calls[c].at = "answered"
    BY DEF Inv, At
  <1>2. Answered(setup, calls[c])
    BY <1>1, CallAt
  <1> QED BY <1>1, <1>2 DEF Answered

\* PlanCache, whatever the threads that share it do: it keeps the most recently used
\* plans, as many as it may, in the order of their last use.
THEOREM CacheLeastRecentlyUsed == Spec => []CacheIsLeastRecentlyUsed
  <1>1. Inv => CacheIsLeastRecentlyUsed
    <2> SUFFICES ASSUME Inv PROVE CacheIsLeastRecentlyUsed
      OBVIOUS
    <2>1. /\ cache \in Seq([key : KeysOf(setup), plan : Outcomes(setup)])
          /\ uses \in Seq(KeysOf(setup)) /\ Lru(cache, uses, setup.cacheSize) /\ setup \in Setups
      BY DEF Inv
    <2>2. setup.cacheSize \in Nat \cup {-1}
      BY <2>1, SetupFacts
    <2> QED BY <2>1, <2>2, LruIsProperty
  <1> QED BY <1>1, SpecInv, PTL

\* ExecutionCoordinator.plan answers as it would without its caches, errors included,
\* unless the target policy holds a resolver of the caller's own.
THEOREM PlansCurrent == Spec => []PlansAreCurrent
  <1>1. Inv => PlansAreCurrent
    BY AnsweredFacts DEF PlansAreCurrent, Answers
  <1> QED BY <1>1, SpecInv, PTL

\* A kept entry of an answer, as PlansFit wants it.
LEMMA EntryFits ==
    ASSUME NEW g \in Setups, NEW e \in Legs(g), Leads(g, e), Verdict(g, e) = "keep"
    PROVE  /\ Fits(g, e.source, e.target, e.edges)
           /\ g.depthLimit >= 0 => Len(e.edges) <= g.depthLimit
           /\ g.direction = "forward" => e.source[2] < e.target[2]
           /\ g.direction = "backward" => e.source[2] > e.target[2]
  <1>1. /\ e.source \in g.models /\ e.target \in g.models
        /\ \E lo, hi, step : IsWalk(g, e.source, e.target, e.edges, lo, hi, step)
    BY LeadsWalks
  <1>2. Fits(g, e.source, e.target, e.edges)
    BY <1>1, WalkFits
  <1>3. /\ Allows(g.direction, e.source, e.target)
        /\ g.depthLimit >= 0 => Len(e.edges) <= g.depthLimit
    BY VerdictFacts
  <1>4. /\ g.direction = "forward" => e.source[2] < e.target[2]
        /\ g.direction = "backward" => e.source[2] > e.target[2]
    BY <1>3 DEF Allows
  <1> QED BY <1>2, <1>3, <1>4

\* An entry of an answered plan starts where the walked document says, and its edges
\* are the executable ones along neighbouring versions, within the path policy.
THEOREM PlansAlwaysFit == Spec => []PlansFit
  <1>1. Inv => PlansFit
    <2> SUFFICES ASSUME Inv, NEW c \in Callers, At(c, "answered"),
                        NEW i \in DOMAIN calls[c].outcome.entries
                 PROVE  LET e == calls[c].outcome.entries[i]
                            stops == [k \in 1..(Len(e.edges) + 1) |->
                                        IF k = 1 THEN e.source ELSE e.edges[k - 1].target]
                        IN  /\ \E j \in DOMAIN Entries(setup, calls[c].request) :
                                  LET x == Entries(setup, calls[c].request)[j]
                                  IN  x.path = e.path /\ x.node = e.source
                            /\ \A k \in DOMAIN e.edges : /\ e.edges[k] \in setup.executable
                                                         /\ e.edges[k].source = stops[k]
                            /\ Last(stops) = e.target
                            /\ Len(stops) = Cardinality({e.source, e.target}
                                                          \cup Between(setup, e.source, e.target))
                            /\ Between(setup, e.source, e.target) \subseteq Range(stops)
                            /\ setup.depthLimit >= 0 => Len(e.edges) <= setup.depthLimit
                            /\ setup.direction = "forward" => e.source[2] < e.target[2]
                            /\ setup.direction = "backward" => e.source[2] > e.target[2]
      BY DEF PlansFit
    <2> DEFINE e == calls[c].outcome.entries[i]
    <2>1. /\ setup \in Setups /\ calls[c].outcome \in Outcomes(setup)
          /\ Answers(setup, calls[c].request, calls[c].outcome)
      BY AnsweredFacts
    <2>2. e \in Legs(setup)
      <3>1. calls[c].outcome.entries \in Seq(Legs(setup))
        BY <2>1 DEF Outcomes
      <3> QED BY <3>1
    <2>3. Walked(setup, calls[c].request, e) /\ Leads(setup, e) /\ Verdict(setup, e) = "keep"
      BY <2>1 DEF Answers
    <2> HIDE DEF e
    <2>4. /\ Fits(setup, e.source, e.target, e.edges)
          /\ setup.depthLimit >= 0 => Len(e.edges) <= setup.depthLimit
          /\ setup.direction = "forward" => e.source[2] < e.target[2]
          /\ setup.direction = "backward" => e.source[2] > e.target[2]
      BY <2>1, <2>2, <2>3, EntryFits
    <2> DEFINE stops == [k \in 1..(Len(e.edges) + 1) |->
                            IF k = 1 THEN e.source ELSE e.edges[k - 1].target]
    <2>5. stops = Stops(e.source, e.edges)
      BY DEF Stops
    <2> HIDE DEF stops
    <2>6. /\ \A k \in DOMAIN e.edges : e.edges[k] \in setup.executable /\ e.edges[k].source = stops[k]
          /\ Last(stops) = e.target
          /\ Len(stops) = Cardinality({e.source, e.target} \cup Between(setup, e.source, e.target))
          /\ Between(setup, e.source, e.target) \subseteq Range(stops)
      BY <2>4, <2>5 DEF Fits
    <2>7. \E j \in DOMAIN Entries(setup, calls[c].request) :
             /\ Entries(setup, calls[c].request)[j].path = e.path
             /\ Entries(setup, calls[c].request)[j].node = e.source
      BY <2>3 DEF Walked
    <2> QED BY <2>4, <2>6, <2>7 DEF e, stops
  <1> QED BY <1>1, SpecInv, PTL

\* A plan that is answered without a source model covers every registered mapping of
\* the payload, however deep, that its target policy sends somewhere, on a runner that
\* raises on violations.
THEOREM NothingIsLeftBehind == Spec => []NothingLeftBehind
  <1>1. Inv => NothingLeftBehind
    <2> SUFFICES ASSUME Inv, NEW c \in Callers, At(c, "answered"),
                        calls[c].outcome.status = "plan", calls[c].request.source = "none",
                        ~Dynamic(calls[c].request.target),
                        setup.onDirection = "raise", setup.onDepth = "raise",
                        NEW i \in DOMAIN calls[c].request.payload,
                        calls[c].request.payload[i].node \in setup.models,
                        Goal(setup, SpecFor(calls[c].request.target,
                                            calls[c].request.payload[i].node[1]),
                             calls[c].request.payload[i].node, NoNode).node # NoNode
                 PROVE  \E k \in DOMAIN calls[c].outcome.entries :
                           calls[c].outcome.entries[k].path = calls[c].request.payload[i].path
      BY DEF NothingLeftBehind
    <2> DEFINE r == calls[c].request
               p == r.payload[i]
               found == {k \in DOMAIN r.payload : Matches(setup, r.payload[k])}
    <2>1. /\ setup \in Setups /\ r \in setup.requests
          /\ calls[c].outcome = Afresh(setup, r)
      BY AnsweredFacts DEF Answers
    <2>2. r.payload \in Documents
      BY <2>1, RequestFacts
    <2>3. Extract(setup, r) = WalkContainerless(setup, r.payload, r.maxDepth)
      BY DEF Extract
    <2>4. Extract(setup, r).status = "plan"
      BY <2>1, AfreshIsReplanned
    <2>5. Entries(setup, r) = Subsequence(r.payload, found)
      <3>1. \/ Extract(setup, r) = Raised("MaxDepthExceededError")
            \/ Extract(setup, r) = Plan(Subsequence(r.payload, found))
        BY <2>3 DEF WalkContainerless
      <3> HIDE DEF found
      <3>2. Raised("MaxDepthExceededError").status = "MaxDepthExceededError"
        BY DEF Raised
      <3>3. Plan(Subsequence(r.payload, found)).entries = Subsequence(r.payload, found)
        BY DEF Plan
      <3> QED BY <2>4, <3>1, <3>2, <3>3 DEF Entries
    <2>6. PICK j \in DOMAIN Entries(setup, r) : Entries(setup, r)[j] = p
      <3>1. i \in found /\ found \in SUBSET DOMAIN r.payload
        BY DEF Matches
      <3>2. PICK doc, K : doc = r.payload /\ K = found
        OBVIOUS
      <3> HIDE DEF found
      <3>3. doc \in Seq([path : Seq(STRING), node : STRING \X Nat]) /\ K \in SUBSET DOMAIN doc /\ i \in K
        BY <2>2, <3>1, <3>2 DEF Documents
      <3>4. \E k \in DOMAIN Subsequence(doc, K) : Subsequence(doc, K)[k] = doc[i]
        BY <3>3, SubsequenceFacts
      <3> QED BY <2>5, <3>2, <3>4
    <2>7. FixedGoal(setup, r, j).node # NoNode
      BY <2>6 DEF FixedGoal
    <2>8. \E k \in DOMAIN Afresh(setup, r).entries :
             Afresh(setup, r).entries[k].path = Entries(setup, r)[j].path
      <3>1. Afresh(setup, r).status = "plan"
        BY <2>1
      <3> HIDE DEF r
      <3> QED BY <2>1, <2>7, <3>1, AfreshKeeps DEF r
    <2> QED BY <2>1, <2>6, <2>8
  <1> QED BY <1>1, SpecInv, PTL
=============================================================================
