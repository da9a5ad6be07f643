---------------------------- MODULE MemoryLemmas ----------------------------
(***************************************************************************)
(* Lemmas on the memory of the two sides of a reliable channel, for every  *)
(* size and number of messages: memory_usage_bytes counts the bytes the    *)
(* channel holds.                                                          *)
(***************************************************************************)
EXTENDS ConnectionLemmas

(***************************************************************************)
(* Induction, on a set in place of a predicate.                            *)
(***************************************************************************)
LEMMA SetInduction ==
  ASSUME NEW S, 0 \in S, \A n \in Nat : n \in S => n + 1 \in S
  PROVE  \A n \in Nat : n \in S
<1> DEFINE T == {n \in Nat : n \notin S}
<1> SUFFICES ASSUME T # {} PROVE FALSE
  OBVIOUS
<1> DEFINE x == Min(T)
<1>1. x \in T /\ \A y \in T : x <= y
  BY MinNat
<1> HIDE DEF x
<1>2. \A y \in T : ~ (y < x)
  BY <1>1
<1>3. x \in Nat /\ x \notin S
  BY <1>1
<1>4. x # 0 /\ x - 1 \in Nat
  BY <1>3
<1>5. x - 1 \in S
  BY <1>2, <1>3, <1>4
<1> QED BY <1>3, <1>4, <1>5

(***************************************************************************)
(* Sums over finite sets.  SumFunctionOnSet takes the elements in the      *)
(* order CHOOSE gives them; the sum does not depend on it.                 *)
(***************************************************************************)
Any(s) == CHOOSE x \in s : TRUE

\* The value at s of a function that has its values at smaller sets.
SumAt(g, f, s) == IF s = {} THEN 0 ELSE f[Any(s)] + g[s \ {Any(s)}]

IsSum(g, f, S) == g = [s \in SUBSET S |-> SumAt(g, f, s)]

LEMMA SumIs ==
  ASSUME NEW f, NEW S, \E g : IsSum(g, f, S)
  PROVE  \E g : IsSum(g, f, S) /\ SumFunctionOnSet(f, S) = g[S]
<1> DEFINE G == CHOOSE g : IsSum(g, f, S)
<1>1. IsSum(G, f, S)
  OBVIOUS
<1>2. SumFunctionOnSet(f, S) = G[S]
  BY DEF SumFunctionOnSet, FoldFunctionOnSet, MapThenFoldSet, IsSum, SumAt, Any
<1> QED BY <1>1, <1>2, Zenon

LEMMA AnyFacts ==
  ASSUME NEW s, IsFiniteSet(s), s # {}
  PROVE  /\ Any(s) \in s /\ IsFiniteSet(s \ {Any(s)})
         /\ Cardinality(s) \in Nat /\ Cardinality(s \ {Any(s)}) \in Nat
         /\ Cardinality(s) = Cardinality(s \ {Any(s)}) + 1
<1>1. Any(s) \in s
  BY DEF Any
<1>2. Cardinality(s) \in Nat
  BY FS_CardinalityType
<1>3. IsFiniteSet(s \ {Any(s)}) /\ Cardinality(s \ {Any(s)}) = Cardinality(s) - 1
  BY <1>1, FS_RemoveElement
<1>4. Cardinality(s \ {Any(s)}) \in Nat
  BY <1>3, FS_CardinalityType
<1> QED BY <1>1, <1>2, <1>3, <1>4

\* g has the values of a sum at the sets of up to n elements.
SumUpTo(g, f, S, n) ==
  \A s \in SUBSET S : Cardinality(s) <= n => g[s] = SumAt(g, f, s)

LEMMA SumExists ==
  ASSUME NEW f, NEW S, IsFiniteSet(S)
  PROVE  \E g : IsSum(g, f, S)
<1> DEFINE N == {n \in Nat : \E g : SumUpTo(g, f, S, n)}
<1>0. \A s \in SUBSET S : IsFiniteSet(s) /\ Cardinality(s) \in Nat /\ (Cardinality(s) = 0 <=> s = {})
  BY FS_Subset, FS_CardinalityType, FS_EmptySet
<1>1. 0 \in N
  <2> DEFINE g == [s \in SUBSET S |-> 0]
  <2>1. SumUpTo(g, f, S, 0)
    BY <1>0 DEF SumUpTo, SumAt
  <2> HIDE DEF g
  <2> QED BY <2>1
<1>2. ASSUME NEW n \in Nat, n \in N
      PROVE  n + 1 \in N
  <2>1. PICK g : SumUpTo(g, f, S, n)
    BY <1>2
  <2> DEFINE h == [s \in SUBSET S |-> IF Cardinality(s) <= n THEN g[s] ELSE SumAt(g, f, s)]
  <2>2. \A s \in SUBSET S : h[s] = IF Cardinality(s) <= n THEN g[s] ELSE SumAt(g, f, s)
    OBVIOUS
  <2> HIDE DEF h
  <2>3. ASSUME NEW s \in SUBSET S, Cardinality(s) <= n + 1
        PROVE  h[s] = SumAt(h, f, s)
    <3>1. h[s] = SumAt(g, f, s)
      BY <2>1, <2>2 DEF SumUpTo
    <3>2. s # {} => h[s \ {Any(s)}] = g[s \ {Any(s)}]
      <4> SUFFICES ASSUME s # {} PROVE h[s \ {Any(s)}] = g[s \ {Any(s)}]
        OBVIOUS
      <4>1. Cardinality(s \ {Any(s)}) <= n
        BY <1>0, <2>3, AnyFacts
      <4> QED BY <2>2, <4>1
    <3> QED BY <3>1, <3>2 DEF SumAt
  <2>4. SumUpTo(h, f, S, n + 1)
    BY <2>3 DEF SumUpTo
  <2> QED BY <2>4
<1> HIDE DEF N
<1>3. \A n \in Nat : n \in N
  BY <1>1, <1>2, SetInduction, Zenon
<1>4. Cardinality(S) \in Nat /\ \A s \in SUBSET S : Cardinality(s) <= Cardinality(S)
  BY FS_CardinalityType, FS_Subset
<1>5. PICK g : SumUpTo(g, f, S, Cardinality(S))
  BY <1>3, <1>4 DEF N
<1> DEFINE h == [s \in SUBSET S |-> g[s]]
<1>6. \A s \in SUBSET S : h[s] = g[s] /\ SumAt(h, f, s) = SumAt(g, f, s)
  BY DEF SumAt, Any
<1>7. \A s \in SUBSET S : h[s] = SumAt(h, f, s)
  BY <1>4, <1>5, <1>6, Zenon DEF SumUpTo
<1>8. h = [s \in SUBSET S |-> h[s]]
  OBVIOUS
<1> HIDE DEF h
<1>9. h = [s \in SUBSET S |-> SumAt(h, f, s)]
  BY <1>7, <1>8, Zenon
<1> QED BY <1>9 DEF IsSum

\* Sums of functions that agree on a set agree there.
LEMMA SameSums ==
  ASSUME NEW f, NEW k, NEW S, NEW R, NEW g, NEW h, IsSum(g, f, S), IsSum(h, k, R),
         NEW T, IsFiniteSet(T), T \subseteq S, T \subseteq R, \A x \in T : f[x] = k[x]
  PROVE  g[T] = h[T]
<1> DEFINE N == {n \in Nat : \A s \in SUBSET T : Cardinality(s) = n => g[s] = h[s]}
<1>0. \A s \in SUBSET T : IsFiniteSet(s) /\ Cardinality(s) \in Nat /\ (Cardinality(s) = 0 <=> s = {})
  BY FS_Subset, FS_CardinalityType, FS_EmptySet
<1>1. \A s \in SUBSET T : g[s] = SumAt(g, f, s) /\ h[s] = SumAt(h, k, s)
  <2>1. \A s \in SUBSET S : g[s] = SumAt(g, f, s)
    BY DEF IsSum
  <2>2. \A s \in SUBSET R : h[s] = SumAt(h, k, s)
    BY DEF IsSum
  <2> QED BY <2>1, <2>2
<1>2. 0 \in N
  BY <1>0, <1>1, Zenon DEF SumAt
<1>3. ASSUME NEW n \in Nat, n \in N
      PROVE  n + 1 \in N
  <2>1. ASSUME NEW s \in SUBSET T, Cardinality(s) = n + 1
        PROVE  g[s] = h[s]
    <3>1. s # {} /\ IsFiniteSet(s)
      BY <1>0, <2>1
    <3>2. Any(s) \in s /\ Cardinality(s \ {Any(s)}) = n
      BY <2>1, <3>1, AnyFacts
    <3>3. g[s \ {Any(s)}] = h[s \ {Any(s)}]
      BY <1>3, <3>2
    <3> QED BY <1>1, <3>1, <3>2, <3>3, Zenon DEF SumAt
  <2> QED BY <2>1
<1> HIDE DEF N
<1>4. \A n \in Nat : n \in N
  BY <1>2, <1>3, SetInduction, Zenon
<1> QED BY <1>0, <1>4 DEF N

LEMMA SumEmpty == \A f : SumFunctionOnSet(f, {}) = 0
<1> SUFFICES ASSUME NEW f PROVE SumFunctionOnSet(f, {}) = 0
  OBVIOUS
<1>1. IsFiniteSet({})
  BY FS_EmptySet
<1>2. PICK g : IsSum(g, f, {}) /\ SumFunctionOnSet(f, {}) = g[{}]
  BY <1>1, SumExists, SumIs
<1>3. g[{}] = SumAt(g, f, {})
  BY <1>2 DEF IsSum
<1> QED BY <1>2, <1>3 DEF SumAt

LEMMA SumSame ==
  ASSUME NEW S, IsFiniteSet(S), NEW f, NEW k, \A x \in S : f[x] = k[x]
  PROVE  SumFunctionOnSet(f, S) = SumFunctionOnSet(k, S)
<1>1. PICK g : IsSum(g, f, S) /\ SumFunctionOnSet(f, S) = g[S]
  BY SumExists, SumIs
<1>2. PICK h : IsSum(h, k, S) /\ SumFunctionOnSet(k, S) = h[S]
  BY SumExists, SumIs
<1>3. g[S] = h[S]
  BY <1>1, <1>2, SameSums
<1> QED BY <1>1, <1>2, <1>3

LEMMA SumAny ==
  ASSUME NEW S, IsFiniteSet(S), S # {}, NEW f
  PROVE  SumFunctionOnSet(f, S) = f[Any(S)] + SumFunctionOnSet(f, S \ {Any(S)})
<1> DEFINE T == S \ {Any(S)}
<1>0. IsFiniteSet(T) /\ T \subseteq S
  BY AnyFacts
<1>1. PICK g : IsSum(g, f, S) /\ SumFunctionOnSet(f, S) = g[S]
  BY SumExists, SumIs
<1>2. PICK h : IsSum(h, f, T) /\ SumFunctionOnSet(f, T) = h[T]
  BY <1>0, SumExists, SumIs
<1>3. g[T] = h[T]
  BY <1>0, <1>1, <1>2, SameSums
<1>4. g[S] = SumAt(g, f, S)
  BY <1>1 DEF IsSum
<1> QED BY <1>1, <1>2, <1>3, <1>4 DEF SumAt

Weights(f, S) == IsFiniteSet(S) /\ \A x \in S : f[x] \in Nat

LEMMA WeightsFacts ==
  ASSUME NEW f, NEW S, Weights(f, S)
  PROVE  /\ Cardinality(S) \in Nat /\ (Cardinality(S) = 0 <=> S = {})
         /\ \A T \in SUBSET S : Weights(f, T)
         /\ \A x \in S : /\ Weights(f, S \ {x}) /\ Cardinality(S \ {x}) \in Nat
                         /\ Cardinality(S) = Cardinality(S \ {x}) + 1
<1>1. IsFiniteSet(S)
  BY DEF Weights
<1>2. Cardinality(S) \in Nat /\ (Cardinality(S) = 0 <=> S = {})
  BY <1>1, FS_CardinalityType, FS_EmptySet
<1>3. \A T \in SUBSET S : Weights(f, T)
  BY <1>1, FS_Subset DEF Weights
<1>4. \A x \in S : IsFiniteSet(S \ {x}) /\ Cardinality(S \ {x}) = Cardinality(S) - 1
  BY <1>1, FS_RemoveElement
<1>5. \A x \in S : Cardinality(S \ {x}) \in Nat
  BY <1>4, FS_CardinalityType
<1>6. \A x \in S : Cardinality(S) = Cardinality(S \ {x}) + 1
  <2>1. \A i, j \in Nat : j = i - 1 => i = j + 1
    OBVIOUS
  <2> QED BY <1>2, <1>4, <1>5, <2>1, Zenon
<1>7. \A x \in S : Weights(f, S \ {x})
  BY <1>3
<1> QED BY <1>2, <1>3, <1>5, <1>6, <1>7, Zenon

LEMMA OneLess ==
  ASSUME NEW f, NEW S, Weights(f, S), NEW x \in S, NEW n \in Nat, Cardinality(S) = n + 1
  PROVE  Cardinality(S \ {x}) = n
<1>1. Cardinality(S \ {x}) \in Nat /\ Cardinality(S) = Cardinality(S \ {x}) + 1
  BY WeightsFacts, Zenon
<1> QED BY <1>1

LEMMA SumIsNat ==
  ASSUME NEW f, NEW S, Weights(f, S)
  PROVE  SumFunctionOnSet(f, S) \in Nat
<1> DEFINE N == {n \in Nat : \A s \in SUBSET S : Cardinality(s) = n => SumFunctionOnSet(f, s) \in Nat}
<1>0. \A s \in SUBSET S : /\ Weights(f, s) /\ IsFiniteSet(s) /\ Cardinality(s) \in Nat
                          /\ Cardinality(s) = 0 <=> s = {}
  BY WeightsFacts, Zenon DEF Weights
<1>1. 0 \in N
  BY <1>0, SumEmpty
<1>2. ASSUME NEW n \in Nat, n \in N
      PROVE  n + 1 \in N
  <2>1. ASSUME NEW s \in SUBSET S, Cardinality(s) = n + 1
        PROVE  SumFunctionOnSet(f, s) \in Nat
    <3>1. s # {} /\ IsFiniteSet(s)
      BY <1>0, <2>1
    <3>2. Any(s) \in s /\ Cardinality(s \ {Any(s)}) = n
      BY <2>1, <3>1, AnyFacts
    <3>3. SumFunctionOnSet(f, s \ {Any(s)}) \in Nat
      BY <1>2, <3>2
    <3>4. f[Any(s)] \in Nat
      BY <3>2 DEF Weights
    <3>5. SumFunctionOnSet(f, s) = f[Any(s)] + SumFunctionOnSet(f, s \ {Any(s)})
      BY <3>1, SumAny, Zenon
    <3> QED BY <3>3, <3>4, <3>5
  <2> QED BY <2>1
<1> HIDE DEF N
<1>3. \A n \in Nat : n \in N
  BY <1>1, <1>2, SetInduction, Zenon
<1> QED BY <1>0, <1>3 DEF N

LEMMA SumRemove ==
  ASSUME NEW f, NEW S, Weights(f, S), NEW x \in S
  PROVE  SumFunctionOnSet(f, S) = f[x] + SumFunctionOnSet(f, S \ {x})
<1> DEFINE Sum(s) == SumFunctionOnSet(f, s)
           N == {n \in Nat : \A s \in SUBSET S : Cardinality(s) = n =>
                               \A y \in s : Sum(s) = f[y] + Sum(s \ {y})}
<1>0. \A s \in SUBSET S : /\ Weights(f, s) /\ IsFiniteSet(s) /\ Cardinality(s) \in Nat
                          /\ Cardinality(s) = 0 <=> s = {}
                          /\ Sum(s) \in Nat
  BY WeightsFacts, SumIsNat DEF Weights
<1>1. 0 \in N
  BY <1>0
<1>2. ASSUME NEW n \in Nat, n \in N
      PROVE  n + 1 \in N
  <2>1. ASSUME NEW s \in SUBSET S, Cardinality(s) = n + 1, NEW y \in s
        PROVE  Sum(s) = f[y] + Sum(s \ {y})
    <3> DEFINE a == Any(s)
    <3>1. s # {} /\ IsFiniteSet(s)
      BY <1>0, <2>1
    <3>2. a \in s /\ Sum(s) = f[a] + Sum(s \ {a})
      BY <3>1, AnyFacts, SumAny
    <3> HIDE DEF a, Sum
    <3>3. CASE y = a
      BY <3>2, <3>3
    <3>4. CASE y # a
      <4>1. Cardinality(s \ {a}) = n /\ Cardinality(s \ {y}) = n
        BY <1>0, <2>1, <3>2, OneLess
      <4>2. Sum(s \ {a}) = f[y] + Sum((s \ {a}) \ {y}) /\ Sum(s \ {y}) = f[a] + Sum((s \ {y}) \ {a})
        BY <1>2, <3>2, <3>4, <4>1
      <4>3. (s \ {a}) \ {y} = (s \ {y}) \ {a}
        OBVIOUS
      <4>4. f[a] \in Nat /\ f[y] \in Nat /\ Sum((s \ {y}) \ {a}) \in Nat
        BY <1>0, <3>2 DEF Weights
      <4>5. \A i, j, k \in Nat : i + (j + k) = j + (i + k)
        OBVIOUS
      <4>6. Sum(s) = f[a] + (f[y] + Sum((s \ {y}) \ {a}))
        BY <3>2, <4>2, <4>3, Zenon
      <4>7. Sum(s) = f[y] + (f[a] + Sum((s \ {y}) \ {a}))
        BY <4>4, <4>5, <4>6, Zenon
      <4> QED BY <4>2, <4>7, Zenon
    <3> QED BY <3>3, <3>4
  <2> QED BY <2>1
<1> HIDE DEF N
<1>3. \A n \in Nat : n \in N
  BY <1>1, <1>2, SetInduction, Zenon
<1> QED BY <1>0, <1>3 DEF N

LEMMA SumAdd ==
  ASSUME NEW f, NEW S, Weights(f, S), NEW x, x \notin S, f[x] \in Nat
  PROVE  Weights(f, S \cup {x}) /\ SumFunctionOnSet(f, S \cup {x}) = f[x] + SumFunctionOnSet(f, S)
<1>1. Weights(f, S \cup {x})
  BY FS_AddElement DEF Weights
<1>2. (S \cup {x}) \ {x} = S
  OBVIOUS
<1> QED BY <1>1, <1>2, SumRemove

LEMMA SumUnion ==
  ASSUME NEW f, NEW A, NEW B, Weights(f, A), Weights(f, B), A \cap B = {}
  PROVE  SumFunctionOnSet(f, A \cup B) = SumFunctionOnSet(f, A) + SumFunctionOnSet(f, B)
<1> DEFINE Sum(s) == SumFunctionOnSet(f, s)
           N == {n \in Nat : \A s \in SUBSET B : Cardinality(s) = n => Sum(A \cup s) = Sum(A) + Sum(s)}
<1>0. /\ \A s \in SUBSET B : /\ Weights(f, s) /\ Cardinality(s) \in Nat
                             /\ Cardinality(s) = 0 <=> s = {}
                             /\ Sum(s) \in Nat
      /\ Sum(A) \in Nat /\ Sum({}) = 0
  BY WeightsFacts, SumIsNat, SumEmpty
<1>1. 0 \in N
  <2> HIDE DEF Sum
  <2>1. A \cup {} = A /\ Sum(A) = Sum(A) + Sum({})
    BY <1>0
  <2> QED BY <1>0, <2>1
<1>2. ASSUME NEW n \in Nat, n \in N
      PROVE  n + 1 \in N
  <2>1. ASSUME NEW s \in SUBSET B, Cardinality(s) = n + 1
        PROVE  Sum(A \cup s) = Sum(A) + Sum(s)
    <3>1. PICK y \in s : TRUE
      BY <1>0, <2>1
    <3> DEFINE t == s \ {y}
    <3>2. Weights(f, s) /\ Weights(f, A \cup s)
      BY <1>0, FS_Union DEF Weights
    <3>3. Cardinality(t) = n
      BY <2>1, <3>2, OneLess
    <3>4. Sum(A \cup t) = Sum(A) + Sum(t)
      BY <1>2, <3>3
    <3>5. Sum(s) = f[y] + Sum(t) /\ Sum(A \cup s) = f[y] + Sum((A \cup s) \ {y})
      BY <3>2, SumRemove
    <3>6. (A \cup s) \ {y} = A \cup t
      OBVIOUS
    <3>7. Sum(A) \in Nat /\ Sum(t) \in Nat /\ f[y] \in Nat
      BY <1>0, <3>2 DEF Weights
    <3> HIDE DEF Sum, t
    <3>8. \A i, j, k \in Nat : i + (j + k) = j + (i + k)
      OBVIOUS
    <3>9. Sum(A \cup s) = f[y] + (Sum(A) + Sum(t))
      BY <3>4, <3>5, <3>6, Zenon
    <3>10. Sum(A \cup s) = Sum(A) + (f[y] + Sum(t))
      BY <3>7, <3>8, <3>9, Zenon
    <3> QED BY <3>5, <3>10, Zenon
  <2> QED BY <2>1
<1> HIDE DEF N
<1>3. \A n \in Nat : n \in N
  BY <1>1, <1>2, SetInduction, Zenon
<1> QED BY <1>0, <1>3 DEF N

LEMMA SumSubset ==
  ASSUME NEW f, NEW S, Weights(f, S), NEW T \in SUBSET S
  PROVE  /\ SumFunctionOnSet(f, S) = SumFunctionOnSet(f, T) + SumFunctionOnSet(f, S \ T)
         /\ SumFunctionOnSet(f, T) <= SumFunctionOnSet(f, S)
<1> DEFINE Sum(s) == SumFunctionOnSet(f, s)
<1>1. Weights(f, T) /\ Weights(f, S \ T)
  BY WeightsFacts
<1>2. T \cup (S \ T) = S /\ T \cap (S \ T) = {}
  OBVIOUS
<1>3. Sum(T \cup (S \ T)) = Sum(T) + Sum(S \ T)
  BY <1>1, <1>2, SumUnion
<1>4. Sum(T) \in Nat /\ Sum(S \ T) \in Nat
  BY <1>1, SumIsNat
<1> HIDE DEF Sum
<1>5. Sum(S) = Sum(T) + Sum(S \ T)
  BY <1>2, <1>3
<1>6. Sum(T) <= Sum(S)
  BY <1>4, <1>5
<1> QED BY <1>5, <1>6 DEF Sum

\* The elements of a sum under other names.
Renamed(h, A) == {h[a] : a \in A}

LEMMA SumImage ==
  ASSUME NEW f, NEW k, NEW A, Weights(k, A), NEW h, \A a \in A : f[h[a]] = k[a],
         \A a, b \in A : h[a] = h[b] => a = b
  PROVE  Weights(f, Renamed(h, A)) /\ SumFunctionOnSet(f, Renamed(h, A)) = SumFunctionOnSet(k, A)
<1> DEFINE Image(s) == {h[a] : a \in s}
           Same(s) == Weights(f, Image(s)) /\ SumFunctionOnSet(f, Image(s)) = SumFunctionOnSet(k, s)
           N == {n \in Nat : \A s \in SUBSET A : Cardinality(s) = n => Same(s)}
<1>0. \A s \in SUBSET A : /\ Weights(k, s) /\ Cardinality(s) \in Nat
                          /\ Cardinality(s) = 0 <=> s = {}
  BY WeightsFacts
<1>1. 0 \in N
  <2>1. Image({}) = {}
    OBVIOUS
  <2>2. Weights(f, {})
    BY FS_EmptySet DEF Weights
  <2>3. Same({})
    BY <2>1, <2>2, SumEmpty
  <2> QED BY <1>0, <2>3
<1>2. ASSUME NEW n \in Nat, n \in N
      PROVE  n + 1 \in N
  <2>1. ASSUME NEW s \in SUBSET A, Cardinality(s) = n + 1
        PROVE  Same(s)
    <3>1. PICK y \in s : TRUE
      BY <1>0, <2>1
    <3> DEFINE t == s \ {y}
    <3>2. Weights(k, s)
      BY <1>0
    <3>3. Cardinality(t) = n
      BY <2>1, <3>2, OneLess
    <3>4. Weights(f, Image(t)) /\ SumFunctionOnSet(f, Image(t)) = SumFunctionOnSet(k, t)
      BY <1>2, <3>3
    <3>5. Image(s) = Image(t) \cup {h[y]} /\ h[y] \notin Image(t)
      OBVIOUS
    <3>6. f[h[y]] = k[y] /\ k[y] \in Nat
      BY <3>2 DEF Weights
    <3>7. SumFunctionOnSet(k, s) = k[y] + SumFunctionOnSet(k, t)
      BY <3>2, SumRemove
    <3> HIDE DEF Image, t
    <3>8. /\ Weights(f, Image(t) \cup {h[y]})
          /\ SumFunctionOnSet(f, Image(t) \cup {h[y]}) = f[h[y]] + SumFunctionOnSet(f, Image(t))
      BY <3>4, <3>5, <3>6, SumAdd
    <3> QED BY <3>4, <3>5, <3>6, <3>7, <3>8, Zenon
  <2> QED BY <2>1
<1> HIDE DEF N
<1>3. \A n \in Nat : n \in N
  BY <1>1, <1>2, SetInduction, Zenon
<1>4. Same(A)
  BY <1>0, <1>3 DEF N
<1> QED BY <1>4 DEF Renamed

-----------------------------------------------------------------------------
(***************************************************************************)
(* The memory of a channel.  Message id takes Lengths(M)[id] bytes, and    *)
(* while it is put together Reserves(M)[id].                               *)
(***************************************************************************)
Lengths(M) == [id \in 0 .. Len(M) - 1 |-> Size[M[id + 1]]]

Reserves(M) == [id \in 0 .. Len(M) - 1 |-> ReservedBytes(M[id + 1])]

SendMemoryOK(ch, M) ==
  /\ ch.memory = SumFunctionOnSet(Lengths(M), DOMAIN ch.unacked)
  /\ ch.memory <= MaxSendMemory

ReceiveMemoryOK(ch, M) ==
  /\ ch.memory = SumFunctionOnSet(Lengths(M), DOMAIN ch.messages)
                 + SumFunctionOnSet(Reserves(M), DOMAIN ch.slices)
  /\ ch.memory <= MaxReceiveMemory

LEMMA BytesFacts ==
  ASSUME NEW m \in Messages
  PROVE  Size[m] \in Nat /\ ReservedBytes(m) \in Nat /\ Size[m] <= ReservedBytes(m)
<1>1. Size[m] \in Nat
  BY MessagesAssumption
<1>2. CASE Sliced(m)
  <2>1. NumSlices(m) = (Size[m] + 1199) \div 1200 /\ ReservedBytes(m) = NumSlices(m) * 1200
    BY <1>1, <1>2 DEF NumSlices, ReservedBytes, SLICE_SIZE
  <2> QED BY <1>1, <2>1
<1>3. CASE ~ Sliced(m)
  BY <1>1, <1>3 DEF NumSlices, ReservedBytes, SLICE_SIZE, Sliced
<1> QED BY <1>2, <1>3

LEMMA WeightsOfMessages ==
  ASSUME NEW M \in Seq(Messages), NEW S \in SUBSET (0 .. Len(M) - 1)
  PROVE  /\ Weights(Lengths(M), S) /\ Weights(Reserves(M), S)
         /\ SumFunctionOnSet(Lengths(M), S) \in Nat /\ SumFunctionOnSet(Reserves(M), S) \in Nat
<1>1. Len(M) \in Nat
  OBVIOUS
<1>2. IsFiniteSet(0 .. Len(M) - 1)
  BY <1>1, FS_Interval
<1>3. IsFiniteSet(S)
  BY <1>2, FS_Subset, Zenon
<1>4. \A id \in 0 .. Len(M) - 1 : M[id + 1] \in Messages
  BY <1>1
<1>5. \A id \in 0 .. Len(M) - 1 : Lengths(M)[id] \in Nat /\ Reserves(M)[id] \in Nat
  BY <1>4, BytesFacts DEF Lengths, Reserves
<1>6. Weights(Lengths(M), S) /\ Weights(Reserves(M), S)
  BY <1>3, <1>5 DEF Weights
<1> QED BY <1>6, SumIsNat

LEMMA WeightsStay ==
  ASSUME NEW M \in Seq(Messages), NEW m \in Messages, NEW S \in SUBSET (0 .. Len(M) - 1)
  PROVE  /\ SumFunctionOnSet(Lengths(Append(M, m)), S) = SumFunctionOnSet(Lengths(M), S)
         /\ SumFunctionOnSet(Reserves(Append(M, m)), S) = SumFunctionOnSet(Reserves(M), S)
<1> DEFINE N == Append(M, m)
<1>1. Len(M) \in Nat /\ Len(N) = Len(M) + 1 /\ \A k \in 1 .. Len(M) : N[k] = M[k]
  OBVIOUS
<1> HIDE DEF N
<1>2. \A id \in 0 .. Len(M) - 1 : id \in 0 .. Len(N) - 1 /\ N[id + 1] = M[id + 1]
  BY <1>1
<1>3. \A id \in S : Lengths(N)[id] = Lengths(M)[id] /\ Reserves(N)[id] = Reserves(M)[id]
  BY <1>2 DEF Lengths, Reserves
<1>4. IsFiniteSet(S)
  BY WeightsOfMessages DEF Weights
<1> QED BY <1>3, <1>4, SumSame, Zenon DEF N

-----------------------------------------------------------------------------
LEMMA SendMessageMemory ==
  ASSUME NEW M \in Seq(Messages), NEW ch, SendOK(ch, M), NEW m \in Messages,
         SendMemoryOK(ch, M), CanSendMessage(ch, m)
  PROVE  SendMemoryOK(SendMessage(ch, m), Append(M, m))
<1> DEFINE new == SendMessage(ch, m)
           N == Append(M, m)
           S == DOMAIN ch.unacked
<1>1. /\ N \in Seq(Messages) /\ Len(M) \in Nat /\ Len(N) = Len(M) + 1 /\ N[Len(M) + 1] = m
  OBVIOUS
<1>2. /\ DOMAIN new.unacked = S \cup {Len(M)} /\ new.memory = ch.memory + Size[m]
      /\ new.memory <= MaxSendMemory
  BY Zenon DEF SendMessage, SendChannel, SendOK, CanSendMessage
<1>3. S \in SUBSET (0 .. Len(M) - 1) /\ S \in SUBSET (0 .. Len(N) - 1) /\ Len(M) \notin S
  BY <1>1 DEF SendOK
<1>4. ch.memory = SumFunctionOnSet(Lengths(N), S) /\ ch.memory \in Nat
  BY <1>3, WeightsStay, WeightsOfMessages DEF SendMemoryOK
<1>5. Lengths(N)[Len(M)] = Size[m] /\ Size[m] \in Nat
  BY <1>1, BytesFacts DEF Lengths
<1>6. Weights(Lengths(N), S)
  BY <1>1, <1>3, WeightsOfMessages, Zenon
<1> HIDE DEF new, N, S
<1>7. SumFunctionOnSet(Lengths(N), S \cup {Len(M)}) = Size[m] + ch.memory
  <2>1. SumFunctionOnSet(Lengths(N), S \cup {Len(M)}) = Lengths(N)[Len(M)] + SumFunctionOnSet(Lengths(N), S)
    BY <1>3, <1>5, <1>6, SumAdd, Zenon
  <2> QED BY <1>4, <1>5, <2>1
<1>8. Size[m] + ch.memory = ch.memory + Size[m]
  BY <1>4, <1>5
<1> QED BY <1>2, <1>7, <1>8 DEF SendMemoryOK, new, N

LEMMA MarkSentMemory ==
  ASSUME NEW M, NEW ch, SendMemoryOK(ch, M), NEW S, NEW now
  PROVE  SendMemoryOK(MarkSent(ch, S, now), M)
<1>1. /\ DOMAIN MarkSent(ch, S, now).unacked = DOMAIN ch.unacked
      /\ MarkSent(ch, S, now).memory = ch.memory
  BY Zenon DEF MarkSent, SendChannel
<1> QED BY <1>1 DEF SendMemoryOK

LEMMA ProcessAcksMemory ==
  ASSUME NEW M \in Seq(Messages), NEW ch, SendOK(ch, M), SendMemoryOK(ch, M), NEW parts
  PROVE  SendMemoryOK(ProcessAcks(ch, parts), M)
<1> DEFINE new == ProcessAcks(ch, parts)
           S == DOMAIN ch.unacked
           T == Completed(ch, parts)
           Sum(s) == SumFunctionOnSet(Lengths(M), s)
<1>1. /\ DOMAIN new.unacked = S \ T
      /\ new.memory = ch.memory - SumFunctionOnSet(MessageSizes(ch), T)
  BY Zenon DEF ProcessAcks, SendChannel
<1>2. T \in SUBSET S /\ S \in SUBSET (0 .. Len(M) - 1)
  BY DEF Completed, SendOK
<1> HIDE DEF T, new
<1>3. \A id \in S : MessageSizes(ch)[id] = Lengths(M)[id]
  BY <1>2 DEF MessageSizes, Lengths, SendOK
<1>4. Weights(Lengths(M), S) /\ Weights(Lengths(M), T) /\ Weights(Lengths(M), S \ T)
  BY <1>2, WeightsOfMessages
<1>5. SumFunctionOnSet(MessageSizes(ch), T) = Sum(T)
  BY <1>2, <1>3, <1>4, SumSame DEF Weights
<1>6. Sum(S) = Sum(T) + Sum(S \ T) /\ ch.memory = Sum(S)
  BY <1>2, <1>4, SumSubset DEF SendMemoryOK
<1>7. Sum(T) \in Nat /\ Sum(S \ T) \in Nat
  BY <1>4, SumIsNat
<1> HIDE DEF Sum, S
<1>8. new.memory = Sum(S \ T)
  BY <1>1, <1>5, <1>6, <1>7
<1>9. new.memory <= MaxSendMemory
  BY <1>6, <1>7, <1>8, SendChannelAssumption DEF SendMemoryOK
<1> QED BY <1>1, <1>8, <1>9 DEF SendMemoryOK, Sum, new

-----------------------------------------------------------------------------
\* Messages of M with their ids.
BatchOK(batch, M) ==
  \A b \in batch : /\ b = <<b[1], b[2]>> /\ b[1] \in 0 .. Len(M) - 1 /\ b[2] = M[b[1] + 1]

LEMMA BatchFacts ==
  ASSUME NEW M \in Seq(Messages), NEW batch, BatchOK(batch, M)
  PROVE  /\ BatchSize(batch) \in Nat
         /\ SumFunctionOnSet(Lengths(M), {b[1] : b \in batch}) = BatchSize(batch)
<1> DEFINE h == [b \in batch |-> b[1]]
           k == [b \in batch |-> Size[b[2]]]
<1>1. Len(M) \in Nat /\ \A id \in 0 .. Len(M) - 1 : id + 1 \in 1 .. Len(M)
  OBVIOUS
<1>2. \A b \in batch : /\ b[1] \in 0 .. Len(M) - 1 /\ M[b[1] + 1] \in Messages
                       /\ b = <<b[1], M[b[1] + 1]>> /\ b[2] = M[b[1] + 1]
  BY <1>1 DEF BatchOK
<1>3. \A b \in batch : h[b] = b[1] /\ h[b] \in 0 .. Len(M) - 1
  BY <1>2
<1>4. \A b, c \in batch : h[b] = h[c] => b = c
  BY <1>2, <1>3
<1>5. \A b \in batch : k[b] = Size[M[b[1] + 1]] /\ k[b] \in Nat
  BY <1>2, BytesFacts
<1>6. BatchSize(batch) = SumFunctionOnSet(k, batch)
  BY DEF BatchSize, SumFunction
<1>7. h \in Injection(batch, 0 .. Len(M) - 1)
  BY <1>2, <1>4 DEF Injection, IsInjective
<1>8. Renamed(h, batch) = {b[1] : b \in batch}
  BY DEF Renamed
<1> HIDE DEF h, k
<1>9. \A b \in batch : Lengths(M)[h[b]] = k[b]
  BY <1>3, <1>5 DEF Lengths
<1>10. IsFiniteSet(batch)
  <2>1. IsFiniteSet(0 .. Len(M) - 1)
    BY <1>1, FS_Interval
  <2> QED BY <1>7, <2>1, FS_Injection
<1>11. Weights(k, batch)
  BY <1>5, <1>10 DEF Weights
<1>12. SumFunctionOnSet(Lengths(M), Renamed(h, batch)) = SumFunctionOnSet(k, batch)
  BY <1>4, <1>9, <1>11, SumImage
<1>13. SumFunctionOnSet(k, batch) \in Nat
  BY <1>11, SumIsNat
<1> QED BY <1>6, <1>8, <1>12, <1>13

LEMMA SmallerBatch ==
  ASSUME NEW M \in Seq(Messages), NEW batch, BatchOK(batch, M), NEW part \in SUBSET batch
  PROVE  BatchOK(part, M) /\ BatchSize(part) \in Nat /\ BatchSize(part) <= BatchSize(batch)
<1> DEFINE ids == {b[1] : b \in batch}
           some == {b[1] : b \in part}
<1>1. BatchOK(part, M)
  BY DEF BatchOK
<1>2. some \in SUBSET ids /\ ids \in SUBSET (0 .. Len(M) - 1)
  BY DEF BatchOK
<1>3. /\ SumFunctionOnSet(Lengths(M), ids) = BatchSize(batch)
      /\ SumFunctionOnSet(Lengths(M), some) = BatchSize(part) /\ BatchSize(part) \in Nat
  BY <1>1, BatchFacts
<1> HIDE DEF ids, some
<1>4. Weights(Lengths(M), ids)
  BY <1>2, WeightsOfMessages
<1>5. SumFunctionOnSet(Lengths(M), some) <= SumFunctionOnSet(Lengths(M), ids)
  BY <1>2, <1>4, SumSubset, Zenon
<1> QED BY <1>1, <1>3, <1>5

\* The messages that are taken fit, and are not there yet.
LEMMA FittingFacts ==
  ASSUME NEW M \in Seq(Messages), NEW D, NEW ch, ReceiveOK(ch, M, D), NEW batch, BatchOK(batch, M),
         ch.memory \in Nat, ch.memory <= MaxReceiveMemory
  PROVE  LET added == Fitting(ch, batch)
         IN  /\ BatchOK(added, M) /\ ch.memory + BatchSize(added) <= MaxReceiveMemory
             /\ {b[1] : b \in added} \cap DOMAIN ch.messages = {}
<1> DEFINE added == Fitting(ch, batch)
           new == NewMessages(ch, batch)
           upto(b) == {c \in new : c[1] <= b[1]}
<1>1. /\ new \in SUBSET batch /\ added \in SUBSET new
      /\ \A b \in added : ch.memory + BatchSize(upto(b)) <= MaxReceiveMemory
  BY DEF Fitting, NewMessages
<1>2. \A b \in new : /\ b[1] >= ch.oldest
                     /\ b[1] \notin IF ch.ordered THEN DOMAIN ch.messages ELSE ch.received
  BY DEF NewMessages
<1> HIDE DEF new, added
<1>3. BatchOK(added, M) /\ BatchOK(new, M)
  BY <1>1, SmallerBatch
<1>4. {b[1] : b \in added} \cap DOMAIN ch.messages = {}
  <2> SUFFICES ASSUME NEW b \in added, b[1] \in DOMAIN ch.messages PROVE FALSE
    OBVIOUS
  <2>1. CASE ch.ordered
    BY <1>1, <1>2, <2>1
  <2>2. CASE ~ ch.ordered
    <3>1. b[1] \notin ch.received /\ b[1] >= ch.oldest
      BY <1>1, <1>2, <2>2
    <3>2. ch.received = {id \in D \cup DOMAIN ch.messages : id >= ch.oldest}
      BY <2>2 DEF ReceiveOK
    <3> QED BY <3>1, <3>2
  <2> QED BY <2>1, <2>2
<1>5. CASE added = {}
  <2>1. BatchSize({}) = 0
    BY SumEmpty DEF BatchSize, SumFunction
  <2>2. ch.memory + BatchSize(added) = ch.memory
    BY <1>5, <2>1
  <2> QED BY <1>3, <1>4, <2>2 DEF added
<1>6. CASE added # {}
  <2> DEFINE rest == {Len(M) - b[1] : b \in added}
  <2>1. Len(M) \in Nat /\ \A b \in added : b[1] \in 0 .. Len(M) - 1
    BY <1>3 DEF BatchOK
  <2>2. rest \in SUBSET Nat /\ rest # {}
    BY <1>6, <2>1
  <2>3. Min(rest) \in rest /\ \A r \in rest : Min(rest) <= r
    <3> HIDE DEF rest
    <3> QED BY <2>2, MinNat
  <2>4. PICK b \in added : \A c \in added : Len(M) - b[1] <= Len(M) - c[1]
    BY <2>3, Zenon
  <2>5. \A c \in added : c[1] <= b[1]
    BY <2>1, <2>4
  <2>6. added \in SUBSET upto(b) /\ upto(b) \in SUBSET new
    BY <1>1, <2>5
  <2>7. BatchOK(upto(b), M)
    BY <1>3, <2>6, SmallerBatch
  <2>8. /\ BatchSize(added) \in Nat /\ BatchSize(upto(b)) \in Nat
        /\ BatchSize(added) <= BatchSize(upto(b))
    BY <1>3, <2>6, <2>7, SmallerBatch
  <2>9. ch.memory + BatchSize(upto(b)) <= MaxReceiveMemory
    BY <1>1
  <2> HIDE DEF upto
  <2>10. ch.memory + BatchSize(added) <= MaxReceiveMemory
    BY <2>8, <2>9, ReceiveChannelAssumption
  <2> QED BY <1>3, <1>4, <2>10 DEF added
<1> QED BY <1>5, <1>6

\* From ch to new the memory grows by the messages that are added.
Takes(ch, new, M) ==
  /\ new.memory \in Nat /\ new.memory <= MaxReceiveMemory /\ new.slices = ch.slices
  /\ new.memory + SumFunctionOnSet(Lengths(M), DOMAIN ch.messages)
       = ch.memory + SumFunctionOnSet(Lengths(M), DOMAIN new.messages)

LEMMA ProcessMessagesMemory ==
  ASSUME NEW M \in Seq(Messages), NEW D, NEW ch, ReceiveOK(ch, M, D), NEW batch, BatchOK(batch, M),
         ch.memory \in Nat, ch.memory <= MaxReceiveMemory
  PROVE  Takes(ch, ProcessMessages(ch, batch).channel, M)
<1> DEFINE added == Fitting(ch, batch)
           ids == {b[1] : b \in added}
           new == ProcessMessages(ch, batch).channel
           held == DOMAIN ch.messages
           Sum(s) == SumFunctionOnSet(Lengths(M), s)
<1>1. /\ new.slices = ch.slices /\ DOMAIN new.messages = held \cup ids
      /\ new.memory = ch.memory + BatchSize(added)
  BY Zenon DEF ProcessMessages, Result, ReceiveOK, ReceiveFields
<1>2. BatchOK(added, M) /\ ch.memory + BatchSize(added) <= MaxReceiveMemory /\ ids \cap held = {}
  BY FittingFacts
<1>3. BatchSize(added) \in Nat /\ Sum(ids) = BatchSize(added)
  BY <1>2, BatchFacts, SMTT(20)
<1>4. ids \in SUBSET (0 .. Len(M) - 1) /\ held \in SUBSET (0 .. Len(M) - 1)
  BY <1>2 DEF BatchOK, ReceiveOK
<1> HIDE DEF new, added, ids, held
<1>5. Weights(Lengths(M), held) /\ Weights(Lengths(M), ids) /\ Sum(held) \in Nat
  BY <1>4, WeightsOfMessages
<1>6. Sum(held \cup ids) = Sum(held) + Sum(ids)
  BY <1>2, <1>5, SumUnion
<1> HIDE DEF Sum
<1>7. new.memory + Sum(held) = ch.memory + Sum(held \cup ids)
  BY <1>1, <1>3, <1>5, <1>6
<1>8. new.memory \in Nat /\ new.memory <= MaxReceiveMemory
  BY <1>1, <1>2, <1>3
<1> QED BY <1>1, <1>7, <1>8, Zenon DEF Takes, new, held, Sum

\* A message there is room for is taken, or is not new.
LEMMA OneMessageFits ==
  ASSUME NEW M \in Seq(Messages), NEW ch, NEW b, BatchOK({b}, M), ch.memory \in Nat,
         ch.memory + Size[b[2]] <= MaxReceiveMemory
  PROVE  ProcessMessages(ch, {b}).ok
<1> DEFINE new == NewMessages(ch, {b})
           part == {c \in new : c[1] <= b[1]}
           k == [c \in {b} |-> Size[c[2]]]
<1>1. new \in SUBSET {b} /\ part \in SUBSET {b}
  BY DEF NewMessages
<1>2. b[1] + 1 \in 1 .. Len(M) /\ b[2] = M[b[1] + 1]
  BY DEF BatchOK
<1>3. k[b] = Size[b[2]] /\ Size[b[2]] \in Nat
  BY <1>2, BytesFacts
<1>4. BatchSize({b}) = SumFunctionOnSet(k, {b})
  BY DEF BatchSize, SumFunction
<1> HIDE DEF k
<1>5. Weights(k, {}) /\ {} \cup {b} = {b} /\ b \notin {}
  BY FS_EmptySet DEF Weights
<1>6. SumFunctionOnSet(k, {} \cup {b}) = k[b] + SumFunctionOnSet(k, {})
  BY <1>3, <1>5, SumAdd, Zenon
<1>7. SumFunctionOnSet(k, {b}) = k[b] + 0
  BY <1>5, <1>6, SumEmpty, Zenon
<1>8. BatchSize({b}) = Size[b[2]]
  BY <1>3, <1>4, <1>7
<1>9. BatchSize(part) \in Nat /\ BatchSize(part) <= Size[b[2]]
  <2> HIDE DEF part
  <2> QED BY <1>1, <1>8, SmallerBatch
<1>10. ch.memory + BatchSize(part) <= MaxReceiveMemory
  <2> HIDE DEF part
  <2> QED BY <1>3, <1>9, ReceiveChannelAssumption
<1>11. \A c \in new : ch.memory + BatchSize({d \in new : d[1] <= c[1]}) <= MaxReceiveMemory
  BY <1>1, <1>10, Zenon
<1>12. Fitting(ch, {b}) = new
  BY <1>11, Zenon DEF Fitting
<1> QED BY <1>12, Zenon DEF ProcessMessages, Result

\* The reservation is given back before the message is taken, so there is room for it.
LEMMA FinishMemory ==
  ASSUME NEW M \in Seq(Messages), NEW D, NEW ch, ReceiveOK(ch, M, D), ReceiveMemoryOK(ch, M),
         NEW id \in DOMAIN ch.slices,
         Cardinality(ch.slices[id]) = NumSlices(M[id + 1])
  PROVE  ReceiveMemoryOK(Finish(ch, id, M[id + 1]).channel, M)
<1> DEFINE m == M[id + 1]
           freed == [ch EXCEPT !.memory = @ - ReservedBytes(m)]
           b == <<id, Assembled(ch.slices[id])>>
           processed == ProcessMessages(freed, {b})
           kept == processed.channel
           new == Finish(ch, id, m).channel
           S == DOMAIN ch.slices
           held == DOMAIN ch.messages
           Sum(s) == SumFunctionOnSet(Lengths(M), s)
           Reserved(s) == SumFunctionOnSet(Reserves(M), s)
<1>1. m \in Messages /\ id \in 0 .. Len(M) - 1 /\ b = <<id, m>>
  BY AssembledOK
<1>2. Size[m] \in Nat /\ ReservedBytes(m) \in Nat /\ Size[m] <= ReservedBytes(m)
  BY <1>1, BytesFacts
<1>3. S \in SUBSET (0 .. Len(M) - 1) /\ held \in SUBSET (0 .. Len(M) - 1)
  BY DEF ReceiveOK
<1>4. Weights(Reserves(M), S) /\ Sum(held) \in Nat /\ Reserved(S \ {id}) \in Nat
  BY <1>3, WeightsOfMessages
<1>5. Reserved(S) = ReservedBytes(m) + Reserved(S \ {id})
  <2>1. Reserves(M)[id] = ReservedBytes(m)
    BY <1>1 DEF Reserves
  <2>2. Reserved(S) = Reserves(M)[id] + Reserved(S \ {id})
    BY <1>4, SumRemove
  <2> QED BY <2>1, <2>2
<1>6. /\ DOMAIN freed = ReceiveFields /\ freed.ordered = ch.ordered
      /\ freed.messages = ch.messages /\ freed.oldest = ch.oldest /\ freed.received = ch.received
      /\ freed.slices = ch.slices /\ freed.memory = ch.memory - ReservedBytes(m)
  BY DEF ReceiveOK, ReceiveFields
<1>7. \A j \in DOMAIN ch.slices : j \in 0 .. Len(M) - 1 /\ ch.slices[j] \subseteq Pieces(M[j + 1])
  BY DEF ReceiveOK
<1>8. ch.memory = Sum(held) + Reserved(S) /\ ch.memory <= MaxReceiveMemory
  BY DEF ReceiveMemoryOK
<1>9. /\ new = IF ~ processed.ok THEN kept ELSE
                 [processed EXCEPT !.channel.slices = [j \in DOMAIN @ \ {id} |-> @[j]]].channel
      /\ DOMAIN processed = {"ok", "channel"}
  BY DEF Finish, ProcessMessages, Result
<1> HIDE DEF freed, Sum, Reserved
<1>10. /\ freed.memory = Sum(held) + Reserved(S \ {id}) /\ freed.memory \in Nat
       /\ freed.memory <= MaxReceiveMemory /\ freed.memory + Size[m] <= MaxReceiveMemory
  BY <1>2, <1>4, <1>5, <1>6, <1>8, ReceiveChannelAssumption
<1>11. ReceiveOK(freed, M, D)
  BY <1>6, <1>7, NewMemoryOK
<1>12. BatchOK({b}, M) /\ b[2] = m
  BY <1>1 DEF BatchOK
<1> HIDE DEF b, m
<1>13. processed.ok
  BY <1>10, <1>12, OneMessageFits
<1>14. Takes(freed, kept, M)
  BY <1>10, <1>11, <1>12, ProcessMessagesMemory, Zenon
<1>15. kept.memory + Sum(held) = freed.memory + Sum(DOMAIN kept.messages)
  BY <1>6, <1>14, Zenon DEF Takes, Sum
<1>16. ReceiveOK(kept, M, D)
  <2>1. \A c \in {b} : c[1] \in 0 .. Len(M) - 1 /\ c[2] = M[c[1] + 1]
    BY <1>12, SMTT(20) DEF BatchOK
  <2> QED BY <1>11, <2>1, ProcessMessagesOK
<1> HIDE DEF processed, new
<1>17. DOMAIN kept = ReceiveFields /\ DOMAIN kept.messages \in SUBSET (0 .. Len(M) - 1)
  BY <1>16 DEF ReceiveOK
<1>18. new = [kept EXCEPT !.slices = [j \in DOMAIN kept.slices \ {id} |-> kept.slices[j]]]
  BY <1>9, <1>13, <1>17 DEF ReceiveFields
<1> HIDE DEF kept
<1>19. /\ new.messages = kept.messages /\ new.memory = kept.memory
       /\ DOMAIN new.slices = S \ {id}
  BY <1>6, <1>14, <1>17, <1>18, SMTT(20) DEF ReceiveFields, Takes
<1>20. Sum(DOMAIN new.messages) \in Nat
  BY <1>17, <1>19, WeightsOfMessages, SMTT(20) DEF Sum
<1>21. new.memory = Sum(DOMAIN new.messages) + Reserved(S \ {id})
  <2>1. new.memory + Sum(held) = (Sum(held) + Reserved(S \ {id})) + Sum(DOMAIN new.messages)
    BY <1>10, <1>15, <1>19, SMTT(20)
  <2>2. new.memory \in Nat
    BY <1>14, <1>19 DEF Takes
  <2> HIDE DEF held, S
  <2> QED BY <1>4, <1>20, <2>1, <2>2, SMTT(20)
<1>22. new.memory <= MaxReceiveMemory
  BY <1>14, <1>19 DEF Takes
<1> QED BY <1>19, <1>21, <1>22, Zenon DEF ReceiveMemoryOK, Sum, Reserved, new, m

\* A constructor is opened only if there is memory for all its slices.
LEMMA OpenMemory ==
  ASSUME NEW M \in Seq(Messages), NEW D, NEW ch, ReceiveOK(ch, M, D), ReceiveMemoryOK(ch, M),
         NEW id \in 0 .. Len(M) - 1, NEW m, m = M[id + 1], NEW i,
         id \notin DOMAIN ch.slices => ch.memory + ReservedBytes(m) <= MaxReceiveMemory
  PROVE  /\ ReceiveMemoryOK(Open(ch, id, m), M)
         /\ ReceiveMemoryOK(Collect(Open(ch, id, m), id, m, i), M)
<1> DEFINE opened == Open(ch, id, m)
           new == Collect(opened, id, m, i)
           S == DOMAIN ch.slices
           Sum(s) == SumFunctionOnSet(Lengths(M), s)
           Reserved(s) == SumFunctionOnSet(Reserves(M), s)
<1>1. DOMAIN ch = ReceiveFields /\ S \in SUBSET (0 .. Len(M) - 1)
      /\ DOMAIN ch.messages \in SUBSET (0 .. Len(M) - 1)
  BY DEF ReceiveOK
<1>2. ReceiveMemoryOK(opened, M) /\ DOMAIN opened = ReceiveFields
  <2>1. CASE id \in S
    BY <1>1, <2>1, SMTT(20) DEF Open
  <2>2. CASE id \notin S
    <3>1. /\ DOMAIN opened = ReceiveFields /\ opened.messages = ch.messages
          /\ DOMAIN opened.slices = S \cup {id} /\ opened.memory = ch.memory + ReservedBytes(m)
      BY <1>1, <2>2 DEF Open, ReceiveFields
    <3>2. Weights(Reserves(M), S) /\ Reserved(S) \in Nat /\ Sum(DOMAIN ch.messages) \in Nat
      BY <1>1, WeightsOfMessages, Zenon
    <3>3. Reserves(M)[id] = ReservedBytes(m) /\ ReservedBytes(m) \in Nat
      <4>1. m \in Messages
        OBVIOUS
      <4> QED BY <4>1, BytesFacts DEF Reserves
    <3>4. Reserved(S \cup {id}) = Reserves(M)[id] + Reserved(S)
      BY <2>2, <3>2, <3>3, SumAdd, Zenon
    <3>5. ch.memory = Sum(DOMAIN ch.messages) + Reserved(S)
      BY DEF ReceiveMemoryOK
    <3> HIDE DEF Sum, Reserved, opened
    <3>6. ch.memory + ReservedBytes(m) = Sum(DOMAIN ch.messages) + Reserved(S \cup {id})
      BY <3>2, <3>3, <3>4, <3>5, SMTT(20)
    <3>7. opened.memory = Sum(DOMAIN opened.messages) + Reserved(DOMAIN opened.slices)
      BY <3>1, <3>6
    <3>8. opened.memory <= MaxReceiveMemory
      BY <2>2, <3>1
    <3> QED BY <3>1, <3>7, <3>8 DEF ReceiveMemoryOK, Sum, Reserved
  <2> QED BY <2>1, <2>2
<1> HIDE DEF opened
<1>3. /\ new.messages = opened.messages /\ DOMAIN new.slices = DOMAIN opened.slices
      /\ new.memory = opened.memory
  BY <1>2 DEF Collect, ReceiveFields
<1>4. ReceiveMemoryOK(new, M)
  BY <1>2, <1>3, Zenon DEF ReceiveMemoryOK
<1> QED BY <1>2, <1>4 DEF opened

LEMMA ProcessSliceMemory ==
  ASSUME NEW M \in Seq(Messages), NEW D, NEW ch, ReceiveOK(ch, M, D), ReceiveMemoryOK(ch, M),
         NEW id \in 0 .. Len(M) - 1, NEW i \in Indices(M[id + 1])
  PROVE  ReceiveMemoryOK(ProcessSlice(ch, id, M[id + 1], i).channel, M)
<1> DEFINE m == M[id + 1]
           opened == Open(ch, id, m)
           new == Collect(opened, id, m, i)
           finished == Finish(new, id, m)
           r == ProcessSlice(ch, id, m, i)
           Fits == id \notin DOMAIN ch.slices => ch.memory + ReservedBytes(m) <= MaxReceiveMemory
<1>1. ReceiveOK(new, M, D) /\ id \in DOMAIN new.slices
  BY CollectOK, Zenon
<1>2. ch.memory \in Nat /\ ReservedBytes(m) \in Nat
  <2>1. m \in Messages
    OBVIOUS
  <2>2. DOMAIN ch.messages \in SUBSET (0 .. Len(M) - 1) /\ DOMAIN ch.slices \in SUBSET (0 .. Len(M) - 1)
    BY DEF ReceiveOK
  <2>3. /\ SumFunctionOnSet(Lengths(M), DOMAIN ch.messages) \in Nat
        /\ SumFunctionOnSet(Reserves(M), DOMAIN ch.slices) \in Nat
    BY <2>2, WeightsOfMessages
  <2> QED BY <2>1, <2>3, BytesFacts DEF ReceiveMemoryOK
<1>3. \/ r = Result(TRUE, ch) \/ r = Result(FALSE, ch)
      \/ /\ ~ (id \notin DOMAIN ch.slices /\ ch.memory + ReservedBytes(m) > MaxReceiveMemory)
         /\ \/ r = Result(FALSE, opened)
            \/ Cardinality(new.slices[id]) = NumSlices(m) /\ r = finished
            \/ r = Result(TRUE, new)
  BY Zenon DEF ProcessSlice
<1>4. \/ r.channel = ch
      \/ Fits /\ \/ r.channel \in {opened, new}
                 \/ Cardinality(new.slices[id]) = NumSlices(m) /\ r = finished
  <2>1. ~ (id \notin DOMAIN ch.slices /\ ch.memory + ReservedBytes(m) > MaxReceiveMemory) => Fits
    BY <1>2, ReceiveChannelAssumption
  <2> HIDE DEF m, opened, new, r, finished, Fits
  <2> QED BY <1>3, <2>1 DEF Result
<1> HIDE DEF r, opened, new, finished, Fits, m
<1>5. ASSUME Fits PROVE ReceiveMemoryOK(opened, M) /\ ReceiveMemoryOK(new, M)
  BY <1>5, OpenMemory, Zenon DEF Fits, m, opened, new
<1>6. ASSUME Fits, Cardinality(new.slices[id]) = NumSlices(m), r = finished
      PROVE  ReceiveMemoryOK(r.channel, M)
  BY <1>1, <1>5, <1>6, FinishMemory, Zenon DEF m, finished
<1>7. ReceiveMemoryOK(r.channel, M)
  BY <1>4, <1>5, <1>6
<1> QED BY <1>7 DEF r, m

LEMMA SmallMessagesMemory ==
  ASSUME NEW M \in Seq(Messages), NEW D, NEW ch, ReceiveOK(ch, M, D), ReceiveMemoryOK(ch, M),
         NEW batch, BatchOK(batch, M)
  PROVE  ReceiveMemoryOK(ProcessMessages(ch, batch).channel, M)
<1> DEFINE new == ProcessMessages(ch, batch).channel
           held == DOMAIN ch.messages
           Sum(s) == SumFunctionOnSet(Lengths(M), s)
           reserved == SumFunctionOnSet(Reserves(M), DOMAIN ch.slices)
<1>1. held \in SUBSET (0 .. Len(M) - 1) /\ DOMAIN ch.slices \in SUBSET (0 .. Len(M) - 1)
  BY DEF ReceiveOK
<1>2. Sum(held) \in Nat /\ reserved \in Nat
  BY <1>1, WeightsOfMessages
<1>3. ch.memory = Sum(held) + reserved /\ ch.memory <= MaxReceiveMemory
  BY DEF ReceiveMemoryOK
<1> HIDE DEF new, Sum, reserved
<1>4. ch.memory \in Nat
  BY <1>2, <1>3
<1>5. Takes(ch, new, M)
  BY <1>3, <1>4, ProcessMessagesMemory DEF new
<1>6. new.memory + Sum(held) = ch.memory + Sum(DOMAIN new.messages) /\ new.memory \in Nat
  BY <1>5, Zenon DEF Takes, Sum
<1>7. Sum(DOMAIN new.messages) \in Nat
  <2>1. ReceiveOK(new, M, D)
    BY ProcessMessagesOK DEF BatchOK, new
  <2>2. DOMAIN new.messages \in SUBSET (0 .. Len(M) - 1)
    BY <2>1 DEF ReceiveOK
  <2> QED BY <2>2, WeightsOfMessages, Zenon DEF Sum
<1>8. new.memory = Sum(DOMAIN new.messages) + reserved
  BY <1>2, <1>3, <1>6, <1>7, SMTT(20)
<1>9. new.slices = ch.slices /\ new.memory <= MaxReceiveMemory
  BY <1>5 DEF Takes
<1> QED BY <1>8, <1>9, Zenon DEF ReceiveMemoryOK, Sum, reserved, new

LEMMA ReceiveMessageMemory ==
  ASSUME NEW M \in Seq(Messages), NEW D, NEW ch, ReceiveOK(ch, M, D), ReceiveMemoryOK(ch, M),
         NEW id \in Ready(ch)
  PROVE  ReceiveMemoryOK(ReceiveMessage(ch, id), M)
<1> DEFINE new == ReceiveMessage(ch, id)
           held == DOMAIN ch.messages
           Sum(s) == SumFunctionOnSet(Lengths(M), s)
           reserved == SumFunctionOnSet(Reserves(M), DOMAIN ch.slices)
<1>1. id \in held /\ id \in 0 .. Len(M) - 1 /\ ch.messages[id] = M[id + 1]
  BY ReadyFacts
<1>2. /\ new.slices = ch.slices /\ DOMAIN new.messages = held \ {id}
      /\ new.memory = ch.memory - Size[ch.messages[id]]
  BY DEF ReceiveMessage, ReceiveOK, ReceiveFields
<1>3. held \in SUBSET (0 .. Len(M) - 1) /\ DOMAIN ch.slices \in SUBSET (0 .. Len(M) - 1)
  BY DEF ReceiveOK
<1>4. /\ Weights(Lengths(M), held) /\ Sum(held) \in Nat /\ reserved \in Nat
      /\ Sum(held \ {id}) \in Nat
  BY <1>3, WeightsOfMessages, Zenon
<1>5. Lengths(M)[id] = Size[ch.messages[id]] /\ Lengths(M)[id] \in Nat
  BY <1>1, <1>4, Zenon DEF Lengths, Weights
<1>6. Sum(held) = Lengths(M)[id] + Sum(held \ {id})
  BY <1>1, <1>4, SumRemove, SMTT(20)
<1>7. ch.memory = Sum(held) + reserved /\ ch.memory <= MaxReceiveMemory
  BY DEF ReceiveMemoryOK
<1> HIDE DEF new, Sum, reserved, held
<1>8. new.memory = Sum(held \ {id}) + reserved /\ new.memory <= ch.memory
  BY <1>2, <1>4, <1>5, <1>6, <1>7, SMTT(20)
<1>9. new.memory <= MaxReceiveMemory
  BY <1>4, <1>7, <1>8, ReceiveChannelAssumption, SMTT(20)
<1> QED BY <1>2, <1>8, <1>9, Zenon DEF ReceiveMemoryOK, Sum, reserved, new

LEMMA GrowMemory ==
  ASSUME NEW M \in Seq(Messages), NEW m \in Messages, NEW D, NEW ch, ReceiveOK(ch, M, D),
         ReceiveMemoryOK(ch, M)
  PROVE  ReceiveMemoryOK(ch, Append(M, m))
<1>1. DOMAIN ch.messages \in SUBSET (0 .. Len(M) - 1) /\ DOMAIN ch.slices \in SUBSET (0 .. Len(M) - 1)
  BY DEF ReceiveOK
<1> QED BY <1>1, WeightsStay DEF ReceiveMemoryOK

\* The sums of MemoryIsAccounted.
LEMMA MemoryInUse ==
  ASSUME NEW M \in Seq(Messages)
  PROVE  /\ \A ch : SendOK(ch, M) =>
              SumFunction(MessageSizes(ch)) = SumFunctionOnSet(Lengths(M), DOMAIN ch.unacked)
         /\ \A ch, D : ReceiveOK(ch, M, D) =>
              /\ SumFunction([id \in DOMAIN ch.messages |-> Size[ch.messages[id]]])
                   = SumFunctionOnSet(Lengths(M), DOMAIN ch.messages)
              /\ SumFunction([id \in DOMAIN ch.slices |-> ReservedBytes(M[id + 1])])
                   = SumFunctionOnSet(Reserves(M), DOMAIN ch.slices)
<1>1. ASSUME NEW ch, SendOK(ch, M)
      PROVE  SumFunction(MessageSizes(ch)) = SumFunctionOnSet(Lengths(M), DOMAIN ch.unacked)
  <2> DEFINE S == DOMAIN ch.unacked
  <2>1. S \in SUBSET (0 .. Len(M) - 1)
    BY <1>1 DEF SendOK
  <2>2. \A id \in S : MessageSizes(ch)[id] = Lengths(M)[id]
    BY <1>1, <2>1 DEF MessageSizes, Lengths, SendOK
  <2>3. IsFiniteSet(S)
    BY <2>1, WeightsOfMessages DEF Weights
  <2>4. DOMAIN MessageSizes(ch) = S
    BY DEF MessageSizes
  <2> QED BY <2>2, <2>3, <2>4, SumSame DEF SumFunction
<1>2. ASSUME NEW ch, NEW D, ReceiveOK(ch, M, D)
      PROVE  /\ SumFunction([id \in DOMAIN ch.messages |-> Size[ch.messages[id]]])
                  = SumFunctionOnSet(Lengths(M), DOMAIN ch.messages)
             /\ SumFunction([id \in DOMAIN ch.slices |-> ReservedBytes(M[id + 1])])
                  = SumFunctionOnSet(Reserves(M), DOMAIN ch.slices)
  <2> DEFINE H == DOMAIN ch.messages
             S == DOMAIN ch.slices
             f == [id \in H |-> Size[ch.messages[id]]]
             g == [id \in S |-> ReservedBytes(M[id + 1])]
  <2>1. H \in SUBSET (0 .. Len(M) - 1) /\ S \in SUBSET (0 .. Len(M) - 1)
    BY <1>2 DEF ReceiveOK
  <2>2. \A id \in H : f[id] = Lengths(M)[id]
    BY <1>2, <2>1 DEF Lengths, ReceiveOK
  <2>3. \A id \in S : g[id] = Reserves(M)[id]
    BY <2>1 DEF Reserves
  <2>4. DOMAIN f = H /\ DOMAIN g = S
    OBVIOUS
  <2>5. IsFiniteSet(H) /\ IsFiniteSet(S)
    BY <2>1, WeightsOfMessages DEF Weights
  <2> HIDE DEF f, g
  <2>6. SumFunctionOnSet(f, H) = SumFunctionOnSet(Lengths(M), H)
    BY <2>2, <2>5, SumSame
  <2>7. SumFunctionOnSet(g, S) = SumFunctionOnSet(Reserves(M), S)
    BY <2>3, <2>5, SumSame
  <2>8. SumFunction(f) = SumFunctionOnSet(Lengths(M), H)
    BY <2>4, <2>6 DEF SumFunction
  <2>9. SumFunction(g) = SumFunctionOnSet(Reserves(M), S)
    BY <2>4, <2>7 DEF SumFunction
  <2> QED BY <2>8, <2>9 DEF f, g
<1> QED BY <1>1, <1>2, Zenon
=============================================================================
