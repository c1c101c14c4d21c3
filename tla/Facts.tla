-------------------------------- MODULE Facts -------------------------------
(* Facts about numbers, recursion and finite sums that the proofs of several *)
(* components rest on.  LeastElement is how they reason about every element   *)
(* of a list or every step of a recursion: the least counterexample does not *)
(* exist.  Recursion gives a recursive function its equation, and what is    *)
(* said of sums is said of a function and the set it is summed over.         *)
EXTENDS Integers, FiniteSets, Functions, FiniteSetTheorems, WellFoundedInduction, TLAPS

\* Every set of naturals that is not empty has a least element.
LEMMA LeastElement ==
  ASSUME NEW S \in SUBSET Nat, S # {}
  PROVE  \E m \in S : \A n \in S : m <= n
<1> DEFINE Less == {ss \in Nat \X Nat : ss[1] < ss[2]}
<1>1. IsWellFoundedOn(Less, Nat)
  BY NatLessThanWellFounded, Zenon DEF OpToRel
<1>2. PICK m \in S : \A n \in S : <<n, m>> \notin Less
  <2> HIDE DEF Less
  <2> QED BY <1>1, WFMin
<1>3. ASSUME NEW n \in S PROVE m <= n
  <2>1. n \in Nat /\ m \in Nat
    OBVIOUS
  <2>2. n < m => <<n, m>> \in Less
    BY <2>1
  <2>3. ~(n < m)
    BY <1>2, <2>2
  <2> QED BY <2>1, <2>3
<1> QED BY <1>3

\* What is false of some element is false of one of least size.
LEMMA LeastSized ==
  ASSUME NEW D, NEW size \in [D -> Nat], NEW Bad \in SUBSET D, Bad # {}
  PROVE  \E d \in Bad : \A e \in Bad : size[d] <= size[e]
<1> DEFINE sizes == {size[d] : d \in Bad}
<1>1. sizes \in SUBSET Nat /\ sizes # {}
  OBVIOUS
<1>2. PICK m \in sizes : \A n \in sizes : m <= n
  <2> HIDE DEF sizes
  <2> QED BY <1>1, LeastElement
<1> QED BY <1>2

\* A recursion on D with values in R: Out where it stops, and elsewhere Then of the
\* value at the next argument, which is smaller.
Recursive(D, R, Stop, Out, Next, Then, size) ==
  /\ Stop \in SUBSET D /\ Out \in [D -> R] /\ Next \in [D -> D] /\ Then \in [D \X R -> R]
  /\ size \in [D -> Nat] /\ \A d \in D \ Stop : size[Next[d]] < size[d]

\* It has one solution.
LEMMA Recursion ==
  ASSUME NEW D, NEW R, NEW Stop, NEW Out, NEW Next, NEW Then, NEW size,
         Recursive(D, R, Stop, Out, Next, Then, size)
  PROVE  \E w \in [D -> R] :
           /\ \A d \in D : w[d] = IF d \in Stop THEN Out[d] ELSE Then[<<d, w[Next[d]]>>]
           /\ \A v : (\A d \in D : v[d] = IF d \in Stop THEN Out[d] ELSE Then[<<d, v[Next[d]]>>])
                     => \A d \in D : v[d] = w[d]
<1> USE DEF Recursive
<1> DEFINE Holds(f, d) == f[d] = IF d \in Stop THEN Out[d] ELSE Then[<<d, f[Next[d]]>>]
           Solves(f, n) == \A d \in D : size[d] < n => Holds(f, d)
<1>1. ASSUME NEW n \in Nat PROVE \E f \in [D -> R] : Solves(f, n)
  <2> DEFINE Fails == {m \in Nat : ~ \E f \in [D -> R] : Solves(f, m)}
  <2> SUFFICES ASSUME Fails # {} PROVE FALSE
    OBVIOUS
  <2>1. PICK m \in Fails : \A k \in Fails : m <= k
    <3>1. Fails \in SUBSET Nat
      OBVIOUS
    <3> HIDE DEF Fails
    <3> QED BY <3>1, LeastElement
  <2>2. m # 0
    <3>1. Solves(Out, 0)
      BY DEF Solves
    <3> QED BY <2>1, <3>1
  <2>3. PICK f \in [D -> R] : Solves(f, m - 1)
    BY <2>1, <2>2
  <2> DEFINE g == [d \in D |-> IF d \in Stop THEN Out[d] ELSE Then[<<d, f[Next[d]]>>]]
  <2>4. g \in [D -> R]
    OBVIOUS
  <2>5. ASSUME NEW d \in D, size[d] < m - 1 PROVE g[d] = f[d]
    BY <2>3, <2>5
  <2>6. ASSUME NEW d \in D, size[d] < m PROVE Holds(g, d)
    <3>1. CASE d \in Stop
      BY <3>1
    <3>2. CASE d \notin Stop
      <4>1. Next[d] \in D /\ size[Next[d]] < m - 1
        BY <2>1, <2>6, <3>2
      <4>2. g[Next[d]] = f[Next[d]]
        BY <2>5, <4>1
      <4> QED BY <3>2, <4>2
    <3> QED BY <3>1, <3>2
  <2>7. Solves(g, m)
    <3> HIDE DEF g, Holds
    <3> QED BY <2>6
  <2> QED BY <2>1, <2>4, <2>7
<1>2. ASSUME NEW f, NEW g, NEW m \in Nat, Solves(f, m), Solves(g, m),
             NEW e \in D, size[e] < m
      PROVE  f[e] = g[e]
  <2> DEFINE Differ == {d \in D : size[d] < m /\ f[d] # g[d]}
  <2> SUFFICES ASSUME Differ # {} PROVE FALSE
    BY <1>2
  <2>1. PICK d \in Differ : \A k \in Differ : size[d] <= size[k]
    <3>1. Differ \in SUBSET D
      OBVIOUS
    <3> HIDE DEF Differ
    <3> QED BY <3>1, LeastSized
  <2>2. d \notin Stop
    BY <1>2, <2>1
  <2>3. Next[d] \in D /\ size[Next[d]] < m /\ Next[d] \notin Differ
    BY <2>1, <2>2
  <2>4. f[Next[d]] = g[Next[d]]
    BY <2>3
  <2> QED BY <1>2, <2>1, <2>4
<1> DEFINE S(n) == CHOOSE f \in [D -> R] : Solves(f, n)
           w == [d \in D |-> S(size[d] + 1)[d]]
<1>3. ASSUME NEW n \in Nat PROVE S(n) \in [D -> R] /\ Solves(S(n), n)
  <2> HIDE DEF Solves
  <2> QED BY <1>1
<1> HIDE DEF S
<1>4. ASSUME NEW d \in D PROVE w[d] \in R
  BY <1>3
<1>5. ASSUME NEW d \in D, NEW n \in Nat, size[d] < n PROVE w[d] = S(n)[d]
  <2>1. Solves(S(n), size[d] + 1)
    <3>1. Solves(S(n), n)
      <4> HIDE DEF Solves
      <4> QED BY <1>3
    <3>2. \A e \in D : size[e] < size[d] + 1 => size[e] < n
      BY <1>5
    <3> HIDE DEF Holds
    <3> QED BY <3>1, <3>2
  <2>2. Solves(S(size[d] + 1), size[d] + 1)
    BY <1>3
  <2>3. S(size[d] + 1)[d] = S(n)[d]
    <3> HIDE DEF Solves
    <3> QED BY <1>2, <2>1, <2>2
  <2> QED BY <2>3
<1>6. ASSUME NEW d \in D PROVE Holds(w, d)
  <2>1. Holds(S(size[d] + 1), d) /\ size[d] + 1 \in Nat
    <3>1. size[d] + 1 \in Nat /\ size[d] < size[d] + 1
      OBVIOUS
    <3>2. Solves(S(size[d] + 1), size[d] + 1)
      <4> HIDE DEF Solves
      <4> QED BY <1>3, <3>1
    <3> HIDE DEF Holds
    <3> QED BY <3>1, <3>2
  <2>2. w[d] = S(size[d] + 1)[d]
    OBVIOUS
  <2>3. CASE d \in Stop
    BY <2>1, <2>2, <2>3
  <2>4. CASE d \notin Stop
    <3>1. Next[d] \in D /\ size[Next[d]] < size[d] + 1
      BY <2>4
    <3>2. w[Next[d]] = S(size[d] + 1)[Next[d]]
      <4> HIDE DEF w
      <4> QED BY <1>5, <2>1, <3>1
    <3> QED BY <2>1, <2>2, <2>4, <3>2
  <2> QED BY <2>3, <2>4
<1>7. ASSUME NEW v, \A d \in D : Holds(v, d), NEW d \in D PROVE v[d] = w[d]
  <2>1. Solves(v, size[d] + 1) /\ Solves(w, size[d] + 1)
    <3> HIDE DEF Holds, w
    <3> QED BY <1>6, <1>7
  <2> HIDE DEF w, Solves
  <2> QED BY <1>2, <2>1
<1>8. w \in [D -> R]
  BY <1>4
<1> HIDE DEF w
<1> QED BY <1>6, <1>7, <1>8

\* Induction over numbers, and over the subsets of a finite set.
LEMMA NatInduct ==
  ASSUME NEW Good, 0 \in Good, \A n \in Nat : n \in Good => n + 1 \in Good
  PROVE  Nat \subseteq Good
<1> DEFINE Bad == Nat \ Good
<1> SUFFICES ASSUME Bad # {} PROVE FALSE
  OBVIOUS
<1>1. PICK m \in Bad : \A n \in Bad : m <= n
  <2>1. Bad \in SUBSET Nat
    OBVIOUS
  <2> HIDE DEF Bad
  <2> QED BY <2>1, LeastElement
<1>2. m - 1 \in Nat /\ m - 1 \notin Bad
  BY <1>1
<1> QED BY <1>1, <1>2

LEMMA SubsetInduct ==
  ASSUME NEW S, IsFiniteSet(S), NEW Good, {} \in Good,
         \A T \in SUBSET S : \A x \in T : T \ {x} \in Good => T \in Good
  PROVE  SUBSET S \subseteq Good
<1> DEFINE Bad == (SUBSET S) \ Good
           size == [T \in SUBSET S |-> Cardinality(T)]
<1> SUFFICES ASSUME Bad # {} PROVE FALSE
  OBVIOUS
<1>1. size \in [SUBSET S -> Nat]
  <2>1. \A T \in SUBSET S : Cardinality(T) \in Nat
    BY FS_Subset, FS_CardinalityType
  <2> QED BY <2>1
<1>2. PICK T \in Bad : \A U \in Bad : size[T] <= size[U]
  <2>1. Bad \in SUBSET (SUBSET S)
    OBVIOUS
  <2> HIDE DEF Bad, size
  <2> QED BY <1>1, <2>1, LeastSized
<1>3. PICK x \in T : TRUE
  BY <1>2
<1>4. /\ T \ {x} \in SUBSET S /\ size[T \ {x}] \in Nat /\ size[T] \in Nat
      /\ size[T \ {x}] < size[T]
  <2>1. Cardinality(T \ {x}) = Cardinality(T) - 1 /\ Cardinality(T) \in Nat
    BY <1>2, <1>3, FS_Subset, FS_RemoveElement, FS_CardinalityType
  <2>2. T \in SUBSET S /\ T \ {x} \in SUBSET S
    BY <1>2
  <2>3. size[T] = Cardinality(T) /\ size[T \ {x}] = Cardinality(T \ {x})
    BY <2>2
  <2>4. size[T] \in Nat /\ size[T \ {x}] \in Nat
    <3> HIDE DEF size
    <3> QED BY <1>1, <2>2
  <2> HIDE DEF size
  <2> QED BY <2>1, <2>2, <2>3, <2>4
<1>5. T \ {x} \notin Bad
  <2> HIDE DEF Bad, size
  <2> QED BY <1>2, <1>4
<1> QED BY <1>2, <1>3, <1>4, <1>5

-----------------------------------------------------------------------------
(* Folds *)

\* Any element.
AnyOf(T) == CHOOSE x \in T : TRUE

\* A fold of f over the subsets of S.
FoldTable(S, Op, base, f, w) ==
  /\ Op \in [Int \X Int -> Int] /\ f \in [S -> Int] /\ w \in [SUBSET S -> Int]
  /\ w[{}] = base
  /\ \A T \in SUBSET S : T # {} => w[T] = Op[<<f[AnyOf(T)], w[T \ {AnyOf(T)}]>>]

\* The order in which two are folded makes no difference.
Exchanges(Op) == \A a, b, c \in Int : Op[<<a, Op[<<b, c>>]>>] = Op[<<b, Op[<<a, c>>]>>]

\* What obeys the rule of such a table, on the subsets of T.
FoldRule(T, Op, base, f, v) ==
  /\ v[{}] = base
  /\ \A U \in SUBSET T : U # {} /\ v[U \ {AnyOf(U)}] \in Int
                          => v[U] = Op[<<f[AnyOf(U)], v[U \ {AnyOf(U)}]>>]

\* A fold over a finite set may take out any element first, when the order in which
\* two are taken makes no difference.
LEMMA FoldAnyFirst ==
  ASSUME NEW S, IsFiniteSet(S), NEW Op, NEW base, NEW f, NEW w, FoldTable(S, Op, base, f, w),
         Exchanges(Op), NEW T \in SUBSET S, NEW x \in T
  PROVE  w[T] = Op[<<f[x], w[T \ {x}]>>]
<1>0. SUFFICES ASSUME Op \in [Int \X Int -> Int], f \in [S -> Int], w \in [SUBSET S -> Int],
                    \A U \in SUBSET S :
                      U # {} => w[U] = Op[<<f[AnyOf(U)], w[U \ {AnyOf(U)}]>>]
             PROVE  w[T] = Op[<<f[x], w[T \ {x}]>>]
  BY DEF FoldTable
<1> DEFINE size == [U \in SUBSET S |-> Cardinality(U)]
           Bad == {U \in SUBSET S : \E y \in U : w[U] # Op[<<f[y], w[U \ {y}]>>]}
<1>1. size \in [SUBSET S -> Nat]
  <2>1. \A U \in SUBSET S : Cardinality(U) \in Nat
    BY FS_Subset, FS_CardinalityType
  <2> QED BY <2>1
<1> SUFFICES ASSUME Bad # {} PROVE FALSE
  OBVIOUS
<1>2. PICK U \in Bad : \A V \in Bad : size[U] <= size[V]
  <2>1. Bad \in SUBSET (SUBSET S)
    OBVIOUS
  <2> HIDE DEF Bad, size
  <2> QED BY <1>1, <2>1, LeastSized
<1>3. PICK y \in U : w[U] # Op[<<f[y], w[U \ {y}]>>]
  BY <1>2
<1> DEFINE c == AnyOf(U)
<1>4. U \in SUBSET S /\ c \in U /\ c # y
  <2>1. AnyOf(U) \in U
    BY <1>3 DEF AnyOf
  <2>2. w[U] = Op[<<f[c], w[U \ {c}]>>]
    BY <1>0, <1>2, <1>3
  <2> QED BY <1>2, <1>3, <2>1, <2>2
<1> HIDE DEF c
<1>5. ASSUME NEW z \in U PROVE \A v \in U \ {z} : w[U \ {z}] = Op[<<f[v], w[(U \ {z}) \ {v}]>>]
  <2>1. Cardinality(U \ {z}) = Cardinality(U) - 1 /\ Cardinality(U) \in Nat
    BY <1>4, FS_Subset, FS_RemoveElement, FS_CardinalityType
  <2>2. U \ {z} \in SUBSET S /\ size[U \ {z}] < size[U]
    BY <1>4, <2>1
  <2>3. U \ {z} \notin Bad
    <3>1. size[U] \in Nat /\ size[U \ {z}] \in Nat
      BY <1>1, <1>4, <2>2
    <3> HIDE DEF Bad, size
    <3> QED BY <1>2, <2>2, <3>1
  <2> HIDE DEF size
  <2> QED BY <2>2, <2>3
<1> DEFINE rest == U \ {y, c}
<1>6. w[U \ {c}] = Op[<<f[y], w[rest]>>]
  <2>1. (U \ {c}) \ {y} = rest /\ y \in U \ {c}
    BY <1>3, <1>4
  <2> HIDE DEF rest
  <2> QED BY <1>0, <1>4, <1>5, <2>1
<1>7. w[U \ {y}] = Op[<<f[c], w[rest]>>]
  <2>1. (U \ {y}) \ {c} = rest /\ c \in U \ {y}
    BY <1>3, <1>4
  <2> HIDE DEF rest
  <2> QED BY <1>0, <1>3, <1>5, <2>1
<1>8. w[U] = Op[<<f[c], w[U \ {c}]>>]
  BY <1>0, <1>4 DEF c
<1>9. f[c] \in Int /\ f[y] \in Int /\ w[rest] \in Int
  BY <1>0, <1>3, <1>4
<1> HIDE DEF rest, Bad
<1>10. Op[<<f[c], Op[<<f[y], w[rest]>>]>>] = Op[<<f[y], Op[<<f[c], w[rest]>>]>>]
  BY <1>9 DEF Exchanges
<1>11. w[U] = Op[<<f[y], w[U \ {y}]>>]
  BY <1>6, <1>7, <1>8, <1>10
<1> QED BY <1>3, <1>11

\* There is one such table, and what obeys its rule agrees with it.
LEMMA FoldTableExists ==
  ASSUME NEW S, IsFiniteSet(S), NEW Op \in [Int \X Int -> Int], NEW base \in Int,
         NEW f \in [S -> Int]
  PROVE  \E w : FoldTable(S, Op, base, f, w)
<1> DEFINE D == SUBSET S
           R == Int
           Stop == {{}}
           Out == [T \in D |-> base]
           Rest == [T \in D |-> T \ {AnyOf(T)}]
           Then == [p \in D \X R |-> IF p[1] = {} THEN base ELSE Op[<<f[AnyOf(p[1])], p[2]>>]]
           size == [T \in D |-> Cardinality(T)]
<1>1. \A T \in SUBSET S : T # {} => AnyOf(T) \in T
  BY DEF AnyOf
<1>2. Then \in [D \X R -> R]
  BY <1>1
<1>3. size \in [D -> Nat]
  <2>1. \A T \in SUBSET S : Cardinality(T) \in Nat
    BY FS_Subset, FS_CardinalityType
  <2> QED BY <2>1
<1>4. \A T \in D \ Stop : size[Rest[T]] < size[T]
  <2> SUFFICES ASSUME NEW T \in SUBSET S, T # {} PROVE size[Rest[T]] < size[T]
    OBVIOUS
  <2>1. Cardinality(T \ {AnyOf(T)}) = Cardinality(T) - 1 /\ Cardinality(T) \in Nat
    BY <1>1, FS_Subset, FS_RemoveElement, FS_CardinalityType
  <2> QED BY <2>1
<1>5. Stop \in SUBSET D /\ Out \in [D -> R] /\ Rest \in [D -> D]
  OBVIOUS
<1>6. Recursive(D, R, Stop, Out, Rest, Then, size)
  <2> HIDE DEF D, R, Stop, Out, Rest, Then, size
  <2> QED BY <1>2, <1>3, <1>4, <1>5 DEF Recursive
<1>7. PICK w \in [D -> R] :
        \A T \in D : w[T] = IF T \in Stop THEN Out[T] ELSE Then[<<T, w[Rest[T]]>>]
  <2> HIDE DEF D, R, Stop, Out, Rest, Then, size
  <2> QED BY <1>6, Recursion
<1>8. \A T \in SUBSET S : T # {} => w[T] = Op[<<f[AnyOf(T)], w[T \ {AnyOf(T)}]>>]
  BY <1>7
<1>9. w[{}] = base
  BY <1>7
<1>10. FoldTable(S, Op, base, f, w)
  BY <1>7, <1>8, <1>9 DEF FoldTable
<1> QED BY <1>10

LEMMA FoldTableIsUnique ==
  ASSUME NEW S, IsFiniteSet(S), NEW Op, NEW base, NEW f, NEW w, FoldTable(S, Op, base, f, w),
         NEW T \in SUBSET S, NEW v, FoldRule(T, Op, base, f, v)
  PROVE  v[T] = w[T]
<1>0. /\ v[{}] = base
      /\ \A U \in SUBSET T : U # {} /\ v[U \ {AnyOf(U)}] \in Int
                              => v[U] = Op[<<f[AnyOf(U)], v[U \ {AnyOf(U)}]>>]
  BY DEF FoldRule
<1> DEFINE Bad == {U \in SUBSET T : v[U] # w[U]}
           size == [U \in SUBSET S |-> Cardinality(U)]
<1>1. w \in [SUBSET S -> Int] /\ w[{}] = base
      /\ \A U \in SUBSET S : U # {} => w[U] = Op[<<f[AnyOf(U)], w[U \ {AnyOf(U)}]>>]
  BY DEF FoldTable
<1>2. size \in [SUBSET S -> Nat]
  <2>1. \A U \in SUBSET S : Cardinality(U) \in Nat
    BY FS_Subset, FS_CardinalityType
  <2> QED BY <2>1
<1> SUFFICES ASSUME Bad # {} PROVE FALSE
  OBVIOUS
<1>3. PICK U \in Bad : \A V \in Bad : size[U] <= size[V]
  <2>1. Bad \in SUBSET (SUBSET S)
    OBVIOUS
  <2> HIDE DEF Bad, size
  <2> QED BY <1>2, <2>1, LeastSized
<1>4. U \in SUBSET T /\ U \in SUBSET S /\ U # {}
  BY <1>0, <1>1, <1>3
<1> DEFINE V == U \ {AnyOf(U)}
<1>5. V \in SUBSET T /\ V \in SUBSET S /\ size[V] < size[U]
  <2>1. AnyOf(U) \in U
    BY <1>4 DEF AnyOf
  <2>2. Cardinality(V) = Cardinality(U) - 1 /\ Cardinality(U) \in Nat
    BY <1>4, <2>1, FS_Subset, FS_RemoveElement, FS_CardinalityType
  <2> QED BY <1>4, <2>2
<1>6. V \notin Bad
  <2>1. size[U] \in Nat /\ size[V] \in Nat
    <3> HIDE DEF size, V
    <3> QED BY <1>2, <1>4, <1>5
  <2> HIDE DEF Bad, size, V
  <2> QED BY <1>3, <1>5, <2>1
<1>7. v[V] = w[V] /\ w[V] \in Int
  BY <1>1, <1>5, <1>6
<1>8. v[U] = Op[<<f[AnyOf(U)], v[V]>>] /\ w[U] = Op[<<f[AnyOf(U)], w[V]>>]
  BY <1>0, <1>1, <1>4, <1>7
<1> QED BY <1>3, <1>7, <1>8
-----------------------------------------------------------------------------
(* Sums *)

SumOf(f, T) == SumFunctionOnSet(f, T)
Plus == [p \in Int \X Int |-> p[1] + p[2]]

\* What a sum is: nothing for no element, and any one element and the sum of the rest.
LEMMA SumFacts ==
  ASSUME NEW S, IsFiniteSet(S), NEW f \in [S -> Int]
  PROVE  /\ SumOf(f, {}) = 0
         /\ \A T \in SUBSET S :
              /\ SumOf(f, T) \in Int
              /\ \A x \in T : SumOf(f, T) = f[x] + SumOf(f, T \ {x})
<1>1. Plus \in [Int \X Int -> Int] /\ \A a, b \in Int : Plus[<<a, b>>] = a + b
  BY DEF Plus
<1>2. Exchanges(Plus)
  BY DEF Plus, Exchanges
<1>3. PICK w : FoldTable(S, Plus, 0, f, w)
  BY <1>1, FoldTableExists
<1>4. w \in [SUBSET S -> Int] /\ w[{}] = 0
  BY <1>3 DEF FoldTable
<1>5. ASSUME NEW T \in SUBSET S, NEW x \in T PROVE w[T] = f[x] + w[T \ {x}]
  <2>1. w[T] = Plus[<<f[x], w[T \ {x}]>>]
    BY <1>2, <1>3, FoldAnyFirst
  <2>2. f[x] \in Int /\ w[T \ {x}] \in Int
    BY <1>4
  <2> QED BY <1>1, <2>1, <2>2
<1>6. \A T \in SUBSET S : T # {} => AnyOf(T) \in T
  BY DEF AnyOf
<1>7. ASSUME NEW T \in SUBSET S PROVE w[T] = SumOf(f, T)
  <2> DEFINE Body(v) == [U \in SUBSET T |-> IF U = {} THEN 0 ELSE f[AnyOf(U)] + v[U \ {AnyOf(U)}]]
             it == CHOOSE v : v = Body(v)
  <2>1. SumOf(f, T) = it[T]
    BY DEF SumOf, SumFunctionOnSet, FoldFunctionOnSet, MapThenFoldSet, AnyOf
  <2>2. \E v : v = Body(v)
    <3> DEFINE v == [U \in SUBSET T |-> w[U]]
    <3>1. v = Body(v)
      BY <1>4, <1>5, <1>6
    <3> QED BY <3>1
  <2>3. it = Body(it)
    <3> HIDE DEF Body
    <3> QED BY <2>2
  <2>4. \A U \in SUBSET T : it[U] = IF U = {} THEN 0 ELSE f[AnyOf(U)] + it[U \ {AnyOf(U)}]
    <3> HIDE DEF it
    <3> QED BY <2>3
  <2> HIDE DEF it
  <2>5. \A U \in SUBSET T : U # {} /\ it[U \ {AnyOf(U)}] \in Int
                             => it[U] = Plus[<<f[AnyOf(U)], it[U \ {AnyOf(U)}]>>]
    <3> SUFFICES ASSUME NEW U \in SUBSET T, U # {}, it[U \ {AnyOf(U)}] \in Int
                 PROVE  it[U] = Plus[<<f[AnyOf(U)], it[U \ {AnyOf(U)}]>>]
      OBVIOUS
    <3>1. f[AnyOf(U)] \in Int
      BY <1>6
    <3> QED BY <1>1, <2>4, <3>1
  <2>6. it[{}] = 0
    BY <2>4
  <2>7. FoldRule(T, Plus, 0, f, it)
    BY <2>5, <2>6 DEF FoldRule
  <2>8. it[T] = w[T]
    BY <1>3, <2>7, FoldTableIsUnique
  <2> QED BY <2>1, <2>8
<1>8. SumOf(f, {}) = 0
  BY <1>4, <1>7
<1>9. ASSUME NEW T \in SUBSET S
      PROVE  SumOf(f, T) \in Int /\ \A x \in T : SumOf(f, T) = f[x] + SumOf(f, T \ {x})
  BY <1>4, <1>5, <1>7
<1> QED BY <1>8, <1>9

LEMMA SumSame ==
  ASSUME NEW S, IsFiniteSet(S), NEW f \in [S -> Int], NEW R, IsFiniteSet(R), NEW g \in [R -> Int],
         NEW T, T \subseteq S, T \subseteq R, \A x \in T : f[x] = g[x]
  PROVE  SumOf(f, T) = SumOf(g, T)
<1> DEFINE Good == {U \in SUBSET T : SumOf(f, U) = SumOf(g, U)}
<1>1. {} \in Good
  BY SumFacts
<1>2. ASSUME NEW U \in SUBSET T, NEW x \in U, U \ {x} \in Good PROVE U \in Good
  <2>1. /\ SumOf(f, U) = f[x] + SumOf(f, U \ {x}) /\ SumOf(g, U) = g[x] + SumOf(g, U \ {x})
    BY SumFacts
  <2> QED BY <1>2, <2>1
<1>3. IsFiniteSet(T)
  BY FS_Subset
<1>4. SUBSET T \subseteq Good
  <2> HIDE DEF Good
  <2> QED BY <1>1, <1>2, <1>3, SubsetInduct
<1> QED BY <1>4

LEMMA SumNat ==
  ASSUME NEW S, IsFiniteSet(S), NEW f \in [S -> Nat], NEW T, T \subseteq S
  PROVE  SumOf(f, T) \in Nat
<1> DEFINE Good == {U \in SUBSET S : SumOf(f, U) \in Nat}
<1>0. f \in [S -> Int]
  OBVIOUS
<1>1. {} \in Good
  BY <1>0, SumFacts
<1>2. ASSUME NEW U \in SUBSET S, NEW x \in U, U \ {x} \in Good PROVE U \in Good
  <2>1. SumOf(f, U) = f[x] + SumOf(f, U \ {x})
    BY <1>0, SumFacts
  <2> QED BY <1>2, <2>1
<1>4. SUBSET S \subseteq Good
  <2> HIDE DEF Good
  <2> QED BY <1>1, <1>2, SubsetInduct
<1> QED BY <1>4

LEMMA SumTimes ==
  ASSUME NEW S, IsFiniteSet(S), NEW f \in [S -> Int], NEW g \in [S -> Int], NEW k \in Int,
         \A x \in S : g[x] = k * f[x]
  PROVE  SumOf(g, S) = k * SumOf(f, S)
<1> DEFINE Good == {U \in SUBSET S : SumOf(g, U) = k * SumOf(f, U)}
<1>1. {} \in Good
  BY SumFacts
<1>2. ASSUME NEW U \in SUBSET S, NEW x \in U, U \ {x} \in Good PROVE U \in Good
  <2>1. /\ SumOf(f, U) = f[x] + SumOf(f, U \ {x}) /\ SumOf(g, U) = g[x] + SumOf(g, U \ {x})
        /\ SumOf(f, U \ {x}) \in Int /\ f[x] \in Int
    BY SumFacts
  <2>2. \A a, b \in Int : k * (a + b) = k * a + k * b
    OBVIOUS
  <2> QED BY <1>2, <2>1, <2>2
<1>4. SUBSET S \subseteq Good
  <2> HIDE DEF Good
  <2> QED BY <1>1, <1>2, SubsetInduct
<1> QED BY <1>4

LEMMA SumConstant ==
  ASSUME NEW S, IsFiniteSet(S), NEW f \in [S -> Int], NEW k \in Int, NEW T \in SUBSET S,
         \A x \in T : f[x] = k
  PROVE  SumOf(f, T) = k * Cardinality(T)
<1> DEFINE Good == {U \in SUBSET T : SumOf(f, U) = k * Cardinality(U)}
<1>1. {} \in Good
  BY SumFacts, FS_EmptySet
<1>2. ASSUME NEW U \in SUBSET T, NEW x \in U, U \ {x} \in Good PROVE U \in Good
  <2>1. SumOf(f, U) = k + SumOf(f, U \ {x})
    BY SumFacts
  <2>2. Cardinality(U \ {x}) = Cardinality(U) - 1 /\ Cardinality(U) \in Nat
    BY FS_Subset, FS_RemoveElement, FS_CardinalityType
  <2>3. \A n \in Nat : k * n = k + k * (n - 1)
    OBVIOUS
  <2> QED BY <1>2, <2>1, <2>2, <2>3
<1>3. IsFiniteSet(T)
  BY FS_Subset
<1>4. SUBSET T \subseteq Good
  <2> HIDE DEF Good
  <2> QED BY <1>1, <1>2, <1>3, SubsetInduct
<1> QED BY <1>4

\* A sum may be taken class by class.
LEMMA SumByClass ==
  ASSUME NEW S, IsFiniteSet(S), NEW f \in [S -> Int], NEW K, IsFiniteSet(K), NEW class \in [S -> K]
  PROVE  SumOf(f, S) = SumOf([k \in K |-> SumOf(f, {x \in S : class[x] = k})], K)
<1> DEFINE Of(T) == [k \in K |-> SumOf(f, {x \in T : class[x] = k})]
           Good == {T \in SUBSET S : SumOf(f, T) = SumOf(Of(T), K)}
<1>0. ASSUME NEW T \in SUBSET S PROVE Of(T) \in [K -> Int]
  <2>1. \A k \in K : {x \in T : class[x] = k} \in SUBSET S
    OBVIOUS
  <2>2. \A U \in SUBSET S : SumOf(f, U) \in Int
    BY SumFacts
  <2> QED BY <2>1, <2>2
<1>1. {} \in Good
  <2>1. Of({}) \in [K -> Int] /\ \A k \in K : Of({})[k] = 0
    <3>1. \A k \in K : {x \in {} : class[x] = k} = {}
      OBVIOUS
    <3>2. SumOf(f, {}) = 0
      BY SumFacts
    <3> QED BY <1>0, <3>1, <3>2
  <2> HIDE DEF Of
  <2>2. SumOf(Of({}), K) = 0 * Cardinality(K)
    BY <2>1, SumConstant
  <2>3. Cardinality(K) \in Nat
    BY FS_CardinalityType
  <2>4. SumOf(Of({}), K) = 0
    BY <2>2, <2>3
  <2> QED BY <2>4, SumFacts
<1>2. ASSUME NEW T \in SUBSET S, NEW x \in T, T \ {x} \in Good PROVE T \in Good
  <2> DEFINE U == T \ {x}
             k == class[x]
  <2>1. Of(T) \in [K -> Int] /\ Of(U) \in [K -> Int] /\ k \in K
    BY <1>0
  <2>2. Of(T)[k] = f[x] + Of(U)[k]
    <3> DEFINE V == {y \in T : class[y] = k}
    <3>1. V \in SUBSET S /\ x \in V /\ V \ {x} = {y \in U : class[y] = k}
      OBVIOUS
    <3>2. SumOf(f, V) = f[x] + SumOf(f, V \ {x})
      <4> HIDE DEF V
      <4> QED BY <3>1, SumFacts
    <3> QED BY <3>1, <3>2
  <2>3. \A j \in K \ {k} : Of(T)[j] = Of(U)[j]
    <3>1. \A j \in K \ {k} : {y \in T : class[y] = j} = {y \in U : class[y] = j}
      OBVIOUS
    <3> QED BY <3>1
  <2>4. U \in SUBSET S /\ SumOf(f, U) = SumOf(Of(U), K)
    BY <1>2
  <2>5. SumOf(f, T) = f[x] + SumOf(f, U)
    BY SumFacts
  <2>6. SumOf(f, U) \in Int
    BY <2>4, SumFacts
  <2> HIDE DEF Of, U, k
  <2>7. SumOf(Of(T), K) = Of(T)[k] + SumOf(Of(T), K \ {k})
    BY <2>1, SumFacts
  <2>8. SumOf(Of(U), K) = Of(U)[k] + SumOf(Of(U), K \ {k}) /\ SumOf(Of(U), K \ {k}) \in Int
    BY <2>1, SumFacts
  <2>9. SumOf(Of(T), K \ {k}) = SumOf(Of(U), K \ {k})
    BY <2>1, <2>3, SumSame
  <2>10. f[x] \in Int /\ Of(U)[k] \in Int
    BY <2>1
  <2>11. SumOf(f, T) = SumOf(Of(T), K)
    BY <2>2, <2>4, <2>5, <2>6, <2>7, <2>8, <2>9, <2>10
  <2> QED BY <2>11
<1>3. SUBSET S \subseteq Good
  <2> HIDE DEF Good
  <2> QED BY <1>1, <1>2, SubsetInduct
<1> QED BY <1>3
-----------------------------------------------------------------------------
(* Products *)

Product(f, T) == FoldFunctionOnSet(LAMBDA n, m : n * m, 1, f, T)
Times == [p \in Int \X Int |-> p[1] * p[2]]

\* A product of positive numbers is positive and a multiple of each of them.
LEMMA ProductFacts ==
  ASSUME NEW S, IsFiniteSet(S), NEW T \in SUBSET S, NEW f \in [S -> Int],
         \A x \in T : f[x] \in Nat \ {0}
  PROVE  /\ Product(f, T) \in Nat \ {0}
         /\ \A x \in T : \E k \in Nat : Product(f, T) = f[x] * k
<1>1. Times \in [Int \X Int -> Int] /\ \A a, b \in Int : Times[<<a, b>>] = a * b
  BY DEF Times
<1>2. Exchanges(Times)
  <2>1. \A b, c \in Int : b * c \in Int
    OBVIOUS
  <2>2. \A a, b, c \in Int : a * (b * c) = b * (a * c)
    OBVIOUS
  <2> QED BY <1>1, <2>1, <2>2 DEF Exchanges
<1>3. PICK w : FoldTable(S, Times, 1, f, w)
  BY <1>1, FoldTableExists
<1>4. w \in [SUBSET S -> Int] /\ w[{}] = 1
  BY <1>3 DEF FoldTable
<1>5. ASSUME NEW U \in SUBSET S, NEW x \in U PROVE w[U] = f[x] * w[U \ {x}]
  <2>1. w[U] = Times[<<f[x], w[U \ {x}]>>]
    BY <1>2, <1>3, FoldAnyFirst
  <2>2. f[x] \in Int /\ w[U \ {x}] \in Int
    BY <1>4
  <2> QED BY <1>1, <2>1, <2>2
<1>6. \A U \in SUBSET S : U # {} => AnyOf(U) \in U
  BY DEF AnyOf
<1>7. w[T] = Product(f, T)
  <2> DEFINE Body(v) == [U \in SUBSET T |-> IF U = {} THEN 1 ELSE f[AnyOf(U)] * v[U \ {AnyOf(U)}]]
             it == CHOOSE v : v = Body(v)
  <2>1. Product(f, T) = it[T]
    BY DEF Product, FoldFunctionOnSet, MapThenFoldSet, AnyOf
  <2>2. \E v : v = Body(v)
    <3> DEFINE v == [U \in SUBSET T |-> w[U]]
    <3>1. v = Body(v)
      BY <1>4, <1>5, <1>6
    <3> QED BY <3>1
  <2>3. it = Body(it)
    <3> HIDE DEF Body
    <3> QED BY <2>2
  <2>4. \A U \in SUBSET T : it[U] = IF U = {} THEN 1 ELSE f[AnyOf(U)] * it[U \ {AnyOf(U)}]
    <3> HIDE DEF it
    <3> QED BY <2>3
  <2> HIDE DEF it
  <2>5. \A U \in SUBSET T : U # {} /\ it[U \ {AnyOf(U)}] \in Int
                             => it[U] = Times[<<f[AnyOf(U)], it[U \ {AnyOf(U)}]>>]
    <3> SUFFICES ASSUME NEW U \in SUBSET T, U # {}, it[U \ {AnyOf(U)}] \in Int
                 PROVE  it[U] = Times[<<f[AnyOf(U)], it[U \ {AnyOf(U)}]>>]
      OBVIOUS
    <3>1. f[AnyOf(U)] \in Int
      BY <1>6
    <3> QED BY <1>1, <2>4, <3>1
  <2>6. it[{}] = 1
    BY <2>4
  <2>7. FoldRule(T, Times, 1, f, it)
    BY <2>5, <2>6 DEF FoldRule
  <2>8. it[T] = w[T]
    BY <1>3, <2>7, FoldTableIsUnique
  <2> QED BY <2>1, <2>8
<1> DEFINE Good == {U \in SUBSET T : w[U] \in Nat \ {0}}
<1>8. SUBSET T \subseteq Good
  <2>1. {} \in Good
    BY <1>4
  <2>2. ASSUME NEW U \in SUBSET T, NEW x \in U, U \ {x} \in Good PROVE U \in Good
    <3>1. w[U] = f[x] * w[U \ {x}] /\ f[x] \in Nat \ {0} /\ w[U \ {x}] \in Nat \ {0}
      BY <1>5, <2>2
    <3>2. \A a, b \in Nat \ {0} : a * b \in Nat \ {0}
      OBVIOUS
    <3> QED BY <3>1, <3>2
  <2>3. IsFiniteSet(T)
    BY FS_Subset
  <2> HIDE DEF Good
  <2> QED BY <2>1, <2>2, <2>3, SubsetInduct
<1>9. ASSUME NEW x \in T PROVE \E k \in Nat : w[T] = f[x] * k
  <2>1. w[T \ {x}] \in Nat
    BY <1>8
  <2> QED BY <1>5, <2>1
<1> QED BY <1>7, <1>8, <1>9
=============================================================================
