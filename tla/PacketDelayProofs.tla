-------------------------- MODULE PacketDelayProofs -------------------------
(***************************************************************************)
(* Proofs about the packet delay: the memory limit counts exactly what is  *)
(* held, and the keyframe at which a delay is to end stays buffered, for   *)
(* every set of streams, delay, limit and encoder.                         *)
(***************************************************************************)
EXTENDS PacketDelay, FiniteSetTheorems, SequenceTheorems, WellFoundedInduction, TLAPS

----------------------------------------------------------------------------
(* Finite sets: a least element, a sorted sequence, folds.                 *)

\* A set of natural numbers has a least one.
LEMMA LeastNatural ==
  ASSUME NEW T \in SUBSET Nat, T # {}
  PROVE  \E n \in T : \A m \in T : n <= m
<1> DEFINE R == {pair \in Nat \X Nat : pair[1] < pair[2]}
<1>1. R = OpToRel(<, Nat)
  BY DEF OpToRel
<1>2. IsWellFoundedOn(R, Nat)
  BY <1>1, NatLessThanWellFounded
<1>3. PICK n \in T : \A m \in T : ~(<<m, n>> \in R)
  <2> HIDE DEF R
  <2> QED BY <1>2, WFMin
<1>4. ASSUME NEW m \in T PROVE n <= m
  <2>1. n \in Nat /\ m \in Nat
    OBVIOUS
  <2>2. ~(<<m, n>> \in R)
    BY <1>3
  <2> QED BY <2>1, <2>2
<1> QED BY <1>4

\* A finite set whose elements are ranked has one of the least rank.
LEMMA LeastRank ==
  ASSUME NEW S, IsFiniteSet(S), S # {}, NEW rank, \A x \in S : rank[x] \in Int
  PROVE  \E x \in S : \A y \in S : rank[x] <= rank[y]
<1> DEFINE Has(T) == \E x \in T : \A y \in T : rank[x] <= rank[y]
           Bad == {n \in Nat : \E T \in SUBSET S : T # {} /\ Cardinality(T) = n /\ ~Has(T)}
<1>1. SUFFICES ASSUME ~Has(S) PROVE FALSE
  OBVIOUS
<1>2. \A T \in SUBSET S : IsFiniteSet(T) /\ Cardinality(T) \in Nat
  BY FS_Subset, FS_CardinalityType
<1>3. Cardinality(S) \in Bad
  BY <1>1, <1>2
<1>4. PICK n \in Bad : \A m \in Bad : n <= m
  <2>1. Bad \in SUBSET Nat /\ Bad # {}
    BY <1>3
  <2> HIDE DEF Bad
  <2> QED BY <2>1, LeastNatural
<1>5. PICK T \in SUBSET S : T # {} /\ Cardinality(T) = n /\ ~Has(T)
  OBVIOUS
<1>6. PICK z \in T : TRUE
  BY <1>5
<1> DEFINE U == T \ {z}
<1>7. IsFiniteSet(U) /\ Cardinality(U) = n - 1 /\ U \in SUBSET S
  BY <1>2, <1>5, <1>6, FS_RemoveElement
<1>8. rank[z] \in Int /\ \A y \in T : y = z \/ y \in U
  BY <1>6
<1>9. U # {}
  <2> SUFFICES ASSUME U = {} PROVE FALSE
    OBVIOUS
  <2>1. \A y \in T : rank[z] <= rank[y]
    BY <1>8
  <2> QED BY <1>5, <1>6, <2>1
<1>10. Has(U)
  <2> SUFFICES ASSUME ~Has(U) PROVE FALSE
    OBVIOUS
  <2>1. n \in Nat /\ n - 1 \in Nat
    BY <1>2, <1>7
  <2>2. n - 1 \in Bad
    BY <1>7, <1>9, <2>1
  <2> HIDE DEF Bad
  <2> QED BY <1>4, <2>1, <2>2
<1>11. PICK x \in U : \A y \in U : rank[x] <= rank[y]
  BY <1>10
<1>12. \A y \in T : rank[y] \in Int
  OBVIOUS
<1> HIDE DEF U, Bad
<1>13. x \in T /\ z \in T
  BY <1>6 DEF U
<1>14. CASE rank[z] <= rank[x]
  <2>1. \A y \in T : rank[z] <= rank[y]
    BY <1>8, <1>11, <1>12, <1>13, <1>14
  <2> QED BY <1>5, <1>6, <2>1
<1>15. CASE rank[x] <= rank[z]
  <2>1. \A y \in T : rank[x] <= rank[y]
    BY <1>8, <1>11, <1>15
  <2> QED BY <1>5, <1>13, <2>1
<1> QED BY <1>12, <1>13, <1>14, <1>15

\* So has one that is ranked by one measure and then by another.
LEMMA LeastOfTwo ==
  ASSUME NEW S, IsFiniteSet(S), S # {}, NEW f, NEW g,
         \A x \in S : f[x] \in Int /\ g[x] \in Int
  PROVE  \E x \in S : \A y \in S : f[x] < f[y] \/ (f[x] = f[y] /\ g[x] <= g[y])
<1>1. PICK a \in S : \A y \in S : f[a] <= f[y]
  BY LeastRank
<1> DEFINE T == {x \in S : f[x] = f[a]}
<1>2. IsFiniteSet(T) /\ T # {} /\ \A x \in T : g[x] \in Int
  BY FS_Subset
<1>3. PICK x \in T : \A y \in T : g[x] <= g[y]
  <2> HIDE DEF T
  <2> QED BY <1>2, LeastRank
<1>4. ASSUME NEW y \in S PROVE f[x] < f[y] \/ (f[x] = f[y] /\ g[x] <= g[y])
  <2>1. f[x] = f[a] /\ f[a] <= f[y] /\ f[a] \in Int /\ f[y] \in Int
    BY <1>1
  <2>2. CASE f[a] = f[y]
    BY <1>3, <2>1, <2>2
  <2>3. CASE f[a] < f[y]
    BY <2>1, <2>3
  <2> QED BY <2>1, <2>2, <2>3
<1> QED BY <1>4

\* The least and the largest of a finite set of integers.
LEMMA LeastOf ==
  ASSUME NEW S \in SUBSET Int, IsFiniteSet(S), S # {}
  PROVE  Least(S) \in S /\ \A x \in S : Least(S) <= x
<1>1. \E x \in S : \A y \in S : x <= y
  <2> DEFINE rank == [x \in S |-> x]
  <2>1. \A x \in S : rank[x] \in Int /\ rank[x] = x
    OBVIOUS
  <2>2. \E x \in S : \A y \in S : rank[x] <= rank[y]
    <3> HIDE DEF rank
    <3> QED BY <2>1, LeastRank
  <2> QED BY <2>2
<1> QED BY <1>1 DEF Least

\* A finite set of integers has a greatest member.
LEMMA LargestOf ==
  ASSUME NEW S \in SUBSET Int, IsFiniteSet(S), S # {}
  PROVE  Largest(S) \in S /\ \A x \in S : Largest(S) >= x
<1>1. \E x \in S : \A y \in S : x >= y
  <2> DEFINE rank == [x \in S |-> -x]
  <2>1. \A x \in S : rank[x] \in Int /\ rank[x] = -x
    OBVIOUS
  <2>2. PICK x \in S : \A y \in S : rank[x] <= rank[y]
    <3> HIDE DEF rank
    <3> QED BY <2>1, LeastRank
  <2>3. \A y \in S : x >= y
    BY <2>1, <2>2
  <2> QED BY <2>3
<1> QED BY <1>1 DEF Largest

\* The history f after packet p, as Shows has it.
Marked(f, p, state) ==
  IF state = "Error" THEN [f EXCEPT ![Timeline(p.stream)].seq = p.seq]
  ELSE [f EXCEPT ![Timeline(p.stream)] =
          [seq |-> p.seq, dts |-> {p.dts}, pts |-> {Largest(@.pts \cup {p.pts})}]]

\* The folds of the model: the element that comes last, and what is made of the others.
Taken(kind, set) == IF kind = "sum" THEN CHOOSE x \in set : TRUE ELSE Max(set)

Joined(kind, data, set, rest) ==
  IF kind = "sum" THEN data[CHOOSE x \in set : TRUE] + rest
  ELSE IF kind = "rounds" THEN (IF rest.more THEN DrainOne(rest.core, rest.out) ELSE rest)
  ELSE IF kind = "shows" THEN Marked(rest, data.packets[Max(set)], data.state)
  ELSE IF rest.more
       THEN Emit([rest.core EXCEPT !.pending = Tail(@), !.buffered = @ - 1],
                 data[Max(set)], rest.out)
       ELSE rest

Layer(kind, data, base, f, set) ==
  IF set = {} THEN base ELSE Joined(kind, data, set, f[set \ {Taken(kind, set)}])

IsFold(kind, data, base, f, D) == f = [T \in SUBSET D |-> Layer(kind, data, base, f, T)]

\* A fold over a finite set is well-founded.
LEMMA FoldExists ==
  ASSUME NEW kind, NEW data, NEW base, NEW D, IsFiniteSet(D),
         \A T \in SUBSET D : T # {} => Taken(kind, T) \in T
  PROVE  \E f : IsFold(kind, data, base, f, D)
<1> DEFINE Possible(n) ==
      \E f : \A T \in SUBSET D : Cardinality(T) <= n => f[T] = Layer(kind, data, base, f, T)
<1>1. \A T \in SUBSET D : IsFiniteSet(T) /\ Cardinality(T) \in Nat
                          /\ Cardinality(T) <= Cardinality(D)
  BY FS_Subset, FS_CardinalityType
<1>2. Possible(0)
  <2> DEFINE f == [T \in SUBSET D |-> base]
  <2>1. ASSUME NEW T \in SUBSET D, Cardinality(T) <= 0
        PROVE  f[T] = Layer(kind, data, base, f, T)
    <3>1. T = {}
      BY <1>1, <2>1, FS_EmptySet
    <3> QED BY <3>1 DEF Layer
  <2> HIDE DEF f
  <2> QED BY <2>1
<1>3. ASSUME NEW n \in Nat, Possible(n) PROVE Possible(n + 1)
  <2>1. PICK f : \A T \in SUBSET D :
                   Cardinality(T) <= n => f[T] = Layer(kind, data, base, f, T)
    BY <1>3
  <2> DEFINE g == [T \in SUBSET D |-> Layer(kind, data, base, f, T)]
  <2>2. ASSUME NEW T \in SUBSET D, Cardinality(T) <= n + 1
        PROVE  g[T] = Layer(kind, data, base, g, T)
    <3>1. CASE T = {}
      BY <3>1 DEF Layer
    <3>2. CASE T # {}
      <4> DEFINE U == T \ {Taken(kind, T)}
      <4>1. Taken(kind, T) \in T
        BY <3>2
      <4>2. Cardinality(U) = Cardinality(T) - 1 /\ U \in SUBSET D
        BY <1>1, <4>1, FS_RemoveElement
      <4>3. Cardinality(U) <= n
        BY <1>1, <2>2, <4>2
      <4>4. f[U] = Layer(kind, data, base, f, U) /\ g[U] = Layer(kind, data, base, f, U)
        BY <2>1, <4>2, <4>3
      <4>5. g[T] = Layer(kind, data, base, f, T)
        OBVIOUS
      <4> HIDE DEF g
      <4> QED BY <4>4, <4>5 DEF Layer
    <3> QED BY <3>1, <3>2
  <2> HIDE DEF g
  <2> QED BY <2>2
<1>4. Possible(Cardinality(D))
  <2> DEFINE Bad == {n \in Nat : ~Possible(n)}
  <2>1. Bad = {}
    <3> SUFFICES ASSUME Bad # {} PROVE FALSE
      OBVIOUS
    <3>1. Bad \in SUBSET Nat
      OBVIOUS
    <3>2. PICK n \in Bad : \A m \in Bad : n <= m
      <4> HIDE DEF Bad
      <4> QED BY <3>1, LeastNatural
    <3> HIDE DEF Possible
    <3>3. n # 0
      BY <1>2
    <3>4. n - 1 \in Nat /\ Possible(n - 1)
      BY <3>2, <3>3
    <3> QED BY <1>3, <3>4
  <2> QED BY <2>1, FS_CardinalityType
<1>5. PICK g : \A T \in SUBSET D : g[T] = Layer(kind, data, base, g, T)
  BY <1>1, <1>4
<1> DEFINE f == [T \in SUBSET D |-> g[T]]
<1>6. ASSUME NEW T \in SUBSET D PROVE f[T] = Layer(kind, data, base, f, T)
  <2>1. CASE T = {}
    BY <1>5, <2>1 DEF Layer
  <2>2. CASE T # {}
    <3>1. g[T \ {Taken(kind, T)}] = f[T \ {Taken(kind, T)}]
      OBVIOUS
    <3>2. f[T] = Layer(kind, data, base, g, T)
      BY <1>5
    <3> HIDE DEF f
    <3> QED BY <3>1, <3>2 DEF Layer
  <2> QED BY <2>1, <2>2
<1>7. f = [T \in SUBSET D |-> f[T]]
  OBVIOUS
<1> HIDE DEF f
<1>8. f = [T \in SUBSET D |-> Layer(kind, data, base, f, T)]
  BY <1>6, <1>7
<1> QED BY <1>8 DEF IsFold

\* The largest of the first n numbers, as the folds over a sequence take it.
LEMMA MaxOfPrefix ==
  ASSUME NEW n \in Nat
  PROVE  /\ n > 0 => Max(1..n) = n /\ (1..n) \ {Max(1..n)} = 1..(n - 1)
         /\ \A T \in SUBSET (1..n) : T # {} => Max(T) \in T
<1>1. ASSUME n > 0 PROVE Max(1..n) = n
  <2>1. \E x \in 1..n : \A y \in 1..n : x >= y
    BY <1>1
  <2>2. Max(1..n) \in 1..n /\ \A y \in 1..n : Max(1..n) >= y
    BY <2>1 DEF Max
  <2>3. n \in 1..n
    BY <1>1
  <2> QED BY <2>2, <2>3
<1>2. ASSUME NEW T \in SUBSET (1..n), T # {} PROVE Max(T) \in T
  <2>1. IsFiniteSet(T)
    <3>1. IsFiniteSet(1..n)
      BY FS_Interval
    <3> QED BY <3>1, FS_Subset
  <2>2. Largest(T) \in T /\ \A x \in T : Largest(T) >= x
    BY <1>2, <2>1, LargestOf
  <2> QED BY <2>2 DEF Max
<1>3. ASSUME n > 0 PROVE (1..n) \ {n} = 1..(n - 1)
  BY <1>3
<1> QED BY <1>1, <1>2, <1>3

\* The sum of a function over a set of its arguments, one argument after the other.
SumOf(iter, f, D) ==
  iter = [T \in SUBSET D |-> IF T = {} THEN 0
                             ELSE LET x == CHOOSE x \in T : TRUE IN f[x] + iter[T \ {x}]]

\* The model's sum of a function unfolds argument by argument.
LEMMA SumUnfolds ==
  ASSUME NEW f, IsFiniteSet(DOMAIN f)
  PROVE  \E iter : SumOf(iter, f, DOMAIN f) /\ FoldFunction(+, 0, f) = iter[DOMAIN f]
<1> DEFINE D == DOMAIN f
<1>1. \A T \in SUBSET D : T # {} => Taken("sum", T) \in T
  BY DEF Taken
<1>2. PICK g : IsFold("sum", f, 0, g, D)
  <2>1. IsFiniteSet(D)
    OBVIOUS
  <2> HIDE DEF D
  <2> QED BY <1>1, <2>1, FoldExists
<1>3. [T \in SUBSET D |-> Layer("sum", f, 0, g, T)]
        = [T \in SUBSET D |-> IF T = {} THEN 0
                              ELSE LET x == CHOOSE x \in T : TRUE IN f[x] + g[T \ {x}]]
  BY DEF Layer, Joined, Taken
<1>4. SumOf(g, f, D)
  BY <1>2, <1>3 DEF SumOf, IsFold
<1>5. FoldFunction(+, 0, f) =
        (CHOOSE iter : iter = [T \in SUBSET D |-> IF T = {} THEN 0
            ELSE LET x == CHOOSE x \in T : TRUE IN f[x] + iter[T \ {x}]])[D]
  BY DEF FoldFunction, FoldFunctionOnSet, MapThenFoldSet
<1> DEFINE sum == CHOOSE iter : SumOf(iter, f, D)
<1>6. FoldFunction(+, 0, f) = sum[D]
  BY <1>5 DEF SumOf
<1>7. SumOf(sum, f, D)
  BY <1>4
<1> QED BY <1>6, <1>7

\* A sum of integers is one; of natural numbers it is one.
LEMMA SumTyped ==
  ASSUME NEW D, IsFiniteSet(D), NEW f, \A x \in D : f[x] \in Int, NEW F, SumOf(F, f, D)
  PROVE  /\ \A T \in SUBSET D : F[T] \in Int
         /\ (\A x \in D : f[x] >= 0) => F[D] >= 0
<1> DEFINE Good(T) == F[T] \in Int /\ ((\A x \in D : f[x] >= 0) => F[T] >= 0)
           Bad == {n \in Nat : \E T \in SUBSET D : Cardinality(T) = n /\ ~Good(T)}
<1>1. \A T \in SUBSET D : IsFiniteSet(T) /\ Cardinality(T) \in Nat
  BY FS_Subset, FS_CardinalityType
<1>2. Bad = {}
  <2> SUFFICES ASSUME Bad # {} PROVE FALSE
    OBVIOUS
  <2>1. PICK n \in Bad : \A m \in Bad : n <= m
    <3>1. Bad \in SUBSET Nat
      OBVIOUS
    <3> HIDE DEF Bad
    <3> QED BY <3>1, LeastNatural
  <2>2. PICK T \in SUBSET D : Cardinality(T) = n /\ ~Good(T)
    OBVIOUS
  <2>3. T # {}
    <3> SUFFICES ASSUME T = {} PROVE FALSE
      OBVIOUS
    <3>1. F[T] = 0
      BY DEF SumOf
    <3> QED BY <2>2, <3>1
  <2> DEFINE x == CHOOSE x \in T : TRUE
             U == T \ {x}
  <2>4. x \in T /\ x \in D
    BY <2>3
  <2>5. F[T] = f[x] + F[U] /\ U \in SUBSET D
    BY <2>3 DEF SumOf
  <2>6. Cardinality(U) = n - 1 /\ n \in Nat
    <3>1. IsFiniteSet(T) /\ Cardinality(T) \in Nat /\ Cardinality(T) = n
      BY <1>1, <2>2
    <3> HIDE DEF Bad, Good
    <3> QED BY <2>4, <3>1, FS_RemoveElement
  <2>7. Good(U)
    <3> SUFFICES ASSUME ~Good(U) PROVE FALSE
      OBVIOUS
    <3>1. n - 1 \in Nat
      BY <1>1, <2>5, <2>6
    <3>2. n - 1 \in Bad
      BY <2>5, <2>6, <3>1
    <3> HIDE DEF Bad
    <3> QED BY <2>1, <2>6, <3>1, <3>2
  <2> HIDE DEF x, U, Bad
  <2>8. Good(T)
    BY <2>4, <2>5, <2>7
  <2> QED BY <2>2, <2>8
<1>3. ASSUME NEW T \in SUBSET D PROVE Good(T)
  <2> SUFFICES ASSUME ~Good(T) PROVE FALSE
    OBVIOUS
  <2>1. Cardinality(T) \in Bad
    BY <1>1
  <2> HIDE DEF Bad
  <2> QED BY <1>2, <2>1
<1> QED BY <1>3

\* h is the difference of f and g.
Differ(f, g, h, D) == \A x \in D : f[x] \in Int /\ g[x] \in Int /\ h[x] = f[x] - g[x]

\* The sum of differences is the difference of the sums.
LEMMA SumMinus ==
  ASSUME NEW D, IsFiniteSet(D), NEW f, NEW g, NEW h,
         Differ(f, g, h, D),
         NEW F, SumOf(F, f, D), NEW G, SumOf(G, g, D), NEW H, SumOf(H, h, D)
  PROVE  H[D] = F[D] - G[D]
<1>0. \A x \in D : f[x] \in Int /\ g[x] \in Int /\ h[x] = f[x] - g[x]
  BY DEF Differ
<1> DEFINE Good(T) == H[T] = F[T] - G[T]
           Bad == {n \in Nat : \E T \in SUBSET D : Cardinality(T) = n /\ ~Good(T)}
<1>1. \A T \in SUBSET D : IsFiniteSet(T) /\ Cardinality(T) \in Nat
  BY FS_Subset, FS_CardinalityType
<1>2. \A T \in SUBSET D : F[T] \in Int /\ G[T] \in Int /\ H[T] \in Int
  <2>1. \A x \in D : h[x] \in Int
    BY <1>0
  <2>2. \A T \in SUBSET D : F[T] \in Int
    BY <1>0, SumTyped
  <2>3. \A T \in SUBSET D : G[T] \in Int
    BY <1>0, SumTyped
  <2>4. \A T \in SUBSET D : H[T] \in Int
    BY <2>1, SumTyped
  <2> QED BY <2>2, <2>3, <2>4
<1>3. Bad = {}
  <2> SUFFICES ASSUME Bad # {} PROVE FALSE
    OBVIOUS
  <2>1. PICK n \in Bad : \A m \in Bad : n <= m
    <3>1. Bad \in SUBSET Nat
      OBVIOUS
    <3> HIDE DEF Bad
    <3> QED BY <3>1, LeastNatural
  <2>2. PICK T \in SUBSET D : Cardinality(T) = n /\ ~Good(T)
    OBVIOUS
  <2>3. T # {}
    <3> SUFFICES ASSUME T = {} PROVE FALSE
      OBVIOUS
    <3>1. F[T] = 0 /\ G[T] = 0 /\ H[T] = 0
      BY DEF SumOf
    <3> QED BY <2>2, <3>1
  <2> DEFINE x == CHOOSE x \in T : TRUE
             U == T \ {x}
  <2>4. x \in T /\ x \in D
    BY <2>3
  <2>5. U \in SUBSET D /\ F[T] = f[x] + F[U] /\ G[T] = g[x] + G[U] /\ H[T] = h[x] + H[U]
    BY <2>3 DEF SumOf
  <2>6. Cardinality(U) = n - 1 /\ n \in Nat
    <3>1. IsFiniteSet(T) /\ Cardinality(T) \in Nat /\ Cardinality(T) = n
      BY <1>1, <2>2
    <3> HIDE DEF Bad, Good
    <3> QED BY <2>4, <3>1, FS_RemoveElement
  <2>7. Good(U)
    <3> SUFFICES ASSUME ~Good(U) PROVE FALSE
      OBVIOUS
    <3>1. n - 1 \in Nat
      BY <1>1, <2>5, <2>6
    <3>2. n - 1 \in Bad
      BY <2>5, <2>6, <3>1
    <3> HIDE DEF Bad
    <3> QED BY <2>1, <2>6, <3>1, <3>2
  <2> HIDE DEF x, U, Bad
  <2>8. f[x] \in Int /\ g[x] \in Int /\ h[x] = f[x] - g[x]
    BY <1>0, <2>4
  <2>9. F[U] \in Int /\ G[U] \in Int /\ H[U] = F[U] - G[U]
    BY <1>2, <2>5, <2>7
  <2>10. Good(T)
    BY <2>5, <2>8, <2>9
  <2> QED BY <2>2, <2>10
<1>4. Good(D)
  <2> SUFFICES ASSUME ~Good(D) PROVE FALSE
    OBVIOUS
  <2>1. Cardinality(D) \in Bad
    BY <1>1
  <2> HIDE DEF Bad
  <2> QED BY <1>3, <2>1
<1> QED BY <1>4

\* The sum of a function that is zero but for one argument.
LEMMA SumSingle ==
  ASSUME NEW D, IsFiniteSet(D), NEW s \in D, NEW f, f[s] \in Int,
         \A x \in D : x # s => f[x] = 0, NEW F, SumOf(F, f, D)
  PROVE  F[D] = f[s]
<1> DEFINE Good(T) == F[T] = IF s \in T THEN f[s] ELSE 0
           Bad == {n \in Nat : \E T \in SUBSET D : Cardinality(T) = n /\ ~Good(T)}
<1>1. \A T \in SUBSET D : IsFiniteSet(T) /\ Cardinality(T) \in Nat
  BY FS_Subset, FS_CardinalityType
<1>2. Bad = {}
  <2> SUFFICES ASSUME Bad # {} PROVE FALSE
    OBVIOUS
  <2>1. PICK n \in Bad : \A m \in Bad : n <= m
    <3>1. Bad \in SUBSET Nat
      OBVIOUS
    <3> HIDE DEF Bad
    <3> QED BY <3>1, LeastNatural
  <2>2. PICK T \in SUBSET D : Cardinality(T) = n /\ ~Good(T)
    OBVIOUS
  <2>3. T # {}
    <3>1. Good({})
      BY DEF SumOf
    <3> QED BY <2>2, <3>1
  <2> DEFINE x == CHOOSE x \in T : TRUE
             U == T \ {x}
  <2>4. x \in T /\ x \in D
    BY <2>3
  <2>5. F[T] = f[x] + F[U] /\ U \in SUBSET D
    BY <2>3 DEF SumOf
  <2>6. Cardinality(U) = n - 1 /\ n \in Nat
    <3>1. n \in Nat
      OBVIOUS
    <3>2. IsFiniteSet(T) /\ Cardinality(T) = n
      BY <1>1, <2>2
    <3> HIDE DEF Good, Bad, x
    <3> QED BY <3>1, <3>2, <2>4, FS_RemoveElement
  <2>7. Good(U)
    <3> SUFFICES ASSUME ~Good(U) PROVE FALSE
      OBVIOUS
    <3>1. n - 1 \in Nat
      BY <1>1, <2>5, <2>6
    <3>2. n - 1 \in Bad
      BY <2>5, <2>6, <3>1
    <3> HIDE DEF Bad
    <3> QED BY <2>1, <2>6, <3>1, <3>2
  <2>8. s \in U <=> (s \in T /\ s # x)
    OBVIOUS
  <2> HIDE DEF x, U, Bad
  <2>9. CASE x = s
    <3>1. F[U] = 0
      BY <2>7, <2>8, <2>9
    <3>2. Good(T)
      BY <2>4, <2>5, <2>9, <3>1
    <3> QED BY <2>2, <3>2
  <2>10. CASE x # s
    <3>1. f[x] = 0
      BY <2>4, <2>10
    <3>2. s \in U <=> s \in T
      BY <2>8, <2>10
    <3>3. F[U] = (IF s \in T THEN f[s] ELSE 0)
      BY <2>7, <3>2
    <3>4. Good(T)
      BY <2>5, <3>1, <3>3
    <3> QED BY <2>2, <3>4
  <2> QED BY <2>9, <2>10
<1>3. Good(D)
  <2> SUFFICES ASSUME ~Good(D) PROVE FALSE
    OBVIOUS
  <2>1. Cardinality(D) \in Bad
    BY <1>1
  <2> HIDE DEF Bad
  <2> QED BY <1>2, <2>1
<1> QED BY <1>3

\* The same of the fold of the community modules.
Total(f) == FoldFunction(+, 0, f)

\* A total of natural numbers is one.
LEMMA TotalTyped ==
  ASSUME NEW f, IsFiniteSet(DOMAIN f), \A x \in DOMAIN f : f[x] \in Nat
  PROVE  Total(f) \in Nat
<1>1. PICK F : SumOf(F, f, DOMAIN f) /\ FoldFunction(+, 0, f) = F[DOMAIN f]
  BY SumUnfolds
<1>2. \A x \in DOMAIN f : f[x] \in Int /\ f[x] >= 0
  OBVIOUS
<1>3. F[DOMAIN f] \in Int /\ F[DOMAIN f] >= 0
  BY <1>1, <1>2, SumTyped
<1>4. F[DOMAIN f] \in Nat
  BY <1>3
<1>5. Total(f) = F[DOMAIN f]
  BY <1>1 DEF Total
<1> QED BY <1>4, <1>5

\* Totals are subtracted as the functions are.
LEMMA TotalMinus ==
  ASSUME NEW D, IsFiniteSet(D), NEW f, NEW g, NEW h,
         DOMAIN f = D, DOMAIN g = D, DOMAIN h = D,
         \A x \in D : f[x] \in Int /\ g[x] \in Int /\ h[x] = f[x] - g[x]
  PROVE  /\ Total(h) = Total(f) - Total(g)
         /\ Total(f) \in Int /\ Total(g) \in Int
<1>1. PICK F : SumOf(F, f, D) /\ FoldFunction(+, 0, f) = F[D]
  BY SumUnfolds
<1>2. PICK G : SumOf(G, g, D) /\ FoldFunction(+, 0, g) = G[D]
  BY SumUnfolds
<1>3. PICK H : SumOf(H, h, D) /\ FoldFunction(+, 0, h) = H[D]
  BY SumUnfolds
<1>4. H[D] = F[D] - G[D]
  <2>1. SumOf(F, f, D) /\ SumOf(G, g, D) /\ SumOf(H, h, D)
    BY <1>1, <1>2, <1>3
  <2>2. Differ(f, g, h, D)
    BY DEF Differ
  <2> QED BY <2>1, <2>2, SumMinus
<1>5. F[D] \in Int
  BY <1>1, SumTyped
<1>6. G[D] \in Int
  BY <1>2, SumTyped
<1> QED BY <1>1, <1>2, <1>3, <1>4, <1>5, <1>6 DEF Total

\* The total of nothing.
LEMMA TotalZero ==
  ASSUME NEW f, IsFiniteSet(DOMAIN f), \A x \in DOMAIN f : f[x] = 0
  PROVE  Total(f) = 0
<1>1. \A x \in DOMAIN f : f[x] \in Int /\ f[x] = f[x] - f[x]
  OBVIOUS
<1>2. Total(f) = Total(f) - Total(f) /\ Total(f) \in Int
  BY <1>1, TotalMinus
<1> QED BY <1>2

\* A function that is changed at one argument.
LEMMA TotalAt ==
  ASSUME NEW D, IsFiniteSet(D), NEW s \in D, NEW f, NEW g, DOMAIN f = D, DOMAIN g = D,
         \A x \in D : f[x] \in Int /\ g[x] \in Int /\ (x # s => g[x] = f[x])
  PROVE  Total(f) \in Int /\ Total(g) = Total(f) + (g[s] - f[s])
<1> DEFINE h == [x \in D |-> g[x] - f[x]]
<1>1. Total(h) = Total(g) - Total(f) /\ Total(f) \in Int /\ Total(g) \in Int
  <2>1. DOMAIN h = D /\ \A x \in D : g[x] \in Int /\ f[x] \in Int /\ h[x] = g[x] - f[x]
    OBVIOUS
  <2> HIDE DEF h
  <2> QED BY <2>1, TotalMinus
<1>2. DOMAIN h = D /\ h[s] = g[s] - f[s] /\ h[s] \in Int /\ \A x \in D : x # s => h[x] = 0
  OBVIOUS
<1>3. Total(h) = h[s]
  <2> HIDE DEF h
  <2>1. PICK H : SumOf(H, h, D) /\ FoldFunction(+, 0, h) = H[D]
    BY <1>2, SumUnfolds
  <2>2. H[D] = h[s]
    <3>1. SumOf(H, h, D)
      BY <2>1, <1>2
    <3> QED BY <1>2, <3>1, SumSingle
  <2> QED BY <2>1, <2>2 DEF Total
<1> HIDE DEF h
<1>4. g[s] \in Int /\ f[s] \in Int
  OBVIOUS
<1> QED BY <1>1, <1>2, <1>3, <1>4

----------------------------------------------------------------------------
(* The invariant.                                                          *)

States == {"Bypass", "Preparing", "Filling", "Delayed", "Returning", "Error"}

Packets ==
  [stream : Streams, seq : Nat, after : Nat, dts : Int, pts : Int, key : BOOLEAN, at : Int]

Fields ==
  {"state", "target", "pendingTarget", "previousTarget", "observed", "queues", "pending",
   "buffered", "active", "latest", "seen", "offsets", "lastDts", "maxPts", "emitted",
   "preparingChange", "fromDelayed", "returnFromDelayed", "committed", "returnKeys",
   "returnRequired", "requestedAt"}

IsCore(c) == c = [x \in Fields |-> c[x]]

IntValued(f) == \A k \in DOMAIN f : f[k] \in Int

\* What the timestamps are computed from.
Timed(c) ==
  /\ c.target \in Nat /\ c.pendingTarget \in Nat /\ c.previousTarget \in Nat
  /\ c.observed \in Nat /\ \E e \in Int : c.emitted \subseteq {e}
  /\ IntValued(c.offsets) /\ IntValued(c.lastDts) /\ IntValued(c.maxPts)

Lengths(queues) == [s \in Streams |-> Len(queues[s])]

\* What is buffered is counted, and something waits to be handed out only after a commit.
Held(c) ==
  /\ c.queues \in [Streams -> Seq(Packets)] /\ c.pending \in Seq(Packets)
  /\ c.buffered = Len(c.pending) + Total(Lengths(c.queues))
  /\ c.buffered <= MaxBuffered
  /\ c.pending # <<>> => c.committed
  /\ c.committed \in BOOLEAN /\ c.state \in States
  /\ c.committed => c.state = "Returning"

\* A queue holds packets of its stream in the order of their numbers, up to n, and no
\* number is in two queues.
Numbered(queues, n) ==
  /\ \A s \in Streams : \A i \in DOMAIN queues[s] :
       queues[s][i].stream = s /\ queues[s][i].seq <= n
  /\ \A s \in Streams : \A i, j \in DOMAIN queues[s] :
       i < j => queues[s][i].seq < queues[s][j].seq
  /\ \A s, t \in Streams : \A i \in DOMAIN queues[s], j \in DOMAIN queues[t] :
       queues[s][i].seq = queues[t][j].seq => s = t

\* The keyframe is in the queue, and the newest in it up to number n.
Chosen(q, key, n) ==
  /\ \E i \in DOMAIN q : q[i].seq = key /\ q[i].key
  /\ \A i \in DOMAIN q : q[i].key /\ q[i].seq <= n => q[i].seq <= key

\* While the object returns, every keyframe that is chosen is.
Kept(c, n) ==
  c.state = "Returning" /\ ~c.committed =>
    \A s \in DOMAIN c.returnKeys :
      s \in Streams /\ IsVideo(s) /\ Chosen(c.queues[s], c.returnKeys[s], n)

\* The object, of which n packets have been pushed.
Sound(c, n) == IsCore(c) /\ Timed(c) /\ Held(c) /\ Numbered(c.queues, n) /\ Kept(c, n)

\* The packets that were pushed last.
LastOK ==
  /\ last = [encoder |-> last.encoder, count |-> last.count, on |-> last.on]
  /\ last.encoder \in Encoders /\ last.count \in Nat
  /\ last.on \in [Streams -> [seq : Nat, dts : Int, frames : Nat]]

SoundInv == Sound(core, last.count) /\ LastOK

----------------------------------------------------------------------------
(* Queues that lose packets at the front.                                  *)

\* The queues q without their first packets are r: s keeps those from number from[s] on.
Shortened(q, r, from) ==
  /\ q \in [Streams -> Seq(Packets)] /\ DOMAIN r = Streams /\ r = [s \in Streams |-> r[s]]
  /\ \A s \in Streams : /\ from[s] \in 1..(Len(q[s]) + 1)
                        /\ r[s] = SubSeq(q[s], from[s], Len(q[s]))

\* What a sequence without its first elements consists of.
LEMMA SuffixOf ==
  ASSUME NEW q \in Seq(Packets), NEW k \in 1..(Len(q) + 1), NEW r, r = SubSeq(q, k, Len(q))
  PROVE  /\ r \in Seq(Packets) /\ Len(r) = Len(q) + 1 - k /\ DOMAIN r = 1..Len(r)
         /\ \A i \in DOMAIN r : k + i - 1 \in DOMAIN q /\ r[i] = q[k + i - 1]
         /\ \A j \in DOMAIN q : j >= k => j - k + 1 \in DOMAIN r /\ r[j - k + 1] = q[j]
<1>1. Len(q) \in Nat /\ DOMAIN q = 1..Len(q) /\ k \in Int /\ \A i \in 1..Len(q) : q[i] \in Packets
  BY LenProperties, ElementOfSeq
<1>2. \A i \in k..Len(q) : q[i] \in Packets
  BY <1>1
<1>3. r \in Seq(Packets)
  BY <1>1, <1>2, SubSeqProperties
<1>4. Len(r) = IF k <= Len(q) THEN Len(q) - k + 1 ELSE 0
  BY <1>1, <1>2, SubSeqProperties
<1>5. \A i \in 1..(Len(q) - k + 1) : r[i] = q[k + i - 1]
  BY <1>1, <1>2, SubSeqProperties
<1>6. Len(r) = Len(q) + 1 - k
  BY <1>1, <1>4
<1>7. DOMAIN r = 1..Len(r)
  BY <1>3, LenProperties
<1>8. ASSUME NEW i \in DOMAIN r PROVE k + i - 1 \in DOMAIN q /\ r[i] = q[k + i - 1]
  BY <1>1, <1>5, <1>6, <1>7
<1>9. ASSUME NEW j \in DOMAIN q, j >= k PROVE j - k + 1 \in DOMAIN r /\ r[j - k + 1] = q[j]
  <2>1. j - k + 1 \in DOMAIN r
    BY <1>1, <1>6, <1>7, <1>9
  <2>2. k + (j - k + 1) - 1 = j
    BY <1>1
  <2> QED BY <1>8, <2>1, <2>2
<1> QED BY <1>3, <1>6, <1>7, <1>8, <1>9

\* They are still queues of numbered packets.
LEMMA ShortenedNumbered ==
  ASSUME NEW q, NEW r, NEW from, Shortened(q, r, from)
  PROVE  /\ r \in [Streams -> Seq(Packets)]
         /\ \A n : Numbered(q, n) => Numbered(r, n)
<1>1. ASSUME NEW s \in Streams
      PROVE  /\ r[s] \in Seq(Packets) /\ from[s] \in Int
             /\ \A i \in DOMAIN r[s] : /\ from[s] + i - 1 \in DOMAIN q[s] /\ i \in Int
                                       /\ r[s][i] = q[s][from[s] + i - 1]
  <2>1. q[s] \in Seq(Packets) /\ from[s] \in 1..(Len(q[s]) + 1)
        /\ r[s] = SubSeq(q[s], from[s], Len(q[s]))
    BY DEF Shortened
  <2>2. Len(q[s]) \in Nat
    BY <2>1, LenProperties
  <2>3. r[s] \in Seq(Packets) /\ DOMAIN r[s] = 1..Len(r[s])
        /\ \A i \in DOMAIN r[s] : from[s] + i - 1 \in DOMAIN q[s] /\ r[s][i] = q[s][from[s] + i - 1]
    BY <2>1, SuffixOf
  <2>4. from[s] \in Int /\ \A i \in DOMAIN r[s] : i \in Int
    BY <2>1, <2>2, <2>3
  <2> QED BY <2>3, <2>4
<1>2. r \in [Streams -> Seq(Packets)]
  BY <1>1 DEF Shortened
<1>3. ASSUME NEW n, Numbered(q, n) PROVE Numbered(r, n)
  <2>1. ASSUME NEW s \in Streams, NEW i \in DOMAIN r[s]
        PROVE  r[s][i].stream = s /\ r[s][i].seq <= n
    BY <1>1, <1>3 DEF Numbered
  <2>2. ASSUME NEW s \in Streams, NEW i \in DOMAIN r[s], NEW j \in DOMAIN r[s], i < j
        PROVE  r[s][i].seq < r[s][j].seq
    <3>1. from[s] + i - 1 < from[s] + j - 1
      BY <1>1, <2>2
    <3>2. /\ from[s] + i - 1 \in DOMAIN q[s] /\ r[s][i] = q[s][from[s] + i - 1]
          /\ from[s] + j - 1 \in DOMAIN q[s] /\ r[s][j] = q[s][from[s] + j - 1]
      BY <1>1
    <3> QED BY <1>3, <3>1, <3>2 DEF Numbered
  <2>3. ASSUME NEW s \in Streams, NEW t \in Streams, NEW i \in DOMAIN r[s], NEW j \in DOMAIN r[t],
               r[s][i].seq = r[t][j].seq
        PROVE  s = t
    <3>1. /\ from[s] + i - 1 \in DOMAIN q[s] /\ r[s][i] = q[s][from[s] + i - 1]
          /\ from[t] + j - 1 \in DOMAIN q[t] /\ r[t][j] = q[t][from[t] + j - 1]
      BY <1>1
    <3> QED BY <1>3, <2>3, <3>1 DEF Numbered
  <2> QED BY <2>1, <2>2, <2>3 DEF Numbered
<1> QED BY <1>2, <1>3

\* The count of what is queued is a number.
LEMMA LengthsTotal ==
  ASSUME NEW q \in [Streams -> Seq(Packets)]
  PROVE  Total(Lengths(q)) \in Nat /\ \A s \in Streams : Lengths(q)[s] \in Nat
<1> DEFINE f == Lengths(q)
<1>1. DOMAIN f = Streams /\ \A s \in DOMAIN f : f[s] \in Nat
  <2>1. \A s \in Streams : Len(q[s]) \in Nat
    BY LenProperties
  <2> QED BY <2>1 DEF Lengths
<1>2. IsFiniteSet(DOMAIN f)
  BY <1>1, PacketDelayAssumption
<1> HIDE DEF f
<1>3. Total(f) \in Nat
  BY <1>1, <1>2, TotalTyped
<1> QED BY <1>1, <1>3 DEF f

\* It falls by the packets that are lost.
LEMMA ShortenedTotal ==
  ASSUME NEW q, NEW r, NEW from, Shortened(q, r, from),
         NEW lost, lost = [s \in Streams |-> from[s] - 1]
  PROVE  /\ Total(Lengths(r)) = Total(Lengths(q)) - Total(lost)
         /\ Total(Lengths(q)) \in Nat /\ Total(Lengths(r)) \in Nat /\ Total(lost) \in Nat
<1>1. q \in [Streams -> Seq(Packets)] /\ r \in [Streams -> Seq(Packets)]
  <2>1. r \in [Streams -> Seq(Packets)]
    BY ShortenedNumbered
  <2>2. q \in [Streams -> Seq(Packets)]
    BY DEF Shortened
  <2> QED BY <2>1, <2>2
<1>2. ASSUME NEW s \in Streams
      PROVE  Len(q[s]) \in Nat /\ lost[s] \in Nat /\ Len(r[s]) = Len(q[s]) - lost[s]
  <2>1. q[s] \in Seq(Packets) /\ from[s] \in 1..(Len(q[s]) + 1)
        /\ r[s] = SubSeq(q[s], from[s], Len(q[s]))
    BY DEF Shortened
  <2>2. Len(q[s]) \in Nat
    BY <2>1, LenProperties
  <2>3. Len(r[s]) = Len(q[s]) + 1 - from[s]
    BY <2>1, SuffixOf
  <2>4. lost[s] = from[s] - 1
    OBVIOUS
  <2> QED BY <2>1, <2>2, <2>3, <2>4
<1> DEFINE f == Lengths(q)
           h == Lengths(r)
<1>3. DOMAIN f = Streams /\ DOMAIN h = Streams /\ DOMAIN lost = Streams
  BY DEF Lengths
<1>4. \A s \in Streams : f[s] \in Int /\ lost[s] \in Int /\ h[s] = f[s] - lost[s]
  BY <1>2 DEF Lengths
<1>5. \A s \in DOMAIN lost : lost[s] \in Nat
  BY <1>2, <1>3
<1>6. IsFiniteSet(Streams)
  BY PacketDelayAssumption
<1>7. Total(f) \in Nat /\ Total(h) \in Nat
  BY <1>1, LengthsTotal
<1> HIDE DEF f, h
<1>8. Total(h) = Total(f) - Total(lost)
  BY <1>3, <1>4, <1>6, TotalMinus
<1>9. Total(lost) \in Nat
  BY <1>3, <1>5, <1>6, TotalTyped
<1> QED BY <1>7, <1>8, <1>9 DEF f, h

----------------------------------------------------------------------------
(* The operators of the model, one after the other.                        *)

\* What is buffered and what state the object is in: d has no other than c, and no
\* keyframe that c has not.
SameBuffer(c, d) ==
  /\ d.queues = c.queues /\ d.pending = c.pending /\ d.buffered = c.buffered
  /\ d.committed = c.committed /\ d.state = c.state
  /\ \A s \in DOMAIN d.returnKeys : s \in DOMAIN c.returnKeys /\ d.returnKeys[s] = c.returnKeys[s]

\* An object with the same buffer is as sound.
LEMMA SameBufferSound ==
  ASSUME NEW c, NEW n, Sound(c, n), NEW d, IsCore(d), Timed(d), SameBuffer(c, d)
  PROVE  Sound(d, n)
<1>1. Held(d)
  BY DEF Sound, Held, SameBuffer
<1>2. Numbered(d.queues, n)
  BY DEF Sound, SameBuffer
<1>3. Kept(d, n)
  BY DEF Sound, SameBuffer, Kept
<1> QED BY <1>1, <1>2, <1>3 DEF Sound

\* Packets that are still to come change nothing.
LEMMA SoundLater ==
  ASSUME NEW c, NEW n \in Nat, NEW m \in Nat, n <= m, Sound(c, n)
  PROVE  Sound(c, m)
<1>1. ASSUME NEW s \in Streams, NEW i \in DOMAIN c.queues[s]
      PROVE  c.queues[s][i].seq \in Nat /\ c.queues[s][i].seq <= n
  <2>1. c.queues[s] \in Seq(Packets)
    BY DEF Sound, Held
  <2>2. c.queues[s][i] \in Packets
    BY <2>1, LenProperties, ElementOfSeq
  <2> QED BY <2>2 DEF Sound, Numbered, Packets
<1>2. Numbered(c.queues, m)
  <2>1. ASSUME NEW s \in Streams, NEW i \in DOMAIN c.queues[s]
        PROVE  c.queues[s][i].stream = s /\ c.queues[s][i].seq <= m
    BY <1>1 DEF Sound, Numbered
  <2> QED BY <2>1 DEF Sound, Numbered
<1>3. Kept(c, m)
  <2>1. ASSUME c.state = "Returning", ~c.committed, NEW s \in DOMAIN c.returnKeys
        PROVE  s \in Streams /\ IsVideo(s) /\ Chosen(c.queues[s], c.returnKeys[s], m)
    <3>1. s \in Streams /\ IsVideo(s) /\ Chosen(c.queues[s], c.returnKeys[s], n)
      BY <2>1 DEF Sound, Kept
    <3>2. \A i \in DOMAIN c.queues[s] : c.queues[s][i].seq <= n
      BY <1>1, <3>1
    <3> QED BY <3>1, <3>2 DEF Chosen
  <2> QED BY <2>1 DEF Kept
<1> QED BY <1>2, <1>3 DEF Sound

\* Nothing is queued.
NoQueues == [s \in Streams |-> <<>>]

\* Nothing queued counts as nothing.
LEMMA EmptyQueues ==
  /\ NoQueues \in [Streams -> Seq(Packets)]
  /\ Total(Lengths(NoQueues)) = 0
  /\ \A n : Numbered(NoQueues, n)
<1>1. NoQueues \in [Streams -> Seq(Packets)]
  BY EmptySeq DEF NoQueues
<1> DEFINE f == Lengths(NoQueues)
<1>2. DOMAIN f = Streams /\ \A s \in DOMAIN f : f[s] = 0
  <2>1. \A s \in Streams : Len(NoQueues[s]) = 0
    BY EmptySeq DEF NoQueues
  <2> QED BY <2>1 DEF Lengths
<1>3. IsFiniteSet(DOMAIN f)
  BY <1>2, PacketDelayAssumption
<1> HIDE DEF f
<1>4. Total(f) = 0
  BY <1>2, <1>3, TotalZero
<1>5. \A s \in Streams : DOMAIN NoQueues[s] = {}
  BY EmptySeq, LenProperties DEF NoQueues
<1>6. \A n : Numbered(NoQueues, n)
  BY <1>5 DEF Numbered
<1> QED BY <1>1, <1>4, <1>6 DEF f

\* The object discards its buffer when it is cleared, on an error and when it is idle.
LEMMA ClearedFields ==
  ASSUME NEW c, IsCore(c)
  PROVE  /\ IsCore(ClearQueues(c)) /\ IsCore(ClearAll(c)) /\ IsCore(EnterError(c))
         /\ ClearQueues(c).queues = NoQueues /\ ClearQueues(c).pending = <<>>
         /\ ClearQueues(c).buffered = 0
         /\ \A x \in Fields \ {"queues", "pending", "buffered", "active", "latest", "seen"} :
              ClearQueues(c)[x] = c[x]
         /\ ClearAll(c).queues = NoQueues /\ ClearAll(c).pending = <<>>
         /\ ClearAll(c).buffered = 0 /\ ClearAll(c).committed = FALSE
         /\ \A x \in {"state", "target", "pendingTarget", "previousTarget", "observed", "offsets",
                      "lastDts", "maxPts", "emitted"} :
              ClearAll(c)[x] = c[x] /\ (x # "state" => EnterError(c)[x] = c[x])
         /\ EnterError(c).queues = NoQueues /\ EnterError(c).pending = <<>>
         /\ EnterError(c).buffered = 0 /\ EnterError(c).committed = FALSE
         /\ EnterError(c).state = "Error"
<1>1. /\ IsCore(ClearQueues(c))
      /\ ClearQueues(c).queues = NoQueues /\ ClearQueues(c).pending = <<>>
      /\ ClearQueues(c).buffered = 0
  BY DEF ClearQueues, NoQueues, IsCore, Fields
<1>2. \A x \in Fields \ {"queues", "pending", "buffered", "active", "latest", "seen"} :
        ClearQueues(c)[x] = c[x]
  BY DEF ClearQueues, IsCore, Fields
<1>3. /\ IsCore(ClearAll(c))
      /\ ClearAll(c).queues = NoQueues /\ ClearAll(c).pending = <<>>
      /\ ClearAll(c).buffered = 0 /\ ClearAll(c).committed = FALSE
      /\ \A x \in {"state", "target", "pendingTarget", "previousTarget", "observed", "offsets",
                   "lastDts", "maxPts", "emitted"} : ClearAll(c)[x] = c[x]
  BY DEF ClearAll, ClearQueues, NoQueues, IsCore, Fields
<1>4. /\ IsCore(EnterError(c))
      /\ EnterError(c).state = "Error"
      /\ \A x \in Fields \ {"state"} : EnterError(c)[x] = ClearAll(c)[x]
  BY <1>3 DEF EnterError, IsCore, Fields
<1>5. /\ EnterError(c).queues = NoQueues /\ EnterError(c).pending = <<>>
      /\ EnterError(c).buffered = 0 /\ EnterError(c).committed = FALSE
  BY <1>3, <1>4 DEF Fields
<1>6. \A x \in {"target", "pendingTarget", "previousTarget", "observed", "offsets",
                "lastDts", "maxPts", "emitted"} : EnterError(c)[x] = c[x]
  BY <1>3, <1>4 DEF Fields
<1> QED BY <1>1, <1>2, <1>3, <1>4, <1>5, <1>6

\* An object without a buffer is sound in every state but that of a return.
LEMMA EmptySound ==
  ASSUME NEW d, IsCore(d), Timed(d), d.queues = NoQueues, d.pending = <<>>, d.buffered = 0,
         d.committed = FALSE, d.state \in States \ {"Returning"}, NEW n
  PROVE  Sound(d, n)
<1>1. Len(d.pending) = 0 /\ d.pending \in Seq(Packets)
  BY EmptySeq
<1>2. d.buffered = Len(d.pending) + Total(Lengths(d.queues))
  BY <1>1, EmptyQueues
<1>3. d.buffered <= MaxBuffered
  BY PacketDelayAssumption
<1>4. Held(d)
  BY <1>1, <1>2, <1>3, EmptyQueues DEF Held
<1>5. Numbered(d.queues, n) /\ Kept(d, n)
  BY EmptyQueues DEF Kept
<1> QED BY <1>4, <1>5 DEF Sound

\* An error leaves the object sound, whatever happened before.
LEMMA ErrorSound ==
  ASSUME NEW c, IsCore(c), Timed(c), NEW n
  PROVE  /\ Sound(EnterError(c), n) /\ EnterError(c).state = "Error"
         /\ EnterError(c).observed = c.observed
<1> DEFINE d == EnterError(c)
<1>1. /\ IsCore(d) /\ d.queues = NoQueues /\ d.pending = <<>> /\ d.buffered = 0
      /\ d.committed = FALSE /\ d.state = "Error"
      /\ d.target = c.target /\ d.pendingTarget = c.pendingTarget
      /\ d.previousTarget = c.previousTarget /\ d.observed = c.observed
      /\ d.offsets = c.offsets /\ d.lastDts = c.lastDts /\ d.maxPts = c.maxPts
      /\ d.emitted = c.emitted
  BY ClearedFields
<1> HIDE DEF d
<1>2. Timed(d)
  BY <1>1 DEF Timed
<1>3. Sound(d, n)
  BY <1>1, <1>2, EmptySound DEF States
<1> QED BY <1>1, <1>3 DEF d

\* An offset is the largest of at most four numbers; it puts the packet behind the
\* lane, and not before what was emitted last.
LEMMA NewOffsetFits ==
  ASSUME NEW c, Timed(c), NEW p, p.dts \in Int, p.pts \in Int, NEW base \in Int
  PROVE  /\ NewOffset(c, p, base) \in Int
         /\ Timeline(p.stream) \in DOMAIN c.lastDts =>
              c.lastDts[Timeline(p.stream)] < p.dts + NewOffset(c, p, base)
         /\ Timeline(p.stream) \in DOMAIN c.maxPts =>
              c.maxPts[Timeline(p.stream)] < p.pts + NewOffset(c, p, base)
         /\ \A e \in c.emitted : e <= p.dts + NewOffset(c, p, base)
<1> DEFINE t == Timeline(p.stream)
           A == {c.lastDts[q] + 1 - p.dts : q \in {t} \cap DOMAIN c.lastDts}
           B == {e - p.dts : e \in c.emitted}
           C == {c.maxPts[q] + 1 - p.pts : q \in {t} \cap DOMAIN c.maxPts}
           S == {base} \cup A \cup B \cup C
<1>1. S \in SUBSET Int
  <2>1. A \in SUBSET Int
    BY DEF Timed, IntValued
  <2>2. B \in SUBSET Int
    BY DEF Timed
  <2>3. C \in SUBSET Int
    BY DEF Timed, IntValued
  <2> QED BY <2>1, <2>2, <2>3
<1>2. IsFiniteSet(S)
  <2> PICK e \in Int : c.emitted \subseteq {e}
    BY DEF Timed
  <2> DEFINE F == (({base} \cup {c.lastDts[t] + 1 - p.dts}) \cup {e - p.dts})
                    \cup {c.maxPts[t] + 1 - p.pts}
  <2>1. IsFiniteSet({base})
    BY FS_Singleton
  <2>2. IsFiniteSet(F)
    <3> DEFINE G == {base} \cup {c.lastDts[t] + 1 - p.dts}
               H == G \cup {e - p.dts}
    <3>1. IsFiniteSet(G)
      BY <2>1, FS_AddElement
    <3> HIDE DEF G
    <3>2. IsFiniteSet(H)
      BY <3>1, FS_AddElement
    <3> HIDE DEF H
    <3>3. IsFiniteSet(H \cup {c.maxPts[t] + 1 - p.pts})
      BY <3>2, FS_AddElement
    <3> QED BY <3>3 DEF F, G, H
  <2>3. S \in SUBSET F
    OBVIOUS
  <2> HIDE DEF S, F
  <2> QED BY <2>2, <2>3, FS_Subset
<1>3. S # {}
  OBVIOUS
<1>4. NewOffset(c, p, base) = Largest(S)
  BY DEF NewOffset
<1>5. /\ t \in DOMAIN c.lastDts => c.lastDts[t] + 1 - p.dts \in S
      /\ t \in DOMAIN c.maxPts => c.maxPts[t] + 1 - p.pts \in S
      /\ \A e \in c.emitted : e - p.dts \in S
  OBVIOUS
<1>6. /\ t \in DOMAIN c.lastDts => c.lastDts[t] \in Int
      /\ t \in DOMAIN c.maxPts => c.maxPts[t] \in Int
      /\ \A e \in c.emitted : e \in Int
  BY DEF Timed, IntValued
<1> HIDE DEF S, t
<1>7. Largest(S) \in Int /\ \A x \in S : Largest(S) >= x
  BY <1>1, <1>2, <1>3, LargestOf
<1>8. t \in DOMAIN c.lastDts => c.lastDts[t] < p.dts + Largest(S)
  <2> SUFFICES ASSUME t \in DOMAIN c.lastDts PROVE c.lastDts[t] < p.dts + Largest(S)
    OBVIOUS
  <2>1. Largest(S) >= c.lastDts[t] + 1 - p.dts
    BY <1>5, <1>7
  <2> QED BY <1>6, <1>7, <2>1
<1>9. t \in DOMAIN c.maxPts => c.maxPts[t] < p.pts + Largest(S)
  <2> SUFFICES ASSUME t \in DOMAIN c.maxPts PROVE c.maxPts[t] < p.pts + Largest(S)
    OBVIOUS
  <2>1. Largest(S) >= c.maxPts[t] + 1 - p.pts
    BY <1>5, <1>7
  <2> QED BY <1>6, <1>7, <2>1
<1>10. \A e \in c.emitted : e <= p.dts + Largest(S)
  <2> SUFFICES ASSUME NEW e \in c.emitted PROVE e <= p.dts + Largest(S)
    OBVIOUS
  <2>1. Largest(S) >= e - p.dts
    BY <1>5, <1>7
  <2> QED BY <1>6, <1>7, <2>1
<1> QED BY <1>4, <1>7, <1>8, <1>9, <1>10 DEF t

\* A map that gets one more entry, or loses some; with integers it stays one of integers.
LEMMA WithEntries ==
  ASSUME NEW f, NEW k, NEW v
  PROVE  /\ With(f, k, v)[k] = v /\ DOMAIN With(f, k, v) = DOMAIN f \cup {k}
         /\ \A x \in DOMAIN f : x # k => With(f, k, v)[x] = f[x]
BY DEF With

\* One more number in a map of numbers.
LEMMA WithTyped ==
  ASSUME NEW f, NEW k, NEW v, IntValued(f), v \in Int
  PROVE  IntValued(With(f, k, v))
BY DEF With, IntValued

\* What is left has not changed.
LEMMA WithoutEntries ==
  ASSUME NEW f, NEW keys
  PROVE  \A x \in DOMAIN Without(f, keys) :
           x \in DOMAIN f /\ x \notin keys /\ Without(f, keys)[x] = f[x]
BY DEF Without

\* What is left is a map of numbers still.
LEMMA WithoutTyped ==
  ASSUME NEW f, NEW keys, IntValued(f)
  PROVE  IntValued(Without(f, keys))
BY DEF Without, IntValued

\* An offset is created without touching the buffer.
LEMMA CreateOffsetSame ==
  ASSUME NEW c, IsCore(c), Timed(c), NEW p, p.dts \in Int, p.pts \in Int, NEW base \in Int
  PROVE  /\ IsCore(CreateOffset(c, p, base)) /\ Timed(CreateOffset(c, p, base))
         /\ SameBuffer(c, CreateOffset(c, p, base))
         /\ CreateOffset(c, p, base).observed = c.observed
         /\ CreateOffset(c, p, base).target = c.target
         /\ p.stream \in DOMAIN CreateOffset(c, p, base).offsets
<1>1. CASE p.stream \in DOMAIN c.offsets
  BY <1>1 DEF CreateOffset, SameBuffer
<1>2. CASE p.stream \notin DOMAIN c.offsets
  <2> DEFINE offset == NewOffset(c, p, base)
             d == [c EXCEPT !.offsets = With(@, p.stream, offset)]
  <2>1. offset \in Int
    BY NewOffsetFits
  <2>2. CreateOffset(c, p, base) = d
    BY <1>2 DEF CreateOffset
  <2> HIDE DEF offset
  <2>3. /\ IsCore(d) /\ d.offsets = With(c.offsets, p.stream, offset)
        /\ \A x \in Fields \ {"offsets"} : d[x] = c[x]
    BY DEF IsCore, Fields
  <2> HIDE DEF d
  <2>4. IntValued(d.offsets) /\ p.stream \in DOMAIN d.offsets
    <3>1. IntValued(c.offsets)
      BY DEF Timed
    <3>2. IntValued(With(c.offsets, p.stream, offset))
      BY <2>1, <3>1, WithTyped
    <3>3. p.stream \in DOMAIN With(c.offsets, p.stream, offset)
      BY DEF With
    <3> QED BY <2>3, <3>2, <3>3
  <2>5. Timed(d)
    BY <2>3, <2>4 DEF Timed, Fields
  <2>6. SameBuffer(c, d) /\ d.observed = c.observed /\ d.target = c.target
    BY <2>3 DEF SameBuffer, Fields
  <2> QED BY <2>2, <2>3, <2>4, <2>5, <2>6
<1> QED BY <1>1, <1>2

\* A new generation is in error or leaves the buffer alone; it loses keyframes at most.
LEMMA PrepareStreamSame ==
  ASSUME NEW c, IsCore(c), Timed(c), NEW s
  PROVE  \/ PrepareStream(c, s) = EnterError(c)
         \/ /\ IsCore(PrepareStream(c, s)) /\ Timed(PrepareStream(c, s))
            /\ SameBuffer(c, PrepareStream(c, s))
            /\ PrepareStream(c, s).observed = c.observed
            /\ PrepareStream(c, s).target = c.target
<1> DEFINE replaced == {q \in Streams \ {s} : Timeline(q) = Timeline(s)}
           required == (c.returnRequired \ replaced)
                         \cup {q \in {s} : IsVideo(q) /\ c.returnRequired \cap replaced # {}}
           d == [c EXCEPT !.active = @ \ replaced,
                        !.latest = Without(@, replaced), !.seen = Without(@, replaced),
                        !.offsets = Without(@, replaced),
                        !.returnKeys = Without(@, replaced),
                        !.returnRequired = required]
<1>1. PrepareStream(c, s) = EnterError(c) \/ PrepareStream(c, s) = d
  BY DEF PrepareStream
<1> HIDE DEF replaced, required
<1>2. /\ IsCore(d) /\ d.offsets = Without(c.offsets, replaced)
      /\ d.returnKeys = Without(c.returnKeys, replaced)
      /\ \A x \in Fields \ {"active", "latest", "seen", "offsets", "returnKeys", "returnRequired"} :
           d[x] = c[x]
  BY DEF IsCore, Fields
<1> HIDE DEF d
<1>3. IntValued(d.offsets)
  <2>1. IntValued(c.offsets)
    BY DEF Timed
  <2>2. IntValued(Without(c.offsets, replaced))
    BY <2>1, WithoutTyped
  <2> QED BY <1>2, <2>2
<1>4. Timed(d)
  BY <1>2, <1>3 DEF Timed, Fields
<1>5. \A x \in DOMAIN d.returnKeys : x \in DOMAIN c.returnKeys /\ d.returnKeys[x] = c.returnKeys[x]
  <2>1. \A x \in DOMAIN Without(c.returnKeys, replaced) :
          x \in DOMAIN c.returnKeys /\ Without(c.returnKeys, replaced)[x] = c.returnKeys[x]
    BY WithoutEntries
  <2> QED BY <1>2, <2>1
<1>6. SameBuffer(c, d) /\ d.observed = c.observed /\ d.target = c.target
  BY <1>2, <1>5 DEF SameBuffer, Fields
<1> QED BY <1>1, <1>2, <1>4, <1>6

\* What is noted of an output does not touch the buffer.
LEMMA NoteOutputSame ==
  ASSUME NEW c, IsCore(c), Timed(c), NEW p, p.dts \in Int, p.pts \in Int
  PROVE  /\ IsCore(NoteOutput(c, p)) /\ Timed(NoteOutput(c, p))
         /\ SameBuffer(c, NoteOutput(c, p))
         /\ NoteOutput(c, p).observed = c.observed
<1> DEFINE t == Timeline(p.stream)
           most == IF t \in DOMAIN c.maxPts THEN Largest({c.maxPts[t], p.pts}) ELSE p.pts
           d == [c EXCEPT !.emitted = {p.dts}, !.lastDts = With(@, t, p.dts),
                          !.maxPts = With(@, t, most)]
<1>1. NoteOutput(c, p) = d
  BY DEF NoteOutput
<1>2. most \in Int
  <2>1. CASE t \in DOMAIN c.maxPts
    <3>1. c.maxPts[t] \in Int
      BY <2>1 DEF Timed, IntValued
    <3> DEFINE S == {c.maxPts[t], p.pts}
    <3>2. S = {c.maxPts[t]} \cup {p.pts} /\ S \in SUBSET Int /\ S # {}
      BY <3>1
    <3>3. IsFiniteSet({c.maxPts[t]})
      BY FS_Singleton
    <3>4. IsFiniteSet(S)
      <4>1. IsFiniteSet({c.maxPts[t]} \cup {p.pts})
        BY <3>3, FS_AddElement
      <4> QED BY <3>2, <4>1
    <3>5. most = Largest(S)
      BY <2>1
    <3> HIDE DEF S
    <3>6. Largest(S) \in S
      BY <3>2, <3>4, LargestOf
    <3> QED BY <3>2, <3>5, <3>6
  <2>2. CASE t \notin DOMAIN c.maxPts
    BY <2>2
  <2> QED BY <2>1, <2>2
<1> HIDE DEF most, t
<1>3. /\ IsCore(d) /\ d.emitted = {p.dts} /\ d.lastDts = With(c.lastDts, t, p.dts)
      /\ d.maxPts = With(c.maxPts, t, most)
      /\ \A x \in Fields \ {"emitted", "lastDts", "maxPts"} : d[x] = c[x]
  BY DEF IsCore, Fields
<1> HIDE DEF d
<1>4. IntValued(d.lastDts) /\ IntValued(d.maxPts)
  <2>1. IntValued(c.lastDts) /\ IntValued(c.maxPts)
    BY DEF Timed
  <2>2. IntValued(With(c.lastDts, t, p.dts))
    BY <2>1, WithTyped
  <2>3. IntValued(With(c.maxPts, t, most))
    BY <1>2, <2>1, WithTyped
  <2> QED BY <1>3, <2>2, <2>3
<1>5. Timed(d)
  BY <1>3, <1>4 DEF Timed, Fields
<1>6. SameBuffer(c, d) /\ d.observed = c.observed
  BY <1>3 DEF SameBuffer, Fields
<1> QED BY <1>1, <1>3, <1>5, <1>6

\* A packet that is shifted.
LEMMA ShiftedTyped ==
  ASSUME NEW p \in Packets, NEW ticks \in Int
  PROVE  Shifted(p, ticks).dts \in Int /\ Shifted(p, ticks).pts \in Int
BY DEF Shifted, Packets

\* A packet that passes leaves the buffer sound.
LEMMA PassLiveSound ==
  ASSUME NEW c, NEW n, Sound(c, n), NEW p \in Packets
  PROVE  Sound(PassLive(c, p).core, n)
<1> DEFINE ready == PrepareStream(c, p.stream)
           timed == CreateOffset(ready, p, 0)
           q == Shifted(p, timed.offsets[p.stream])
<1>1. p.dts \in Int /\ p.pts \in Int
  BY DEF Packets
<1>2. IsCore(c) /\ Timed(c)
  BY DEF Sound
<1>3. Sound(ready, n)
  <2>1. CASE ready = EnterError(c)
    BY <1>2, <2>1, ErrorSound
  <2>2. CASE IsCore(ready) /\ Timed(ready) /\ SameBuffer(c, ready)
    BY <2>2, SameBufferSound
  <2> QED BY <1>2, <2>1, <2>2, PrepareStreamSame
<1>4. /\ IsCore(timed) /\ Timed(timed) /\ SameBuffer(ready, timed)
      /\ p.stream \in DOMAIN timed.offsets
  <2>1. IsCore(ready) /\ Timed(ready)
    BY <1>3 DEF Sound
  <2> HIDE DEF ready
  <2> QED BY <1>1, <2>1, CreateOffsetSame
<1>5. PassLive(c, p).core = IF Regresses(timed, q) THEN EnterError(timed) ELSE NoteOutput(timed, q)
  BY DEF PassLive
<1> HIDE DEF ready, timed
<1>6. Sound(timed, n)
  BY <1>3, <1>4, SameBufferSound
<1>7. q.dts \in Int /\ q.pts \in Int
  <2>1. timed.offsets[p.stream] \in Int
    BY <1>4 DEF Timed, IntValued
  <2> QED BY <2>1, ShiftedTyped
<1> HIDE DEF q
<1>8. Sound(EnterError(timed), n)
  BY <1>4, ErrorSound
<1>9. Sound(NoteOutput(timed, q), n)
  BY <1>4, <1>6, <1>7, NoteOutputSame, SameBufferSound
<1> QED BY <1>5, <1>8, <1>9

\* What is known of the packets of a sound object.
LEMMA QueueFacts ==
  ASSUME NEW c, NEW n, Held(c), Numbered(c.queues, n), NEW s \in Streams
  PROVE  /\ c.queues[s] \in Seq(Packets) /\ Len(c.queues[s]) \in Nat
         /\ DOMAIN c.queues[s] = 1..Len(c.queues[s])
         /\ \A i \in DOMAIN c.queues[s] :
              /\ c.queues[s][i] \in Packets /\ c.queues[s][i].stream = s
              /\ c.queues[s][i].seq \in Nat /\ c.queues[s][i].seq <= n
         /\ \A i, j \in DOMAIN c.queues[s] : i < j => c.queues[s][i].seq < c.queues[s][j].seq
<1>1. c.queues[s] \in Seq(Packets)
  BY DEF Held
<1>2. Len(c.queues[s]) \in Nat /\ DOMAIN c.queues[s] = 1..Len(c.queues[s])
  BY <1>1, LenProperties
<1>3. \A i \in DOMAIN c.queues[s] : c.queues[s][i] \in Packets
  BY <1>1, <1>2, ElementOfSeq
<1>4. \A i \in DOMAIN c.queues[s] : c.queues[s][i].seq \in Nat
  BY <1>3 DEF Packets
<1> QED BY <1>1, <1>2, <1>3, <1>4 DEF Numbered

\* A chosen keyframe that a queue keeps stays chosen.
LEMMA ChosenShortened ==
  ASSUME NEW q \in Seq(Packets), NEW k \in 1..(Len(q) + 1), NEW r, r = SubSeq(q, k, Len(q)),
         NEW key, NEW n, Chosen(q, key, n),
         \E i \in DOMAIN q : i >= k /\ q[i].seq = key /\ q[i].key
  PROVE  Chosen(r, key, n)
<1>1. /\ \A i \in DOMAIN r : k + i - 1 \in DOMAIN q /\ r[i] = q[k + i - 1]
      /\ \A j \in DOMAIN q : j >= k => j - k + 1 \in DOMAIN r /\ r[j - k + 1] = q[j]
  BY SuffixOf
<1>2. PICK j \in DOMAIN q : j >= k /\ q[j].seq = key /\ q[j].key
  OBVIOUS
<1>3. \E i \in DOMAIN r : r[i].seq = key /\ r[i].key
  <2>1. j - k + 1 \in DOMAIN r /\ r[j - k + 1] = q[j]
    BY <1>1, <1>2
  <2> QED BY <1>2, <2>1
<1>4. \A i \in DOMAIN r : r[i].key /\ r[i].seq <= n => r[i].seq <= key
  BY <1>1 DEF Chosen
<1> QED BY <1>3, <1>4 DEF Chosen

\* Pruning keeps the count, and with it every keyframe that is chosen: it never goes past
\* the newest keyframe of a video lane.
LEMMA PruneSound ==
  ASSUME NEW c, NEW n \in Nat, Sound(c, n)
  PROVE  /\ Sound(Prune(c), n) /\ Prune(c).state = c.state
         /\ Prune(c).observed = c.observed /\ Prune(c).committed = c.committed
<1> DEFINE longest == IF c.state = "Filling" /\ c.fromDelayed
                      THEN Largest({c.target, c.previousTarget}) ELSE c.target
           starts(s) == {i \in DOMAIN c.queues[s] :
                          Due(c, c.queues[s][i], longest + Headroom) /\ Keeps(s, c.queues[s][i])}
           from == [s \in Streams |-> IF starts(s) = {} THEN 1 ELSE Largest(starts(s))]
           left == [s \in Streams |-> SubSeq(c.queues[s], from[s], Len(c.queues[s]))]
           lost == [s \in Streams |-> from[s] - 1]
           d == [c EXCEPT !.queues = left, !.buffered = @ - FoldFunction(+, 0, lost)]
<1>1. Prune(c) = d
  BY DEF Prune
<1>2. IsCore(c) /\ Timed(c) /\ Held(c) /\ Numbered(c.queues, n) /\ Kept(c, n)
  BY DEF Sound
<1>3. ASSUME NEW s \in Streams
      PROVE  /\ from[s] \in 1..(Len(c.queues[s]) + 1)
             /\ from[s] = 1 \/ (from[s] \in DOMAIN c.queues[s] /\ Keeps(s, c.queues[s][from[s]]))
  <2>1. Len(c.queues[s]) \in Nat /\ DOMAIN c.queues[s] = 1..Len(c.queues[s])
    BY <1>2, QueueFacts
  <2>2. CASE starts(s) = {}
    <3>1. from[s] = 1
      BY <2>2
    <3>2. 1 \in 1..(Len(c.queues[s]) + 1)
      BY <2>1
    <3> HIDE DEF from
    <3> QED BY <3>1, <3>2
  <2>3. CASE starts(s) # {}
    <3> DEFINE S == starts(s)
    <3>1. S \in SUBSET (1..Len(c.queues[s])) /\ S \in SUBSET Int
      BY <2>1
    <3>2. IsFiniteSet(1..Len(c.queues[s]))
      <4>1. 1 \in Int /\ Len(c.queues[s]) \in Int
        BY <2>1
      <4> QED BY ONLY <4>1, FS_Interval
    <3>3. from[s] = Largest(S)
      BY <2>3
    <3>4. \A i \in S : i \in DOMAIN c.queues[s] /\ Keeps(s, c.queues[s][i])
      OBVIOUS
    <3> HIDE DEF S, from, starts
    <3>5. IsFiniteSet(S)
      BY <3>1, <3>2, FS_Subset
    <3>6. S # {}
      BY <2>3 DEF S
    <3>7. Largest(S) \in S
      BY <3>1, <3>5, <3>6, LargestOf
    <3>8. from[s] \in S
      BY <3>3, <3>7
    <3>9. from[s] \in 1..Len(c.queues[s])
      BY <3>1, <3>8
    <3> QED BY <2>1, <3>4, <3>8, <3>9
  <2> QED BY <2>2, <2>3
<1>4. Shortened(c.queues, left, from)
  <2>1. c.queues \in [Streams -> Seq(Packets)]
    BY <1>2 DEF Held
  <2> HIDE DEF from
  <2>2. \A s \in Streams : left[s] = SubSeq(c.queues[s], from[s], Len(c.queues[s]))
    OBVIOUS
  <2>3. DOMAIN left = Streams /\ left = [s \in Streams |-> left[s]]
    OBVIOUS
  <2> QED BY <1>3, <2>1, <2>2, <2>3 DEF Shortened
<1> HIDE DEF from
<1>5. lost = [s \in Streams |-> from[s] - 1] /\ FoldFunction(+, 0, lost) = Total(lost)
  BY DEF Total
<1>6. /\ left \in [Streams -> Seq(Packets)] /\ Numbered(left, n)
      /\ Total(Lengths(left)) = Total(Lengths(c.queues)) - Total(lost)
      /\ Total(Lengths(c.queues)) \in Nat /\ Total(lost) \in Nat
  <2> HIDE DEF left, lost
  <2>1. left \in [Streams -> Seq(Packets)] /\ Numbered(left, n)
    BY <1>2, <1>4, ShortenedNumbered
  <2>2. /\ Total(Lengths(left)) = Total(Lengths(c.queues)) - Total(lost)
        /\ Total(Lengths(c.queues)) \in Nat /\ Total(lost) \in Nat
    BY <1>4, <1>5, ShortenedTotal
  <2> QED BY <2>1, <2>2
<1>7. /\ IsCore(d) /\ d.queues = left /\ d.buffered = c.buffered - Total(lost)
      /\ \A x \in Fields \ {"queues", "buffered"} : d[x] = c[x]
  <2> HIDE DEF left, lost
  <2> QED BY <1>2, <1>5 DEF IsCore, Fields
<1> HIDE DEF d
<1>8. Timed(d)
  BY <1>2, <1>7 DEF Timed, Fields
<1>9. /\ d.pending = c.pending /\ d.committed = c.committed /\ d.state = c.state
      /\ d.returnKeys = c.returnKeys /\ d.observed = c.observed
  BY <1>7 DEF Fields
<1>10. Held(d)
  <2> HIDE DEF left, lost
  <2>1. Len(c.pending) \in Nat
    BY <1>2, LenProperties DEF Held
  <2>2. c.buffered = Len(c.pending) + Total(Lengths(c.queues)) /\ c.buffered <= MaxBuffered
    BY <1>2 DEF Held
  <2>3. MaxBuffered \in Nat
    BY PacketDelayAssumption
  <2>4. d.buffered = Len(c.pending) + Total(Lengths(left)) /\ d.buffered <= MaxBuffered
    BY <1>6, <1>7, <2>1, <2>2, <2>3
  <2>5. d.buffered = Len(d.pending) + Total(Lengths(d.queues))
    BY <1>7, <1>9, <2>4
  <2> QED BY <1>2, <1>6, <1>7, <1>9, <2>4, <2>5 DEF Held
<1>11. Kept(d, n)
  <2> SUFFICES ASSUME d.state = "Returning", ~d.committed, NEW s \in DOMAIN d.returnKeys
               PROVE  s \in Streams /\ IsVideo(s) /\ Chosen(left[s], c.returnKeys[s], n)
    BY <1>7, <1>9 DEF Kept
  <2>1. s \in Streams /\ IsVideo(s) /\ Chosen(c.queues[s], c.returnKeys[s], n)
    BY <1>2, <1>9 DEF Kept
  <2> DEFINE q == c.queues[s]
  <2>2. /\ q \in Seq(Packets) /\ DOMAIN q = 1..Len(q) /\ Len(q) \in Nat
        /\ \A i \in DOMAIN q : q[i].seq \in Nat /\ q[i].seq <= n
        /\ \A i, j \in DOMAIN q : i < j => q[i].seq < q[j].seq
    BY <1>2, <2>1, QueueFacts
  <2>3. /\ from[s] \in 1..(Len(q) + 1)
        /\ from[s] = 1 \/ (from[s] \in DOMAIN q /\ Keeps(s, q[from[s]]))
    BY <1>3, <2>1
  <2>4. left[s] = SubSeq(q, from[s], Len(q))
    BY <2>1
  <2> HIDE DEF q, left, lost
  <2>5. PICK k \in DOMAIN q : q[k].seq = c.returnKeys[s] /\ q[k].key
    BY <2>1 DEF Chosen, q
  <2>6. k >= from[s]
    <3>1. CASE from[s] = 1
      BY <2>2, <3>1
    <3>2. CASE from[s] \in DOMAIN q /\ Keeps(s, q[from[s]])
      <4>1. q[from[s]].key
        BY <2>1, <3>2 DEF Keeps
      <4>2. q[from[s]].seq <= q[k].seq
        BY <2>1, <2>2, <2>5, <3>2, <4>1 DEF Chosen, q
      <4>3. ~(k < from[s])
        <5> SUFFICES ASSUME k < from[s] PROVE FALSE
          OBVIOUS
        <5>1. q[k].seq < q[from[s]].seq
          BY <2>2, <3>2
        <5>2. q[k].seq \in Nat /\ q[from[s]].seq \in Nat
          BY <2>2, <3>2
        <5> QED BY <4>2, <5>1, <5>2
      <4> QED BY <2>2, <2>3, <4>3
    <3> QED BY <2>3, <3>1, <3>2
  <2>7. Chosen(left[s], c.returnKeys[s], n)
    <3>1. Chosen(q, c.returnKeys[s], n)
      BY <2>1 DEF q
    <3>2. \E i \in DOMAIN q : i >= from[s] /\ q[i].seq = c.returnKeys[s] /\ q[i].key
      BY <2>5, <2>6
    <3> QED BY <2>2, <2>3, <2>4, <3>1, <3>2, ChosenShortened
  <2> QED BY <2>1, <2>7
<1>12. Numbered(d.queues, n)
  BY <1>6, <1>7
<1> QED BY <1>1, <1>7, <1>8, <1>9, <1>10, <1>11, <1>12 DEF Sound

\* The object right after packet p with number n + 1 was appended: its keyframe, if it is
\* one, has not been looked at.
Entered(c, p, n) ==
  /\ IsCore(c) /\ Timed(c) /\ Held(c) /\ Numbered(c.queues, n + 1) /\ Kept(c, n)
  /\ \E i \in DOMAIN c.queues[p.stream] : c.queues[p.stream][i] = p

\* The queues r are q with packet p more, the last one of its stream.
Appended(q, r, p) == r = [q EXCEPT ![p.stream] = Append(@, p)]

\* What that makes of them, when n packets were pushed before.
Lengthened(q, r, p, n) ==
  /\ r \in [Streams -> Seq(Packets)] /\ Numbered(r, n + 1)
  /\ Total(Lengths(q)) \in Nat /\ Total(Lengths(r)) = Total(Lengths(q)) + 1
  /\ \E i \in DOMAIN r[p.stream] : r[p.stream][i] = p
  /\ \A s \in Streams : \A i \in DOMAIN r[s] :
       \/ i \in DOMAIN q[s] /\ r[s][i] = q[s][i]
       \/ s = p.stream /\ r[s][i] = p
  /\ \A s \in Streams : \A i \in DOMAIN q[s] : i \in DOMAIN r[s] /\ r[s][i] = q[s][i]

\* That is what a packet appended to its queue makes of the queues.
LEMMA AppendedQueues ==
  ASSUME NEW q \in [Streams -> Seq(Packets)], NEW n \in Nat, Numbered(q, n),
         NEW p \in Packets, p.seq = n + 1, NEW r, Appended(q, r, p)
  PROVE  Lengthened(q, r, p, n)
<1> USE DEF Appended
<1> DEFINE s0 == p.stream
<1>1. s0 \in Streams
  BY DEF Packets
<1>2. ASSUME NEW s \in Streams
      PROVE  /\ q[s] \in Seq(Packets) /\ Len(q[s]) \in Nat /\ DOMAIN q[s] = 1..Len(q[s])
             /\ \A i \in DOMAIN q[s] : q[s][i].seq \in Nat /\ q[s][i].seq <= n
  <2>1. q[s] \in Seq(Packets)
    OBVIOUS
  <2>2. Len(q[s]) \in Nat /\ DOMAIN q[s] = 1..Len(q[s])
    BY <2>1, LenProperties
  <2>3. \A i \in DOMAIN q[s] : q[s][i] \in Packets
    BY <2>1, <2>2, ElementOfSeq
  <2>4. \A i \in DOMAIN q[s] : q[s][i].seq \in Nat
    BY <2>3 DEF Packets
  <2> QED BY <2>1, <2>2, <2>4 DEF Numbered
<1> DEFINE longer == Append(q[s0], p)
<1>3. /\ longer \in Seq(Packets) /\ Len(longer) = Len(q[s0]) + 1
      /\ \A i \in 1..Len(q[s0]) : longer[i] = q[s0][i]
      /\ longer[Len(q[s0]) + 1] = p
  BY <1>1, <1>2, AppendProperties
<1>4. DOMAIN longer = 1..(Len(q[s0]) + 1)
  BY <1>3, LenProperties
<1>5. r[s0] = longer /\ \A s \in Streams : s # s0 => r[s] = q[s]
  BY <1>1
<1>6. r \in [Streams -> Seq(Packets)]
  BY <1>1, <1>3
<1> HIDE DEF s0, longer
<1>7. ASSUME NEW s \in Streams, NEW i \in DOMAIN r[s]
      PROVE  /\ i \in Int
             /\ \/ i \in DOMAIN q[s] /\ r[s][i] = q[s][i]
                \/ s = s0 /\ r[s][i] = p /\ i = Len(q[s0]) + 1
  <2>1. CASE s = s0
    <3>1. i \in 1..(Len(q[s0]) + 1) /\ Len(q[s0]) \in Nat
      BY <1>1, <1>2, <1>4, <1>5, <2>1
    <3>2. CASE i \in 1..Len(q[s0])
      <4>1. i \in DOMAIN q[s] /\ r[s][i] = q[s][i]
        BY <1>1, <1>2, <1>3, <1>5, <2>1, <3>2
      <4> QED BY <3>1, <4>1
    <3>3. CASE i = Len(q[s0]) + 1
      <4>1. r[s][i] = p
        BY <1>3, <1>5, <2>1, <3>3
      <4>2. i \in Int
        BY <3>1
      <4> QED BY <2>1, <3>3, <4>1, <4>2
    <3> QED BY <3>1, <3>2, <3>3
  <2>2. CASE s # s0
    <3>1. r[s] = q[s]
      BY <1>5, <2>2
    <3>2. i \in Int
      BY <1>2, <3>1
    <3> QED BY <3>1, <3>2
  <2> QED BY <2>1, <2>2
<1>8. ASSUME NEW s \in Streams, NEW i \in DOMAIN q[s] PROVE i \in DOMAIN r[s] /\ r[s][i] = q[s][i]
  <2>1. CASE s = s0
    BY <1>2, <1>3, <1>4, <1>5, <2>1
  <2>2. CASE s # s0
    BY <1>5, <2>2
  <2> QED BY <2>1, <2>2
<1>9. \E i \in DOMAIN r[s0] : r[s0][i] = p
  <2>1. Len(q[s0]) + 1 \in DOMAIN r[s0]
    BY <1>1, <1>2, <1>4, <1>5
  <2>2. r[s0][Len(q[s0]) + 1] = p
    BY <1>3, <1>5
  <2> QED BY <2>1, <2>2
<1>10. Numbered(r, n + 1)
  <2>1. ASSUME NEW s \in Streams, NEW i \in DOMAIN r[s]
        PROVE  r[s][i].stream = s /\ r[s][i].seq <= n + 1
    <3>1. CASE i \in DOMAIN q[s] /\ r[s][i] = q[s][i]
      <4>1. q[s][i].stream = s
        BY <3>1 DEF Numbered
      <4>2. q[s][i].seq <= n + 1
        BY <1>2, <3>1
      <4> QED BY <3>1, <4>1, <4>2
    <3>2. CASE s = s0 /\ r[s][i] = p
      BY <3>2 DEF s0
    <3> QED BY <1>7, <3>1, <3>2
  <2>2. ASSUME NEW s \in Streams, NEW i \in DOMAIN r[s], NEW j \in DOMAIN r[s], i < j
        PROVE  r[s][i].seq < r[s][j].seq
    <3>1. CASE i \in DOMAIN q[s] /\ r[s][i] = q[s][i] /\ j \in DOMAIN q[s] /\ r[s][j] = q[s][j]
      BY <2>2, <3>1 DEF Numbered
    <3>2. CASE i \in DOMAIN q[s] /\ r[s][i] = q[s][i] /\ r[s][j] = p
      <4>1. q[s][i].seq \in Nat /\ q[s][i].seq <= n
        BY <1>2, <3>2
      <4> QED BY <3>2, <4>1
    <3>3. CASE s = s0 /\ i = Len(q[s0]) + 1
      <4>1. j \in Int /\ Len(q[s0]) \in Nat /\ j <= Len(q[s0]) + 1
        <5>1. j \in DOMAIN q[s0] \/ j = Len(q[s0]) + 1
          BY <1>7, <3>3
        <5> QED BY <1>1, <1>2, <5>1
      <4> QED BY <2>2, <3>3, <4>1
    <3> QED BY <1>7, <3>1, <3>2, <3>3
  <2>3. ASSUME NEW s \in Streams, NEW t \in Streams, NEW i \in DOMAIN r[s], NEW j \in DOMAIN r[t],
               r[s][i].seq = r[t][j].seq
        PROVE  s = t
    <3>1. CASE i \in DOMAIN q[s] /\ r[s][i] = q[s][i] /\ j \in DOMAIN q[t] /\ r[t][j] = q[t][j]
      BY <2>3, <3>1 DEF Numbered
    <3>2. CASE i \in DOMAIN q[s] /\ r[s][i] = q[s][i] /\ r[t][j] = p
      <4>1. q[s][i].seq \in Nat /\ q[s][i].seq <= n
        BY <1>2, <3>2
      <4> QED BY <2>3, <3>2, <4>1
    <3>3. CASE r[s][i] = p /\ j \in DOMAIN q[t] /\ r[t][j] = q[t][j]
      <4>1. q[t][j].seq \in Nat /\ q[t][j].seq <= n
        BY <1>2, <3>3
      <4> QED BY <2>3, <3>3, <4>1
    <3>4. CASE s = s0 /\ t = s0
      BY <3>4
    <3> QED BY <1>7, <3>1, <3>2, <3>3, <3>4
  <2> QED BY <2>1, <2>2, <2>3 DEF Numbered
<1>11. Total(Lengths(q)) \in Nat /\ Total(Lengths(r)) = Total(Lengths(q)) + 1
  <2> DEFINE f == Lengths(q)
             g == Lengths(r)
  <2>1. DOMAIN f = Streams /\ DOMAIN g = Streams
    BY DEF Lengths
  <2>2. \A x \in Streams : f[x] \in Int /\ g[x] \in Int /\ (x # s0 => g[x] = f[x])
    <3>1. \A x \in Streams : f[x] \in Int
      BY LengthsTotal
    <3>2. \A x \in Streams : g[x] \in Int
      BY ONLY <1>6, LengthsTotal
    <3>3. \A x \in Streams : x # s0 => g[x] = f[x]
      BY <1>5 DEF Lengths
    <3> QED BY <3>1, <3>2, <3>3
  <2>3. g[s0] - f[s0] = 1
    <3>1. f[s0] = Len(q[s0]) /\ g[s0] = Len(longer)
      BY <1>1, <1>5 DEF Lengths
    <3> QED BY <1>1, <1>2, <1>3, <3>1
  <2>4. IsFiniteSet(Streams)
    BY PacketDelayAssumption
  <2>5. Total(f) \in Nat
    BY LengthsTotal
  <2> HIDE DEF f, g
  <2>6. Total(g) = Total(f) + (g[s0] - f[s0])
    BY ONLY <1>1, <2>1, <2>2, <2>4, TotalAt
  <2>7. Total(g) = Total(f) + 1
    BY <2>3, <2>6
  <2> QED BY <2>5, <2>7 DEF f, g
<1>12. \A s \in Streams : \A i \in DOMAIN r[s] :
         \/ i \in DOMAIN q[s] /\ r[s][i] = q[s][i]
         \/ s = p.stream /\ r[s][i] = p
  BY <1>7 DEF s0
<1> QED BY <1>6, <1>8, <1>9, <1>10, <1>11, <1>12 DEF s0, Lengthened

\* A packet that is queued is counted; the object that has no room for it is in error.
LEMMA EnqueueSound ==
  ASSUME NEW c, NEW n \in Nat, Sound(c, n), NEW p \in Packets, p.seq = n + 1
  PROVE  \/ Sound(Enqueue(c, p), n + 1) /\ Enqueue(c, p).state = "Error"
         \/ /\ Entered(Enqueue(c, p), p, n)
            /\ Enqueue(c, p).state = c.state /\ Enqueue(c, p).committed = c.committed
<1> DEFINE s == p.stream
           ready == PrepareStream(c, s)
           timed == IF EpochActive(ready) THEN CreateOffset(ready, p, ready.target) ELSE ready
           room == IF timed.state = "Returning" THEN timed ELSE Prune(timed)
           dts == OrderingDts(timed, p)
           newest == IF s \in DOMAIN room.latest THEN Largest({room.latest[s], dts}) ELSE dts
           lanes == IF EpochActive(room) THEN room.active \cup {s} ELSE room.active
           longer == [room.queues EXCEPT ![s] = Append(@, p)]
           e == [room EXCEPT
                   !.queues[s] = Append(@, p), !.buffered = @ + 1,
                   !.latest = With(@, s, newest), !.seen = With(@, s, room.observed),
                   !.active = lanes]
<1>1. Enqueue(c, p) = IF ready.state = "Error" THEN ready
                      ELSE IF room.buffered >= MaxBuffered THEN EnterError(room) ELSE e
  BY DEF Enqueue
<1>2. p.dts \in Int /\ p.pts \in Int /\ s \in Streams
  BY DEF Packets
<1>3. IsCore(c) /\ Timed(c)
  BY DEF Sound
<1>4. Sound(ready, n) /\ (ready.state = "Error" \/ SameBuffer(c, ready))
  <2> HIDE DEF s
  <2>1. CASE ready = EnterError(c)
    BY <1>3, <2>1, ErrorSound
  <2>2. CASE IsCore(ready) /\ Timed(ready) /\ SameBuffer(c, ready)
    BY <2>2, SameBufferSound
  <2> QED BY <1>3, <2>1, <2>2, PrepareStreamSame
<1>5. CASE ready.state = "Error"
  <2>1. Sound(ready, n + 1)
    <3> HIDE DEF ready
    <3>1. n + 1 \in Nat /\ n <= n + 1
      OBVIOUS
    <3> QED BY <1>4, <3>1, SoundLater
  <2> QED BY <1>1, <1>5, <2>1
<1>6. CASE ready.state # "Error"
  <2>1. SameBuffer(c, ready) /\ IsCore(ready) /\ Timed(ready)
    BY <1>4, <1>6 DEF Sound
  <2>2. Sound(timed, n) /\ SameBuffer(ready, timed)
    <3>1. CASE EpochActive(ready)
      <4> HIDE DEF ready, s
      <4>1. ready.target \in Int
        BY <2>1 DEF Timed
      <4>2. timed = CreateOffset(ready, p, ready.target)
        BY <3>1
      <4>3. IsCore(timed) /\ Timed(timed) /\ SameBuffer(ready, timed)
        BY <1>2, <2>1, <4>1, <4>2, CreateOffsetSame
      <4> QED BY <1>4, <4>3, SameBufferSound
    <3>2. CASE ~EpochActive(ready)
      <4>1. timed = ready
        BY <3>2
      <4>2. SameBuffer(ready, ready)
        BY DEF SameBuffer
      <4> QED BY <1>4, <4>1, <4>2
    <3> QED BY <3>1, <3>2
  <2> HIDE DEF timed
  <2>3. /\ Sound(room, n) /\ room.state = timed.state /\ room.committed = timed.committed
    <3>1. CASE timed.state = "Returning"
      BY <2>2, <3>1
    <3>2. CASE timed.state # "Returning"
      <4>1. room = Prune(timed)
        BY <3>2
      <4> QED BY <2>2, <4>1, PruneSound
    <3> QED BY <3>1, <3>2
  <2>4. room.state = c.state /\ room.committed = c.committed
    BY <2>1, <2>2, <2>3 DEF SameBuffer
  <2> HIDE DEF room, ready
  <2>5. CASE room.buffered >= MaxBuffered
    <3>1. Enqueue(c, p) = EnterError(room)
      BY <1>1, <1>6, <2>5
    <3>2. IsCore(room) /\ Timed(room)
      BY <2>3 DEF Sound
    <3>3. Sound(EnterError(room), n + 1) /\ EnterError(room).state = "Error"
      BY <3>2, ErrorSound
    <3> QED BY <3>1, <3>3
  <2>6. CASE ~(room.buffered >= MaxBuffered)
    <3>1. Enqueue(c, p) = e
      BY <1>1, <1>6, <2>6
    <3>2. IsCore(room) /\ Timed(room) /\ Held(room) /\ Numbered(room.queues, n) /\ Kept(room, n)
      BY <2>3 DEF Sound
    <3> HIDE DEF newest, lanes, s
    <3>3. /\ IsCore(e) /\ e.queues = longer /\ e.buffered = room.buffered + 1
          /\ \A x \in Fields \ {"queues", "buffered", "latest", "seen", "active"} : e[x] = room[x]
      BY <3>2 DEF IsCore, Fields
    <3>4. room.queues \in [Streams -> Seq(Packets)]
      BY <3>2 DEF Held
    <3>5. Appended(room.queues, longer, p)
      BY DEF s, Appended
    <3> HIDE DEF e, longer
    <3>6. /\ longer \in [Streams -> Seq(Packets)] /\ Numbered(longer, n + 1)
          /\ Total(Lengths(room.queues)) \in Nat
          /\ Total(Lengths(longer)) = Total(Lengths(room.queues)) + 1
          /\ \E i \in DOMAIN longer[p.stream] : longer[p.stream][i] = p
          /\ \A t \in Streams : \A i \in DOMAIN longer[t] :
               \/ i \in DOMAIN room.queues[t] /\ longer[t][i] = room.queues[t][i]
               \/ t = p.stream /\ longer[t][i] = p
          /\ \A t \in Streams : \A i \in DOMAIN room.queues[t] :
               i \in DOMAIN longer[t] /\ longer[t][i] = room.queues[t][i]
      <4>1. p \in Packets /\ p.seq = n + 1 /\ n \in Nat
        OBVIOUS
      <4>2. Lengthened(room.queues, longer, p, n)
        BY <3>2, <3>4, <3>5, <4>1, AppendedQueues
      <4> QED BY <4>2 DEF Lengthened
    <3>7. Timed(e)
      BY <3>2, <3>3 DEF Timed, Fields
    <3>8. /\ e.pending = room.pending /\ e.committed = room.committed /\ e.state = room.state
          /\ e.returnKeys = room.returnKeys
      BY <3>3 DEF Fields
    <3>9. Held(e)
      <4>1. Len(room.pending) \in Nat
        BY <3>2, LenProperties DEF Held
      <4>2. /\ room.buffered = Len(room.pending) + Total(Lengths(room.queues))
            /\ room.buffered <= MaxBuffered
        BY <3>2 DEF Held
      <4>3. MaxBuffered \in Nat
        BY PacketDelayAssumption
      <4>4. e.buffered = Len(room.pending) + Total(Lengths(longer)) /\ e.buffered <= MaxBuffered
        <5>1. room.buffered \in Int /\ e.buffered = room.buffered + 1
          BY <3>3, <3>6, <4>1, <4>2
        <5>2. e.buffered <= MaxBuffered
          BY <2>6, <4>3, <5>1
        <5>3. e.buffered = Len(room.pending) + Total(Lengths(longer))
          BY <3>6, <4>1, <4>2, <5>1
        <5> QED BY <5>2, <5>3
      <4>5. e.buffered = Len(e.pending) + Total(Lengths(e.queues))
        BY <3>3, <3>8, <4>4
      <4> QED BY <3>2, <3>3, <3>6, <3>8, <4>4, <4>5 DEF Held
    <3>10. Kept(e, n)
      <4> SUFFICES ASSUME e.state = "Returning", ~e.committed, NEW t \in DOMAIN e.returnKeys
                   PROVE  t \in Streams /\ IsVideo(t) /\ Chosen(longer[t], room.returnKeys[t], n)
        BY <3>3, <3>8 DEF Kept
      <4>1. t \in Streams /\ IsVideo(t) /\ Chosen(room.queues[t], room.returnKeys[t], n)
        BY <3>2, <3>8 DEF Kept
      <4>2. \E i \in DOMAIN longer[t] : longer[t][i].seq = room.returnKeys[t] /\ longer[t][i].key
        BY <3>6, <4>1 DEF Chosen
      <4>3. ASSUME NEW i \in DOMAIN longer[t], longer[t][i].key, longer[t][i].seq <= n
            PROVE  longer[t][i].seq <= room.returnKeys[t]
        <5>1. longer[t][i] # p
          BY <4>3
        <5>2. i \in DOMAIN room.queues[t] /\ longer[t][i] = room.queues[t][i]
          BY <3>6, <4>1, <5>1
        <5> QED BY <4>1, <4>3, <5>2 DEF Chosen
      <4> QED BY <4>1, <4>2, <4>3 DEF Chosen
    <3>11. Numbered(e.queues, n + 1) /\ \E i \in DOMAIN e.queues[p.stream] : e.queues[p.stream][i] = p
      BY <3>3, <3>6
    <3>12. Entered(e, p, n)
      BY <3>3, <3>7, <3>9, <3>10, <3>11 DEF Entered
    <3> QED BY <2>4, <3>1, <3>8, <3>12
  <2> QED BY <2>5, <2>6
<1> QED BY <1>5, <1>6

\* Once its keyframe has been looked at, the object is sound again.
LEMMA ObserveSound ==
  ASSUME NEW c, NEW n \in Nat, NEW p \in Packets, p.seq = n + 1, Entered(c, p, n)
  PROVE  Sound(ObserveKeyframe(c, p), n + 1)
<1> DEFINE s0 == p.stream
<1>1. IsCore(c) /\ Timed(c) /\ Held(c) /\ Numbered(c.queues, n + 1) /\ Kept(c, n)
  BY DEF Entered
<1>2. s0 \in Streams
  BY DEF Packets
<1>3. PICK k \in DOMAIN c.queues[s0] : c.queues[s0][k] = p
  BY DEF Entered
<1>4. ASSUME NEW s \in Streams, NEW i \in DOMAIN c.queues[s], ~(c.queues[s][i].seq <= n)
      PROVE  s = s0 /\ c.queues[s][i] = p
  <2>1. c.queues[s][i].seq \in Nat /\ c.queues[s][i].seq <= n + 1
    BY <1>1, QueueFacts
  <2>2. c.queues[s][i].seq = c.queues[s0][k].seq
    BY <1>3, <1>4, <2>1
  <2>3. s = s0
    BY <1>1, <1>2, <2>2 DEF Numbered
  <2>4. /\ DOMAIN c.queues[s] = 1..Len(c.queues[s]) /\ Len(c.queues[s]) \in Nat
        /\ ~(i < k) /\ ~(k < i)
    <3>1. DOMAIN c.queues[s] = 1..Len(c.queues[s]) /\ Len(c.queues[s]) \in Nat
      BY <1>1, QueueFacts
    <3>2. i < k => c.queues[s][i].seq < c.queues[s][k].seq
      BY <1>1, <1>3, <2>3 DEF Numbered
    <3>3. k < i => c.queues[s][k].seq < c.queues[s][i].seq
      BY <1>1, <1>3, <2>3 DEF Numbered
    <3> QED BY <2>1, <2>2, <2>3, <3>1, <3>2, <3>3
  <2>5. i = k
    BY <1>3, <2>3, <2>4
  <2> QED BY <1>3, <2>3, <2>5
<1>5. \A s \in Streams : \A i \in DOMAIN c.queues[s] :
        c.queues[s][i].seq \in Nat /\ c.queues[s][i].seq <= n + 1
  BY <1>1, QueueFacts
<1>6. ASSUME NEW s \in DOMAIN c.returnKeys, c.state = "Returning", ~c.committed,
             ~(s = s0 /\ p.key)
      PROVE  s \in Streams /\ IsVideo(s) /\ Chosen(c.queues[s], c.returnKeys[s], n + 1)
  <2>1. s \in Streams /\ IsVideo(s) /\ Chosen(c.queues[s], c.returnKeys[s], n)
    BY <1>1, <1>6 DEF Kept
  <2>2. ASSUME NEW i \in DOMAIN c.queues[s], c.queues[s][i].key
        PROVE  c.queues[s][i].seq <= c.returnKeys[s]
    <3>1. c.queues[s][i].seq <= n
      BY <1>4, <1>6, <2>1, <2>2
    <3> QED BY <2>1, <2>2, <3>1 DEF Chosen
  <2> QED BY <2>1, <2>2 DEF Chosen
<1>7. CASE IsVideo(s0) /\ p.key
  <2> DEFINE keys == With(c.returnKeys, s0, p.seq)
             d == [c EXCEPT !.returnKeys = keys]
  <2>1. ObserveKeyframe(c, p) = d
    BY <1>7 DEF ObserveKeyframe
  <2>2. keys[s0] = p.seq /\ DOMAIN keys = DOMAIN c.returnKeys \cup {s0}
        /\ \A s \in DOMAIN c.returnKeys : s # s0 => keys[s] = c.returnKeys[s]
    BY DEF With
  <2> HIDE DEF s0, keys
  <2>3. IsCore(d) /\ d.returnKeys = keys /\ \A x \in Fields \ {"returnKeys"} : d[x] = c[x]
    BY <1>1 DEF IsCore, Fields
  <2> HIDE DEF d
  <2>4. /\ d.queues = c.queues /\ d.pending = c.pending /\ d.buffered = c.buffered
        /\ d.committed = c.committed /\ d.state = c.state
    BY <2>3 DEF Fields
  <2>5. Timed(d)
    BY <1>1, <2>3 DEF Timed, Fields
  <2>6. Held(d)
    BY <1>1, <2>4 DEF Held
  <2>7. Chosen(c.queues[s0], p.seq, n + 1)
    <3>1. \A i \in DOMAIN c.queues[s0] : c.queues[s0][i].seq <= p.seq
      BY <1>2, <1>5
    <3> QED BY <1>3, <1>7, <3>1 DEF Chosen
  <2>8. Kept(d, n + 1)
    <3> SUFFICES ASSUME d.state = "Returning", ~d.committed, NEW s \in DOMAIN d.returnKeys
                 PROVE  s \in Streams /\ IsVideo(s) /\ Chosen(c.queues[s], keys[s], n + 1)
      BY <2>3, <2>4 DEF Kept
    <3>1. CASE s = s0
      BY <1>2, <1>7, <2>2, <2>7, <3>1
    <3>2. CASE s # s0
      <4>1. s \in DOMAIN c.returnKeys /\ keys[s] = c.returnKeys[s]
        BY <2>2, <2>3, <3>2
      <4>2. s \in Streams /\ IsVideo(s) /\ Chosen(c.queues[s], c.returnKeys[s], n + 1)
        BY <1>6, <2>4, <3>2, <4>1
      <4> QED BY <4>1, <4>2
    <3> QED BY <3>1, <3>2
  <2>9. Numbered(d.queues, n + 1)
    BY <1>1, <2>4
  <2> QED BY <2>1, <2>3, <2>5, <2>6, <2>8, <2>9 DEF Sound
<1>8. CASE ~(IsVideo(s0) /\ p.key)
  <2>1. ObserveKeyframe(c, p) = c
    BY <1>8 DEF ObserveKeyframe
  <2>2. Kept(c, n + 1)
    <3> SUFFICES ASSUME c.state = "Returning", ~c.committed, NEW s \in DOMAIN c.returnKeys
                 PROVE  s \in Streams /\ IsVideo(s) /\ Chosen(c.queues[s], c.returnKeys[s], n + 1)
      BY DEF Kept
    <3>1. IsVideo(s)
      BY <1>1 DEF Kept
    <3>2. ~(s = s0 /\ p.key)
      BY <1>8, <3>1
    <3> QED BY <1>6, <3>2
  <2> QED BY <1>1, <2>1, <2>2 DEF Sound
<1> QED BY <1>7, <1>8

\* Without a return there is no keyframe to look at.
LEMMA EnteredSound ==
  ASSUME NEW c, NEW n \in Nat, NEW p, Entered(c, p, n), c.state # "Returning" \/ c.committed
  PROVE  Sound(c, n + 1)
BY DEF Entered, Sound, Kept

\* The values of a function on a finite set.
LEMMA ImageFinite ==
  ASSUME NEW X, IsFiniteSet(X), NEW f
  PROVE  IsFiniteSet({f[x] : x \in X})
<1> DEFINE T == {f[x] : x \in X}
           g == [x \in X |-> f[x]]
<1>1. g \in Surjection(X, T)
  BY DEF Surjection
<1> HIDE DEF g, T
<1>2. IsFiniteSet(T)
  BY <1>1, FS_Surjection
<1> QED BY <1>2 DEF T

\* There is an earliest packet, and it is the first one of its stream.
LEMMA EarliestIsFirst ==
  ASSUME NEW c, NEW n, Timed(c), Held(c), Numbered(c.queues, n), Candidates(c) # {}
  PROVE  \E s \in Streams : c.queues[s] # <<>> /\ Earliest(c) = c.queues[s][1]
<1> DEFINE X == {q \in Queued(c) : Due(c, c.queues[q][1], c.target)}
           heads == [s \in Streams |-> c.queues[s][1]]
<1>1. IsFiniteSet(X) /\ X \in SUBSET Streams
  BY FS_Subset, PacketDelayAssumption DEF Queued
<1>2. Candidates(c) = {heads[s] : s \in X}
  BY <1>1 DEF Candidates
<1>3. IsFiniteSet(Candidates(c))
  <2> HIDE DEF X, heads
  <2> QED BY <1>1, <1>2, ImageFinite
<1>4. ASSUME NEW s \in X
      PROVE  s \in Streams /\ c.queues[s] # <<>> /\ heads[s] = c.queues[s][1] /\ heads[s] \in Packets
  <2>1. s \in Streams /\ c.queues[s] # <<>>
    BY DEF Queued
  <2>2. /\ c.queues[s] \in Seq(Packets) /\ DOMAIN c.queues[s] = 1..Len(c.queues[s])
        /\ \A i \in DOMAIN c.queues[s] : c.queues[s][i] \in Packets
    BY <2>1, QueueFacts
  <2>3. Len(c.queues[s]) \in Nat \ {0}
    BY <2>1, <2>2, EmptySeq
  <2>4. 1 \in DOMAIN c.queues[s]
    BY <2>2, <2>3
  <2> QED BY <2>1, <2>2, <2>4
<1> DEFINE dts == [p \in Candidates(c) |-> OrderingDts(c, p)]
           seq == [p \in Candidates(c) |-> p.seq]
<1>5. ASSUME NEW p \in Candidates(c)
      PROVE  dts[p] \in Int /\ seq[p] \in Int
  <2>1. p \in Packets
    BY <1>2, <1>4
  <2>2. p.dts \in Int /\ p.seq \in Int
    BY <2>1 DEF Packets
  <2>3. OrderingDts(c, p) \in Int
    BY <2>2 DEF OrderingDts, Timed, IntValued
  <2> QED BY <2>2, <2>3
<1>6. \E p \in Candidates(c) : \A q \in Candidates(c) :
        dts[p] < dts[q] \/ (dts[p] = dts[q] /\ seq[p] <= seq[q])
  <2> HIDE DEF dts, seq
  <2> QED BY <1>3, <1>5, LeastOfTwo
<1>7. Earliest(c) \in Candidates(c)
  <2>1. \E p \in Candidates(c) : \A q \in Candidates(c) :
          \/ OrderingDts(c, p) < OrderingDts(c, q)
          \/ OrderingDts(c, p) = OrderingDts(c, q) /\ p.seq <= q.seq
    BY <1>6
  <2> QED BY <2>1 DEF Earliest
<1>8. PICK s \in X : Earliest(c) = heads[s]
  <2> HIDE DEF X, heads
  <2> QED BY <1>2, <1>7
<1> HIDE DEF X, heads
<1> QED BY <1>4, <1>8

\* Handing a packet out does not touch the buffer.
LEMMA EmitSound ==
  ASSUME NEW c, NEW n, Sound(c, n), NEW p \in Packets, NEW packets
  PROVE  /\ Sound(Emit(c, p, packets).core, n)
         /\ Emit(c, p, packets).more => Emit(c, p, packets).core.pending = c.pending
<1> DEFINE q == Shifted(p, c.offsets[p.stream])
<1>1. IsCore(c) /\ Timed(c)
  BY DEF Sound
<1>2. CASE p.stream \notin DOMAIN c.offsets \/ Regresses(c, q)
  <2>1. Emit(c, p, packets) = Result(EnterError(c), packets, FALSE)
    BY <1>2 DEF Emit
  <2>2. Emit(c, p, packets).core = EnterError(c) /\ Emit(c, p, packets).more = FALSE
    BY <2>1 DEF Result
  <2> QED BY <1>1, <2>2, ErrorSound
<1>3. CASE ~(p.stream \notin DOMAIN c.offsets \/ Regresses(c, q))
  <2>1. Emit(c, p, packets) = Result(NoteOutput(c, q), Append(packets, q), TRUE)
    BY <1>3 DEF Emit
  <2>2. Emit(c, p, packets).core = NoteOutput(c, q)
    BY <2>1 DEF Result
  <2>3. c.offsets[p.stream] \in Int
    BY <1>1, <1>3 DEF Timed, IntValued
  <2>4. q.dts \in Int /\ q.pts \in Int
    BY <2>3, ShiftedTyped
  <2> HIDE DEF q
  <2>5. /\ IsCore(NoteOutput(c, q)) /\ Timed(NoteOutput(c, q))
        /\ SameBuffer(c, NoteOutput(c, q))
    BY <1>1, <2>4, NoteOutputSame
  <2>6. Sound(NoteOutput(c, q), n) /\ NoteOutput(c, q).pending = c.pending
    BY <2>5, SameBufferSound DEF SameBuffer
  <2> QED BY <2>2, <2>6
<1> QED BY <1>2, <1>3

\* The queues without the first packet of s.
LEMMA TailQueues ==
  ASSUME NEW q \in [Streams -> Seq(Packets)], NEW s \in Streams, q[s] # <<>>,
         NEW r, r = [q EXCEPT ![s] = Tail(@)]
  PROVE  /\ r \in [Streams -> Seq(Packets)] /\ \A n : Numbered(q, n) => Numbered(r, n)
         /\ Total(Lengths(q)) \in Nat /\ Total(Lengths(r)) = Total(Lengths(q)) - 1
         /\ r[s] = SubSeq(q[s], 2, Len(q[s])) /\ \A t \in Streams : t # s => r[t] = q[t]
<1> DEFINE from == [t \in Streams |-> IF t = s THEN 2 ELSE 1]
<1>1. ASSUME NEW t \in Streams PROVE q[t] \in Seq(Packets) /\ Len(q[t]) \in Nat
  BY LenProperties
<1>2. Len(q[s]) \in Nat \ {0} /\ Len(Tail(q[s])) = Len(q[s]) - 1
  BY <1>1, EmptySeq, HeadTailProperties
<1>3. r[s] = Tail(q[s]) /\ \A t \in Streams : t # s => r[t] = q[t]
  OBVIOUS
<1>4. r[s] = SubSeq(q[s], 2, Len(q[s]))
  BY <1>1, <1>3, TailIsSubSeq
<1>5. ASSUME NEW t \in Streams
      PROVE  from[t] \in 1..(Len(q[t]) + 1) /\ r[t] = SubSeq(q[t], from[t], Len(q[t]))
  <2>1. CASE t = s
    <3>1. from[t] = 2
      BY <2>1
    <3> HIDE DEF from
    <3>2. 2 \in 1..(Len(q[t]) + 1)
      BY <1>2, <2>1
    <3> QED BY <1>4, <2>1, <3>1, <3>2
  <2>2. CASE t # s
    <3>1. from[t] = 1
      BY <2>2
    <3> HIDE DEF from
    <3>2. 1 \in 1..(Len(q[t]) + 1)
      BY <1>1
    <3>3. SubSeq(q[t], 1, Len(q[t])) = q[t]
      BY <1>1, SubSeqFull
    <3> QED BY <1>3, <2>2, <3>1, <3>2, <3>3
  <2> QED BY <2>1, <2>2
<1>6. DOMAIN r = Streams /\ r = [t \in Streams |-> r[t]]
  OBVIOUS
<1>7. Shortened(q, r, from)
  <2> HIDE DEF from
  <2> QED BY <1>5, <1>6 DEF Shortened
<1>8. r \in [Streams -> Seq(Packets)] /\ \A n : Numbered(q, n) => Numbered(r, n)
  <2> HIDE DEF from
  <2> QED BY ONLY <1>7, ShortenedNumbered
<1> DEFINE f == Lengths(q)
           g == Lengths(r)
<1>9. DOMAIN f = Streams /\ DOMAIN g = Streams
  BY DEF Lengths
<1>10. \A x \in Streams : f[x] \in Int /\ g[x] \in Int /\ (x # s => g[x] = f[x])
  <2>1. \A x \in Streams : f[x] \in Int
    BY LengthsTotal
  <2>2. \A x \in Streams : g[x] \in Int
    <3>1. r \in [Streams -> Seq(Packets)]
      BY <1>8
    <3> HIDE DEF from
    <3>2. \A x \in Streams : Lengths(r)[x] \in Nat
      BY ONLY <3>1, LengthsTotal
    <3> QED BY ONLY <3>2
  <2>3. \A x \in Streams : x # s => g[x] = f[x]
    BY <1>3 DEF Lengths
  <2> QED BY <2>1, <2>2, <2>3
<1>11. g[s] - f[s] = -1
  <2>1. f[s] = Len(q[s]) /\ g[s] = Len(Tail(q[s]))
    BY <1>3 DEF Lengths
  <2> QED BY <1>2, <2>1
<1>12. IsFiniteSet(Streams) /\ s \in Streams
  BY PacketDelayAssumption
<1>13. Total(f) \in Nat
  BY LengthsTotal
<1> HIDE DEF f, g, from
<1>14. Total(g) = Total(f) + (g[s] - f[s])
  BY ONLY <1>9, <1>10, <1>12, TotalAt
<1>15. Total(g) = Total(f) - 1
  BY <1>11, <1>13, <1>14
<1> QED BY <1>3, <1>4, <1>8, <1>13, <1>15 DEF f, g

\* One round of the drain: the chosen keyframe of a lane is handed out only when it is not
\* chosen any more.
LEMMA DrainOneSound ==
  ASSUME NEW c, NEW n, Sound(c, n), NEW packets
  PROVE  Sound(DrainOne(c, packets).core, n)
<1> DEFINE p == Earliest(c)
           returning == c.state = "Returning" /\ ~c.committed
           passed == IF returning /\ IsVideo(p.stream) /\ GoesLive(c, p)
                     THEN [c EXCEPT !.returnKeys = Without(@, {p.stream})] ELSE c
           taken == [passed EXCEPT !.queues[p.stream] = Tail(@), !.buffered = @ - 1]
<1>1. CASE ~(LiveLanes(c) \subseteq DOMAIN c.latest) \/ Candidates(c) = {}
  <2>1. DrainOne(c, packets) = Result(c, packets, FALSE)
    BY <1>1 DEF DrainOne
  <2>2. DrainOne(c, packets).core = c
    BY <2>1 DEF Result
  <2> QED BY <2>2
<1>2. CASE ~(~(LiveLanes(c) \subseteq DOMAIN c.latest) \/ Candidates(c) = {})
  <2>1. IsCore(c) /\ Timed(c) /\ Held(c) /\ Numbered(c.queues, n) /\ Kept(c, n)
    BY DEF Sound
  <2>2. PICK s \in Streams : c.queues[s] # <<>> /\ p = c.queues[s][1]
    BY <1>2, <2>1, EarliestIsFirst
  <2>3. DrainOne(c, packets) \in {Result(c, packets, FALSE), Result(passed, packets, FALSE),
                                  Emit(taken, p, packets)}
    BY <1>2 DEF DrainOne
  <2> DEFINE q == c.queues[s]
  <2>4. /\ q \in Seq(Packets) /\ Len(q) \in Nat \ {0} /\ DOMAIN q = 1..Len(q) /\ q # <<>>
        /\ p \in Packets /\ p.stream = s
        /\ \A i \in DOMAIN q : q[i].seq \in Nat
    <3>1. /\ q \in Seq(Packets) /\ DOMAIN q = 1..Len(q)
          /\ \A i \in DOMAIN q : q[i] \in Packets /\ q[i].stream = s /\ q[i].seq \in Nat
      BY <2>1, QueueFacts
    <3>2. Len(q) \in Nat \ {0} /\ q # <<>>
      BY <2>2, <3>1, EmptySeq
    <3> HIDE DEF p, q
    <3>3. 1 \in DOMAIN q
      BY <3>1, <3>2
    <3>4. p = q[1]
      BY <2>2 DEF q
    <3> QED BY <3>1, <3>2, <3>3, <3>4
  <2> HIDE DEF p
  <2>5. /\ IsCore(passed) /\ Timed(passed) /\ SameBuffer(c, passed)
        /\ \A t \in DOMAIN passed.returnKeys :
             ~(t = s /\ returning /\ IsVideo(s) /\ GoesLive(c, p))
    <3>1. CASE returning /\ IsVideo(p.stream) /\ GoesLive(c, p)
      <4> DEFINE d == [c EXCEPT !.returnKeys = Without(@, {p.stream})]
      <4>1. passed = d
        BY <3>1
      <4>2. /\ IsCore(d) /\ d.returnKeys = Without(c.returnKeys, {p.stream})
            /\ \A x \in Fields \ {"returnKeys"} : d[x] = c[x]
        BY <2>1 DEF IsCore, Fields
      <4>3. \A t \in DOMAIN Without(c.returnKeys, {p.stream}) :
              /\ t \in DOMAIN c.returnKeys /\ t # s
              /\ Without(c.returnKeys, {p.stream})[t] = c.returnKeys[t]
        BY <2>4, WithoutEntries
      <4> HIDE DEF d
      <4>4. Timed(d)
        BY <2>1, <4>2 DEF Timed, Fields
      <4>5. SameBuffer(c, d)
        BY <4>2, <4>3 DEF SameBuffer, Fields
      <4>6. \A t \in DOMAIN d.returnKeys : t # s
        BY <4>2, <4>3
      <4> HIDE DEF passed
      <4> QED BY <4>1, <4>2, <4>4, <4>5, <4>6
    <3>2. CASE ~(returning /\ IsVideo(p.stream) /\ GoesLive(c, p))
      <4>1. passed = c
        BY <3>2
      <4>2. SameBuffer(c, c)
        BY DEF SameBuffer
      <4> QED BY <2>1, <2>4, <3>2, <4>1, <4>2
    <3> QED BY <3>1, <3>2
  <2> HIDE DEF passed
  <2>6. Sound(passed, n)
    BY <2>5, SameBufferSound
  <2>7. /\ passed.queues = c.queues /\ passed.pending = c.pending /\ passed.buffered = c.buffered
        /\ passed.committed = c.committed /\ passed.state = c.state
        /\ \A t \in DOMAIN passed.returnKeys :
             t \in DOMAIN c.returnKeys /\ passed.returnKeys[t] = c.returnKeys[t]
    BY <2>5 DEF SameBuffer
  <2> DEFINE shorter == [c.queues EXCEPT ![s] = Tail(@)]
  <2>8. /\ IsCore(taken) /\ taken.queues = shorter /\ taken.buffered = c.buffered - 1
        /\ \A x \in Fields \ {"queues", "buffered"} : taken[x] = passed[x]
    BY <2>4, <2>5, <2>7 DEF IsCore, Fields
  <2>9. /\ shorter \in [Streams -> Seq(Packets)] /\ Numbered(shorter, n)
        /\ Total(Lengths(c.queues)) \in Nat
        /\ Total(Lengths(shorter)) = Total(Lengths(c.queues)) - 1
        /\ shorter[s] = SubSeq(q, 2, Len(q)) /\ \A t \in Streams : t # s => shorter[t] = c.queues[t]
    <3>1. c.queues \in [Streams -> Seq(Packets)] /\ c.queues[s] # <<>> /\ s \in Streams
          /\ Numbered(c.queues, n)
      BY <2>1, <2>2 DEF Held
    <3> QED BY ONLY <3>1, TailQueues
  <2> HIDE DEF taken, shorter
  <2>10. /\ taken.pending = c.pending /\ taken.committed = c.committed /\ taken.state = c.state
         /\ taken.returnKeys = passed.returnKeys
    BY <2>7, <2>8 DEF Fields
  <2>11. Timed(taken)
    BY <2>5, <2>8 DEF Timed, Fields
  <2>12. Held(taken)
    <3>1. Len(c.pending) \in Nat
      BY <2>1, LenProperties DEF Held
    <3>2. /\ c.buffered = Len(c.pending) + Total(Lengths(c.queues)) /\ c.buffered <= MaxBuffered
          /\ MaxBuffered \in Nat
      BY <2>1, PacketDelayAssumption DEF Held
    <3>3. taken.buffered = Len(c.pending) + Total(Lengths(shorter)) /\ taken.buffered <= MaxBuffered
      <4>1. c.buffered \in Int /\ taken.buffered = c.buffered - 1
        BY <2>8, <2>9, <3>1, <3>2
      <4>2. taken.buffered <= MaxBuffered
        BY <3>2, <4>1
      <4>3. taken.buffered = Len(c.pending) + Total(Lengths(shorter))
        BY <2>9, <3>1, <3>2, <4>1
      <4> QED BY <4>2, <4>3
    <3>4. taken.buffered = Len(taken.pending) + Total(Lengths(taken.queues))
      BY <2>8, <2>10, <3>3
    <3> QED BY <2>1, <2>8, <2>9, <2>10, <3>3, <3>4 DEF Held
  <2>13. Kept(taken, n)
    <3> SUFFICES ASSUME taken.state = "Returning", ~taken.committed,
                        NEW t \in DOMAIN passed.returnKeys
                 PROVE  t \in Streams /\ IsVideo(t) /\ Chosen(shorter[t], c.returnKeys[t], n)
      BY <2>7, <2>8, <2>10 DEF Kept
    <3>1. returning
      BY <2>10
    <3>2. t \in DOMAIN c.returnKeys /\ t \in Streams /\ IsVideo(t)
          /\ Chosen(c.queues[t], c.returnKeys[t], n)
      BY <2>1, <2>7, <3>1 DEF Kept
    <3>3. CASE t # s
      <4>1. shorter[t] = c.queues[t]
        BY <2>9, <3>2, <3>3
      <4> QED BY <3>2, <4>1
    <3>4. CASE t = s
      <4>1. ~GoesLive(c, p)
        BY <2>5, <3>1, <3>2, <3>4
      <4>2. ~(p.seq >= c.returnKeys[s])
        BY <2>4, <3>2, <3>4, <4>1 DEF GoesLive
      <4>3. PICK k \in DOMAIN q : q[k].seq = c.returnKeys[s] /\ q[k].key
        BY <3>2, <3>4 DEF Chosen
      <4>4. k # 1
        <5> SUFFICES ASSUME k = 1 PROVE FALSE
          OBVIOUS
        <5>1. p.seq = c.returnKeys[s] /\ p.seq \in Nat
          BY <2>2, <2>4, <4>3
        <5> QED BY <4>2, <5>1
      <4> HIDE DEF q
      <4>5. k >= 2 /\ 2 \in 1..(Len(q) + 1)
        BY <2>4, <4>4
      <4>6. Chosen(q, c.returnKeys[s], n)
        BY <3>2, <3>4 DEF q
      <4>7. \E i \in DOMAIN q : i >= 2 /\ q[i].seq = c.returnKeys[s] /\ q[i].key
        BY <4>3, <4>5
      <4>8. shorter[s] = SubSeq(q, 2, Len(q)) /\ q \in Seq(Packets)
        BY <2>4, <2>9
      <4>9. Chosen(shorter[s], c.returnKeys[s], n)
        BY <4>5, <4>6, <4>7, <4>8, ChosenShortened
      <4> QED BY <3>2, <3>4, <4>9
    <3> QED BY <3>3, <3>4
  <2>14. Sound(taken, n)
    BY <2>8, <2>9, <2>11, <2>12, <2>13 DEF Sound
  <2>15. Sound(Emit(taken, p, packets).core, n)
    BY <2>4, <2>14, EmitSound
  <2>16. Result(c, packets, FALSE).core = c /\ Result(passed, packets, FALSE).core = passed
    BY DEF Result
  <2> QED BY <2>3, <2>6, <2>15, <2>16
<1> QED BY <1>1, <1>2

\* What a drain comes to.
Drained(r, n) == "core" \in DOMAIN r /\ Sound(r.core, n)

\* That is what a round comes to.
LEMMA DrainOneDrained ==
  ASSUME NEW c, NEW n, Sound(c, n), NEW packets
  PROVE  Drained(DrainOne(c, packets), n)
<1>1. "core" \in DOMAIN DrainOne(c, packets)
  BY DEF DrainOne, Emit, Result
<1> QED BY <1>1, DrainOneSound DEF Drained

\* The count is a number.
LEMMA BufferedTyped ==
  ASSUME NEW c, NEW n, Sound(c, n)
  PROVE  c.buffered \in Nat
<1>1. Len(c.pending) \in Nat /\ c.buffered = Len(c.pending) + Total(Lengths(c.queues))
  BY LenProperties DEF Sound, Held
<1>2. Total(Lengths(c.queues)) \in Nat
  <2>1. c.queues \in [Streams -> Seq(Packets)]
    BY DEF Sound, Held
  <2> QED BY <2>1, LengthsTotal
<1> QED BY <1>1, <1>2

\* The rounds of a drain: what it has come to after each.
RoundsOf(f, n, c) ==
  /\ f[0] = Result(c, <<>>, TRUE)
  /\ \A k \in 1..n :
       f[k] = IF f[k - 1].more THEN DrainOne(f[k - 1].core, f[k - 1].out) ELSE f[k - 1]

\* A drain is its rounds, as many as there are packets and one more.
LEMMA DrainReadyUnfolds ==
  ASSUME NEW c, c.buffered + 1 \in Nat
  PROVE  \E f : RoundsOf(f, c.buffered + 1, c) /\ DrainReady(c) = f[c.buffered + 1]
<1> DEFINE N == c.buffered + 1
           base == Result(c, <<>>, TRUE)
<1>1. N \in Nat
  OBVIOUS
<1>2. IsFiniteSet(1..N) /\ \A T \in SUBSET (1..N) : T # {} => Taken("rounds", T) \in T
  <2> HIDE DEF N
  <2>1. 1 \in Int /\ N \in Int
    BY <1>1
  <2>2. IsFiniteSet(1..N)
    BY ONLY <2>1, FS_Interval
  <2> QED BY <1>1, <2>2, MaxOfPrefix DEF Taken
<1> DEFINE Folded(iter) ==
      iter = [T \in SUBSET (1..N) |-> IF T = {} THEN base
                ELSE IF iter[T \ {Max(T)}].more
                     THEN DrainOne(iter[T \ {Max(T)}].core, iter[T \ {Max(T)}].out)
                     ELSE iter[T \ {Max(T)}]]
           fold == CHOOSE iter : Folded(iter)
<1>3. DrainReady(c) = fold[1..N]
  <2>1. DOMAIN [i \in 1..(c.buffered + 1) |-> i] = 1..N
    OBVIOUS
  <2>2. DrainReady(c) =
          (CHOOSE iter : iter = [T \in SUBSET DOMAIN [i \in 1..(c.buffered + 1) |-> i] |->
             IF T = {} THEN base
             ELSE LET r == iter[T \ {Max(T)}]
                  IN  IF r.more THEN DrainOne(r.core, r.out) ELSE r])
          [DOMAIN [i \in 1..(c.buffered + 1) |-> i]]
    BY DEF DrainReady, FoldLeft, MapThenFoldSet
  <2> QED BY <2>1, <2>2
<1>4. Folded(fold)
  <2> HIDE DEF N, base
  <2>1. PICK g : IsFold("rounds", <<>>, base, g, 1..N)
    BY <1>2, FoldExists
  <2>2. Folded(g)
    BY <2>1 DEF IsFold, Layer, Joined, Taken
  <2> QED BY <2>2
<1> HIDE DEF fold, N
<1>5. fold[{}] = base
  BY <1>4
<1>6. ASSUME NEW k \in 1..N
      PROVE  fold[1..k] = IF fold[1..(k - 1)].more
                          THEN DrainOne(fold[1..(k - 1)].core, fold[1..(k - 1)].out)
                          ELSE fold[1..(k - 1)]
  <2>1. k \in Nat /\ k > 0
    BY <1>1
  <2>2. (1..k) \ {Max(1..k)} = 1..(k - 1)
    BY <2>1, MaxOfPrefix
  <2>3. 1..k \in SUBSET (1..N) /\ 1..k # {}
    BY <1>1, <2>1
  <2> HIDE DEF base
  <2>4. ASSUME NEW T \in SUBSET (1..N), T # {}
        PROVE  fold[T] = IF fold[T \ {Max(T)}].more
                         THEN DrainOne(fold[T \ {Max(T)}].core, fold[T \ {Max(T)}].out)
                         ELSE fold[T \ {Max(T)}]
    BY <1>4, <2>4
  <2>5. fold[1..k] = IF fold[(1..k) \ {Max(1..k)}].more
                     THEN DrainOne(fold[(1..k) \ {Max(1..k)}].core, fold[(1..k) \ {Max(1..k)}].out)
                     ELSE fold[(1..k) \ {Max(1..k)}]
    <3> HIDE DEF Folded
    <3> QED BY <2>3, <2>4
  <2> QED BY ONLY <2>2, <2>5
<1> DEFINE f == [k \in 0..N |-> fold[1..k]]
<1>7. f[0] = base /\ f[N] = fold[1..N]
  <2>1. 1..0 = {} /\ 0 \in 0..N /\ N \in 0..N
    BY <1>1
  <2>2. f[0] = fold[1..0]
    BY <2>1
  <2> HIDE DEF base
  <2> QED BY <1>5, <2>1, <2>2
<1>8. ASSUME NEW k \in 1..N
      PROVE  f[k] = IF f[k - 1].more THEN DrainOne(f[k - 1].core, f[k - 1].out) ELSE f[k - 1]
  <2>1. k \in 0..N /\ k - 1 \in 0..N
    BY <1>1
  <2>2. f[k] = fold[1..k] /\ f[k - 1] = fold[1..(k - 1)]
    BY <2>1
  <2> HIDE DEF f
  <2> QED BY <1>6, <2>2
<1> HIDE DEF f, base
<1>9. RoundsOf(f, N, c)
  <2>1. \A k \in 1..N :
          f[k] = IF f[k - 1].more THEN DrainOne(f[k - 1].core, f[k - 1].out) ELSE f[k - 1]
    BY <1>8
  <2>2. f[0] = Result(c, <<>>, TRUE)
    BY <1>7 DEF base
  <2> QED BY <2>1, <2>2 DEF RoundsOf
<1>10. DrainReady(c) = f[N]
  BY <1>3, <1>7
<1> QED BY <1>9, <1>10 DEF N

\* The rounds of a drain keep the object sound.
LEMMA DrainReadySound ==
  ASSUME NEW c, NEW n, Sound(c, n)
  PROVE  Drained(DrainReady(c), n)
<1> DEFINE N == c.buffered + 1
<1>1. N \in Nat
  BY BufferedTyped
<1>2. PICK f : RoundsOf(f, N, c) /\ DrainReady(c) = f[N]
  BY <1>1, DrainReadyUnfolds
<1> HIDE DEF N
<1> DEFINE Bad == {k \in Nat : k <= N /\ ~Drained(f[k], n)}
<1>3. Bad = {}
  <2> SUFFICES ASSUME Bad # {} PROVE FALSE
    OBVIOUS
  <2>1. PICK k \in Bad : \A m \in Bad : k <= m
    <3>1. Bad \in SUBSET Nat
      OBVIOUS
    <3> HIDE DEF Bad
    <3> QED BY <3>1, LeastNatural
  <2>2. Drained(f[0], n)
    <3>1. f[0] = Result(c, <<>>, TRUE)
      BY <1>2 DEF RoundsOf
    <3>2. Drained(Result(c, <<>>, TRUE), n)
      BY DEF Result, Drained
    <3> QED BY <3>1, <3>2
  <2>3. k \in 1..N /\ k - 1 \in Nat /\ k - 1 <= N /\ ~(k <= k - 1)
    BY <1>1, <2>2
  <2>4. Drained(f[k - 1], n)
    BY <2>1, <2>3
  <2>5. Drained(f[k], n)
    <3> DEFINE r == f[k - 1]
    <3>1. Sound(r.core, n)
      BY <2>4 DEF Drained
    <3>2. f[k] = IF r.more THEN DrainOne(r.core, r.out) ELSE r
      BY <1>2, <2>3 DEF RoundsOf
    <3>3. Drained(DrainOne(r.core, r.out), n)
      <4> HIDE DEF r
      <4> QED BY <3>1, DrainOneDrained
    <3> QED BY <2>4, <3>2, <3>3
  <2> QED BY <2>5
<1>4. Drained(f[N], n)
  BY <1>1, <1>3
<1> QED BY <1>2, <1>4

\* The first packet that waits for the return is taken.
LEMMA PendingTaken ==
  ASSUME NEW c, NEW n, Sound(c, n), c.pending # <<>>,
         NEW d, d = [c EXCEPT !.pending = Tail(@), !.buffered = @ - 1]
  PROVE  Sound(d, n) /\ Len(d.pending) = Len(c.pending) - 1
<1>1. IsCore(c) /\ Timed(c) /\ Held(c) /\ Numbered(c.queues, n) /\ Kept(c, n)
  BY DEF Sound
<1>2. /\ IsCore(d) /\ d.pending = Tail(c.pending) /\ d.buffered = c.buffered - 1
      /\ \A x \in Fields \ {"pending", "buffered"} : d[x] = c[x]
  BY <1>1 DEF IsCore, Fields
<1>3. /\ c.pending \in Seq(Packets) /\ Len(c.pending) \in Nat
      /\ Tail(c.pending) \in Seq(Packets) /\ Len(Tail(c.pending)) = Len(c.pending) - 1
  BY <1>1, LenProperties, HeadTailProperties DEF Held
<1>4. c.queues \in [Streams -> Seq(Packets)]
  BY <1>1 DEF Held
<1>5. Total(Lengths(c.queues)) \in Nat
  BY <1>4, LengthsTotal
<1>6. /\ d.queues = c.queues /\ d.committed = c.committed /\ d.state = c.state
      /\ d.returnKeys = c.returnKeys
  BY <1>2 DEF Fields
<1>7. Timed(d)
  BY <1>1, <1>2 DEF Timed, Fields
<1>8. Held(d)
  <2>1. c.buffered = Len(c.pending) + Total(Lengths(c.queues)) /\ c.buffered <= MaxBuffered
        /\ MaxBuffered \in Nat
    BY <1>1, PacketDelayAssumption DEF Held
  <2>2. c.buffered \in Int
    BY <1>3, <1>5, <2>1
  <2>3. d.buffered <= MaxBuffered
    BY <1>2, <2>1, <2>2
  <2>4. d.buffered = (Len(c.pending) - 1) + Total(Lengths(c.queues))
    BY <1>2, <1>3, <1>5, <2>1, <2>2
  <2>5. d.buffered = Len(d.pending) + Total(Lengths(d.queues))
    BY <1>2, <1>3, <1>6, <2>4
  <2>6. c.committed
    BY <1>1 DEF Held
  <2>7. d.committed /\ d.committed \in BOOLEAN /\ d.state \in States /\ d.state = "Returning"
    BY <1>1, <1>6, <2>6 DEF Held
  <2>8. d.queues \in [Streams -> Seq(Packets)] /\ d.pending \in Seq(Packets)
    BY <1>2, <1>3, <1>4, <1>6
  <2> QED BY <2>3, <2>5, <2>7, <2>8 DEF Held
<1>9. Numbered(d.queues, n) /\ Kept(d, n)
  BY <1>1, <1>6 DEF Kept
<1> QED BY <1>2, <1>3, <1>7, <1>8, <1>9 DEF Sound

\* How what waits for the return is handed out, packet by packet.
PendingOf(f, c) ==
  /\ f[0] = Result(c, <<>>, TRUE)
  /\ \A k \in 1..Len(c.pending) :
       f[k] = IF f[k - 1].more
              THEN Emit([f[k - 1].core EXCEPT !.pending = Tail(@), !.buffered = @ - 1],
                        c.pending[k], f[k - 1].out)
              ELSE f[k - 1]

\* Draining what is pending is just that.
LEMMA DrainPendingUnfolds ==
  ASSUME NEW c, c.pending \in Seq(Packets)
  PROVE  \E f : PendingOf(f, c) /\ DrainPending(c) = f[Len(c.pending)]
<1> DEFINE q == c.pending
           N == Len(q)
           base == Result(c, <<>>, TRUE)
           Step(r, i) == Emit([r.core EXCEPT !.pending = Tail(@), !.buffered = @ - 1], q[i], r.out)
<1>1. N \in Nat /\ DOMAIN q = 1..N
  BY LenProperties
<1>2. IsFiniteSet(1..N) /\ \A T \in SUBSET (1..N) : T # {} => Taken("pending", T) \in T
  <2> HIDE DEF N
  <2>1. 1 \in Int /\ N \in Int
    BY <1>1
  <2>2. IsFiniteSet(1..N)
    BY ONLY <2>1, FS_Interval
  <2> QED BY <1>1, <2>2, MaxOfPrefix DEF Taken
<1> DEFINE Folded(iter) ==
      iter = [T \in SUBSET (1..N) |-> IF T = {} THEN base
                ELSE IF iter[T \ {Max(T)}].more
                     THEN Step(iter[T \ {Max(T)}], Max(T))
                     ELSE iter[T \ {Max(T)}]]
           fold == CHOOSE iter : Folded(iter)
<1>3. DrainPending(c) = fold[1..N]
  <2>1. DrainPending(c) =
          (CHOOSE iter : iter = [T \in SUBSET DOMAIN q |->
             IF T = {} THEN base
             ELSE LET r == iter[T \ {Max(T)}]
                  IN  IF r.more THEN Step(r, Max(T)) ELSE r])
          [DOMAIN q]
    BY DEF DrainPending, FoldLeft, MapThenFoldSet
  <2> QED BY <1>1, <2>1
<1>4. Folded(fold)
  <2>1. PICK g : IsFold("pending", q, base, g, 1..N)
    <3> HIDE DEF N, base, q
    <3> QED BY <1>2, FoldExists
  <2> HIDE DEF N, base, q
  <2>2. Folded(g)
    BY <2>1 DEF IsFold, Layer, Joined, Taken
  <2> QED BY <2>2
<1> HIDE DEF fold, N
<1>5. fold[{}] = base
  BY <1>4
<1>6. ASSUME NEW k \in 1..N
      PROVE  fold[1..k] = IF fold[1..(k - 1)].more THEN Step(fold[1..(k - 1)], k)
                          ELSE fold[1..(k - 1)]
  <2>1. k \in Nat /\ k > 0
    BY <1>1
  <2>2. (1..k) \ {Max(1..k)} = 1..(k - 1) /\ Max(1..k) = k
    BY <2>1, MaxOfPrefix
  <2>3. 1..k \in SUBSET (1..N) /\ 1..k # {}
    BY <1>1, <2>1
  <2> HIDE DEF base, Step, q
  <2>4. ASSUME NEW T \in SUBSET (1..N), T # {}
        PROVE  fold[T] = IF fold[T \ {Max(T)}].more THEN Step(fold[T \ {Max(T)}], Max(T))
                         ELSE fold[T \ {Max(T)}]
    BY <1>4, <2>4
  <2>5. fold[1..k] = IF fold[(1..k) \ {Max(1..k)}].more
                     THEN Step(fold[(1..k) \ {Max(1..k)}], Max(1..k))
                     ELSE fold[(1..k) \ {Max(1..k)}]
    <3> HIDE DEF Folded
    <3> QED BY <2>3, <2>4
  <2> QED BY ONLY <2>2, <2>5
<1> DEFINE f == [k \in 0..N |-> fold[1..k]]
<1>7. f[0] = base /\ f[N] = fold[1..N]
  <2>1. 1..0 = {} /\ 0 \in 0..N /\ N \in 0..N
    BY <1>1
  <2>2. f[0] = fold[1..0]
    BY <2>1
  <2> HIDE DEF base
  <2> QED BY <1>5, <2>1, <2>2
<1>8. ASSUME NEW k \in 1..N
      PROVE  f[k] = IF f[k - 1].more THEN Step(f[k - 1], k) ELSE f[k - 1]
  <2>1. k \in 0..N /\ k - 1 \in 0..N
    BY <1>1
  <2>2. f[k] = fold[1..k] /\ f[k - 1] = fold[1..(k - 1)]
    BY <2>1
  <2> HIDE DEF f, Step
  <2> QED BY <1>6, <2>2
<1> HIDE DEF f, base
<1>9. PendingOf(f, c)
  <2>1. f[0] = Result(c, <<>>, TRUE)
    BY <1>7 DEF base
  <2>2. \A k \in 1..Len(c.pending) :
          f[k] = IF f[k - 1].more THEN Step(f[k - 1], k) ELSE f[k - 1]
    <3> HIDE DEF Step
    <3> QED BY <1>8 DEF N
  <2> QED BY <2>1, <2>2 DEF PendingOf
<1>10. DrainPending(c) = f[N]
  BY <1>3, <1>7
<1> QED BY <1>9, <1>10 DEF N

\* What waited for the return is handed out.
LEMMA DrainPendingSound ==
  ASSUME NEW c, NEW n, Sound(c, n)
  PROVE  Sound(DrainPending(c).core, n)
<1> DEFINE q == c.pending
           N == Len(q)
           Step(r, i) == Emit([r.core EXCEPT !.pending = Tail(@), !.buffered = @ - 1], q[i], r.out)
<1>1. q \in Seq(Packets) /\ N \in Nat /\ DOMAIN q = 1..N /\ \A i \in 1..N : q[i] \in Packets
  <2>1. q \in Seq(Packets)
    BY DEF Sound, Held
  <2> QED BY <2>1, LenProperties, ElementOfSeq
<1>2. PICK f : PendingOf(f, c) /\ DrainPending(c) = f[N]
  BY <1>1, DrainPendingUnfolds
<1>5. f[0] = Result(c, <<>>, TRUE)
  BY <1>2 DEF PendingOf
<1>6. ASSUME NEW k \in 1..N
      PROVE  f[k] = IF f[k - 1].more THEN Step(f[k - 1], k) ELSE f[k - 1]
  BY <1>2 DEF PendingOf
<1> HIDE DEF N
<1> DEFINE Good(k) == /\ Sound(f[k].core, n)
                      /\ f[k].more => Len(f[k].core.pending) = N - k
           Bad == {k \in Nat : k <= N /\ ~Good(k)}
<1>7. Good(0)
  <2>1. f[0].core = c
    BY <1>5 DEF Result
  <2>2. Len(f[0].core.pending) = N - 0
    BY <1>1, <2>1 DEF N
  <2> QED BY <2>1, <2>2
<1>8. ASSUME NEW k \in 1..N, Good(k - 1) PROVE Good(k)
  <2> DEFINE r == f[k - 1]
  <2>1. CASE ~r.more
    <3>1. f[k] = r
      BY <1>6, <2>1
    <3> QED BY <1>8, <2>1, <3>1
  <2>2. CASE r.more
    <3>1. Sound(r.core, n) /\ Len(r.core.pending) = N - (k - 1)
      BY <1>8, <2>2
    <3>2. f[k] = Step(r, k)
      BY <1>6, <2>2
    <3> HIDE DEF r
    <3>3. r.core.pending # <<>>
      <4> SUFFICES ASSUME r.core.pending = <<>> PROVE FALSE
        OBVIOUS
      <4>1. Len(r.core.pending) = 0
        BY EmptySeq
      <4> QED BY <1>1, <3>1, <4>1
    <3> DEFINE d == [r.core EXCEPT !.pending = Tail(@), !.buffered = @ - 1]
    <3>4. Sound(d, n) /\ Len(d.pending) = Len(r.core.pending) - 1
      BY <3>1, <3>3, PendingTaken
    <3>5. f[k] = Emit(d, q[k], r.out)
      BY <3>2
    <3> HIDE DEF d, Step
    <3>6. q[k] \in Packets
      BY <1>1
    <3>7. /\ Sound(Emit(d, q[k], r.out).core, n)
          /\ Emit(d, q[k], r.out).more => Emit(d, q[k], r.out).core.pending = d.pending
      BY <3>4, <3>6, EmitSound
    <3>8. Len(d.pending) = N - k
      BY <1>1, <3>1, <3>4
    <3> QED BY <3>5, <3>7, <3>8
  <2> QED BY <2>1, <2>2
<1> HIDE DEF Good
<1>9. Bad = {}
  <2> SUFFICES ASSUME Bad # {} PROVE FALSE
    OBVIOUS
  <2>1. PICK k \in Bad : \A m \in Bad : k <= m
    <3>1. Bad \in SUBSET Nat
      OBVIOUS
    <3> HIDE DEF Bad
    <3> QED BY <3>1, LeastNatural
  <2>2. k # 0
    BY <1>7
  <2>3. k \in 1..N /\ k - 1 \in Nat /\ k - 1 <= N /\ ~(k <= k - 1)
    BY <1>1, <2>2
  <2>4. Good(k - 1)
    BY <2>1, <2>3
  <2>5. Good(k)
    BY <1>8, <2>3, <2>4
  <2> QED BY <2>5
<1>10. Good(N)
  BY <1>1, <1>9
<1> QED BY <1>2, <1>10 DEF Good

\* The sequence is sorted by one measure and then by another.
SortedBy(q, f, g) ==
  \A i, j \in DOMAIN q :
    i < j => f[q[i]] < f[q[j]] \/ (f[q[i]] = f[q[j]] /\ g[q[i]] < g[q[j]])

\* Packets that differ in their numbers can be sorted.
LEMMA SortedExists ==
  ASSUME NEW S, IsFiniteSet(S), NEW f, NEW g, \A x \in S : f[x] \in Int /\ g[x] \in Int,
         \A x, y \in S : x # y => g[x] # g[y]
  PROVE  \E q \in SetToSeqs(S) : SortedBy(q, f, g)
<1> DEFINE Good(T) == \E q \in SetToSeqs(T) : SortedBy(q, f, g)
           Bad == {n \in Nat : \E T \in SUBSET S : Cardinality(T) = n /\ ~Good(T)}
<1>1. \A T \in SUBSET S : IsFiniteSet(T) /\ Cardinality(T) \in Nat
  BY FS_Subset, FS_CardinalityType
<1>2. Good({})
  <2> DEFINE q == [i \in 1..Cardinality({}) |-> i]
  <2>1. DOMAIN q = {}
    BY FS_EmptySet
  <2>2. q \in [1..Cardinality({}) -> {}]
    BY FS_EmptySet
  <2>3. q \in SetToSeqs({}) /\ SortedBy(q, f, g)
    <3> HIDE DEF q
    <3>1. 1..Cardinality({}) = {}
      BY <2>1, <2>2
    <3> QED BY <2>1, <2>2, <3>1 DEF SetToSeqs, SortedBy
  <2> QED BY <2>3
<1>3. ASSUME NEW T \in SUBSET S, NEW x \in T, Good(T \ {x}),
             \A y \in T : f[y] < f[x] \/ (f[y] = f[x] /\ g[y] <= g[x])
      PROVE  Good(T)
  <2> DEFINE m == Cardinality(T)
             U == T \ {x}
  <2>1. m \in Nat \ {0} /\ Cardinality(U) = m - 1 /\ IsFiniteSet(T)
    <3>1. IsFiniteSet(T) /\ Cardinality(T) \in Nat
      BY <1>1
    <3>2. Cardinality(U) = m - 1 /\ IsFiniteSet(U)
      BY <3>1, FS_RemoveElement
    <3>3. Cardinality(U) \in Nat
      BY <3>2, FS_CardinalityType
    <3> QED BY <3>1, <3>2, <3>3
  <2>2. PICK r \in SetToSeqs(U) : SortedBy(r, f, g)
    BY <1>3
  <2> HIDE DEF U, m, Good
  <2>3. r \in [1..(m - 1) -> U] /\ \A i, j \in 1..(m - 1) : i # j => r[i] # r[j]
    BY <2>1, <2>2 DEF SetToSeqs
  <2> DEFINE q == [i \in 1..m |-> IF i = m THEN x ELSE r[i]]
  <2>4. /\ DOMAIN q = 1..m /\ q[m] = x /\ \A i \in 1..(m - 1) : q[i] = r[i] /\ q[i] \in U
        /\ \A i \in 1..m : i = m \/ i \in 1..(m - 1)
    BY <2>1, <2>3
  <2>5. U \in SUBSET T /\ x \notin U /\ x \in T
    BY DEF U
  <2>6. q \in [1..m -> T]
    BY <2>1, <2>3, <2>5
  <2> HIDE DEF q
  <2>7. \A i, j \in 1..m : i # j => q[i] # q[j]
    BY <2>3, <2>4, <2>5
  <2>8. q \in SetToSeqs(T)
    BY <2>6, <2>7 DEF SetToSeqs, m
  <2>9. ASSUME NEW i \in DOMAIN q, NEW j \in DOMAIN q, i < j
        PROVE  f[q[i]] < f[q[j]] \/ (f[q[i]] = f[q[j]] /\ g[q[i]] < g[q[j]])
    <3>1. i \in 1..(m - 1)
      BY <2>1, <2>4, <2>9
    <3>2. CASE j \in 1..(m - 1)
      <4>1. i \in DOMAIN r /\ j \in DOMAIN r /\ q[i] = r[i] /\ q[j] = r[j]
        BY <2>3, <2>4, <3>1, <3>2
      <4> QED BY <2>2, <2>9, <4>1 DEF SortedBy
    <3>3. CASE j = m
      <4>1. q[j] = x /\ q[i] \in T /\ q[i] # x
        BY <2>4, <2>5, <3>1, <3>3
      <4>2. f[q[i]] < f[x] \/ (f[q[i]] = f[x] /\ g[q[i]] <= g[x])
        BY <1>3, <4>1
      <4>3. g[q[i]] # g[x] /\ g[q[i]] \in Int /\ g[x] \in Int
        BY <2>5, <4>1
      <4>4. g[q[i]] <= g[x] => g[q[i]] < g[x]
        BY <4>3
      <4> QED BY <4>1, <4>2, <4>4
    <3> QED BY <2>4, <3>2, <3>3
  <2>10. SortedBy(q, f, g)
    BY <2>9 DEF SortedBy
  <2> QED BY <2>8, <2>10 DEF Good
<1>4. Bad = {}
  <2> SUFFICES ASSUME Bad # {} PROVE FALSE
    OBVIOUS
  <2>1. PICK n \in Bad : \A m \in Bad : n <= m
    <3>1. Bad \in SUBSET Nat
      OBVIOUS
    <3> HIDE DEF Bad
    <3> QED BY <3>1, LeastNatural
  <2>2. PICK T \in SUBSET S : Cardinality(T) = n /\ ~Good(T)
    OBVIOUS
  <2>3. T # {}
    BY <1>2, <2>2
  <2> HIDE DEF Good
  <2>4. PICK x \in T : \A y \in T : f[y] < f[x] \/ (f[y] = f[x] /\ g[y] <= g[x])
    <3> DEFINE h == [y \in T |-> -f[y]]
               k == [y \in T |-> -g[y]]
    <3>1. \A y \in T : h[y] \in Int /\ k[y] \in Int /\ h[y] = -f[y] /\ k[y] = -g[y]
                       /\ f[y] \in Int /\ g[y] \in Int
      OBVIOUS
    <3>2. IsFiniteSet(T)
      BY <1>1
    <3>3. PICK x \in T : \A y \in T : h[x] < h[y] \/ (h[x] = h[y] /\ k[x] <= k[y])
      <4> HIDE DEF h, k
      <4> QED BY <2>3, <3>1, <3>2, LeastOfTwo
    <3> HIDE DEF h, k
    <3>4. ASSUME NEW y \in T PROVE f[y] < f[x] \/ (f[y] = f[x] /\ g[y] <= g[x])
      <4>1. h[x] < h[y] \/ (h[x] = h[y] /\ k[x] <= k[y])
        BY <3>3
      <4> QED BY <3>1, <4>1
    <3> QED BY <3>4
  <2>5. Cardinality(T \ {x}) = n - 1 /\ n \in Nat /\ T \ {x} \in SUBSET S
    <3>1. IsFiniteSet(T) /\ Cardinality(T) \in Nat
      BY <1>1
    <3> HIDE DEF Bad
    <3> QED BY <2>2, <3>1, FS_RemoveElement
  <2>6. Good(T \ {x})
    <3> SUFFICES ASSUME ~Good(T \ {x}) PROVE FALSE
      OBVIOUS
    <3>1. n - 1 \in Nat /\ ~(n <= n - 1)
      BY <1>1, <2>5
    <3>2. n - 1 \in Bad
      BY <2>5, <3>1
    <3> HIDE DEF Bad
    <3> QED BY <2>1, <3>1, <3>2
  <2> QED BY <1>3, <2>2, <2>4, <2>6
<1>5. Good(S)
  <2> HIDE DEF Good
  <2> SUFFICES ASSUME ~Good(S) PROVE FALSE
    OBVIOUS
  <2>1. Cardinality(S) \in Bad
    BY <1>1
  <2> HIDE DEF Bad
  <2> QED BY <1>4, <2>1
<1> QED BY <1>5

\* There are no more packets in the queues than their lengths add up to.
LEMMA PacketsCounted ==
  ASSUME NEW q \in [Streams -> Seq(Packets)],
         NEW P, P = UNION {{q[s][i] : i \in DOMAIN q[s]} : s \in Streams}
  PROVE  IsFiniteSet(P) /\ Cardinality(P) <= Total(Lengths(q))
<1> DEFINE f == Lengths(q)
           Of(s) == {q[s][i] : i \in DOMAIN q[s]}
           All(T) == UNION {Of(s) : s \in T}
<1>1. DOMAIN f = Streams /\ IsFiniteSet(DOMAIN f)
  BY PacketDelayAssumption DEF Lengths
<1>2. ASSUME NEW s \in Streams
      PROVE  /\ IsFiniteSet(Of(s)) /\ Cardinality(Of(s)) <= f[s]
             /\ Cardinality(Of(s)) \in Nat /\ f[s] \in Nat
  <2>1. q[s] \in Seq(Packets) /\ Len(q[s]) \in Nat /\ DOMAIN q[s] = 1..Len(q[s])
    BY LenProperties
  <2>2. IsFiniteSet(1..Len(q[s])) /\ Cardinality(1..Len(q[s])) = Len(q[s])
    <3> DEFINE k == Len(q[s])
    <3>1. k \in Nat
      BY <2>1
    <3> HIDE DEF k
    <3>2. IsFiniteSet(1..k) /\ Cardinality(1..k) = k
      BY ONLY <3>1, FS_Interval
    <3> QED BY <3>2 DEF k
  <2> DEFINE g == [i \in 1..Len(q[s]) |-> q[s][i]]
             O == Of(s)
  <2>3. g \in Surjection(1..Len(q[s]), O)
    BY <2>1 DEF Surjection
  <2> HIDE DEF g, O
  <2>4. IsFiniteSet(O) /\ Cardinality(O) <= Len(q[s])
    BY <2>2, <2>3, FS_Surjection
  <2>5. Cardinality(O) \in Nat
    BY <2>4, FS_CardinalityType
  <2>6. f[s] = Len(q[s])
    BY DEF Lengths
  <2> QED BY <2>1, <2>4, <2>5, <2>6 DEF O
<1>a. \A s \in Streams : f[s] \in Int
  <2>1. \A s \in Streams : f[s] \in Nat
    BY LengthsTotal
  <2> HIDE DEF f, Of, All
  <2> QED BY ONLY <2>1
<1> HIDE DEF f
<1>3. PICK F : SumOf(F, f, Streams) /\ FoldFunction(+, 0, f) = F[Streams]
  BY <1>1, SumUnfolds
<1>4. \A T \in SUBSET Streams : F[T] \in Int
  <2>1. \A s \in Streams : f[s] \in Int
    BY <1>a
  <2>2. IsFiniteSet(Streams) /\ SumOf(F, f, Streams)
    BY <1>1, <1>3
  <2> QED BY ONLY <2>1, <2>2, SumTyped
<1> DEFINE Good(T) == IsFiniteSet(All(T)) /\ Cardinality(All(T)) <= F[T]
           Bad == {n \in Nat : \E T \in SUBSET Streams : Cardinality(T) = n /\ ~Good(T)}
<1>5. \A T \in SUBSET Streams : IsFiniteSet(T) /\ Cardinality(T) \in Nat
  BY FS_Subset, FS_CardinalityType, PacketDelayAssumption
<1>6. Good({})
  <2>1. All({}) = {}
    OBVIOUS
  <2>2. F[{}] = 0
    BY <1>3 DEF SumOf
  <2> HIDE DEF All
  <2> QED BY <2>1, <2>2, FS_EmptySet
<1>7. ASSUME NEW T \in SUBSET Streams, NEW x \in T, F[T] = f[x] + F[T \ {x}], Good(T \ {x})
      PROVE  Good(T)
  <2> DEFINE A == Of(x)
             B == All(T \ {x})
  <2>1. All(T) = A \cup B
    OBVIOUS
  <2>2. IsFiniteSet(A) /\ Cardinality(A) <= f[x] /\ Cardinality(A) \in Nat /\ f[x] \in Nat
    <3>1. x \in Streams
      OBVIOUS
    <3> HIDE DEF Of
    <3> QED BY ONLY <1>2, <3>1
  <2>3. IsFiniteSet(B) /\ Cardinality(B) <= F[T \ {x}]
    BY <1>7
  <2> HIDE DEF A, B, All, Of
  <2>4. Cardinality(B) \in Nat /\ F[T \ {x}] \in Int
    BY <1>4, <2>3, FS_CardinalityType
  <2>5. /\ IsFiniteSet(A \cup B)
        /\ Cardinality(A \cup B) = Cardinality(A) + Cardinality(B) - Cardinality(A \cap B)
    BY <2>2, <2>3, FS_Union
  <2>6. Cardinality(A \cap B) \in Nat
    <3>1. IsFiniteSet(A \cap B)
      BY <2>2, FS_Subset
    <3> QED BY <3>1, FS_CardinalityType
  <2>7. Cardinality(A \cup B) <= F[T]
    BY <1>7, <2>2, <2>3, <2>4, <2>5, <2>6
  <2> QED BY <2>1, <2>5, <2>7
<1>8. Bad = {}
  <2> SUFFICES ASSUME Bad # {} PROVE FALSE
    OBVIOUS
  <2> HIDE DEF Good
  <2>1. PICK n \in Bad : \A m \in Bad : n <= m
    <3>1. Bad \in SUBSET Nat
      OBVIOUS
    <3> HIDE DEF Bad
    <3> QED BY <3>1, LeastNatural
  <2>2. PICK T \in SUBSET Streams : Cardinality(T) = n /\ ~Good(T)
    OBVIOUS
  <2>3. T # {}
    BY <1>6, <2>2
  <2> DEFINE x == CHOOSE x \in T : TRUE
  <2>4. x \in T
    BY <2>3
  <2>5. F[T] = f[x] + F[T \ {x}]
    BY <1>3, <2>3 DEF SumOf
  <2> HIDE DEF x
  <2>6. Cardinality(T \ {x}) = n - 1 /\ n \in Nat /\ T \ {x} \in SUBSET Streams
    <3>1. IsFiniteSet(T) /\ Cardinality(T) \in Nat
      BY <1>5
    <3> HIDE DEF Bad
    <3> QED BY <2>2, <2>4, <3>1, FS_RemoveElement
  <2>7. Good(T \ {x})
    <3> SUFFICES ASSUME ~Good(T \ {x}) PROVE FALSE
      OBVIOUS
    <3>1. n - 1 \in Nat /\ ~(n <= n - 1)
      BY <1>5, <2>6
    <3>2. n - 1 \in Bad
      BY <2>6, <3>1
    <3> HIDE DEF Bad
    <3> QED BY <2>1, <3>1, <3>2
  <2> QED BY <1>7, <2>2, <2>4, <2>5, <2>7
<1>9. Good(Streams)
  <2> HIDE DEF Good
  <2> SUFFICES ASSUME ~Good(Streams) PROVE FALSE
    OBVIOUS
  <2>1. Cardinality(Streams) \in Bad
    BY <1>5
  <2> HIDE DEF Bad
  <2> QED BY <1>8, <2>1
<1>10. P = All(Streams)
  OBVIOUS
<1> HIDE DEF All
<1>11. Total(f) = F[Streams]
  BY <1>3 DEF Total
<1> QED BY <1>9, <1>10, <1>11 DEF f

----------------------------------------------------------------------------
(* New epochs.                                                             *)

\* A new epoch changes no more than the offsets, which are numbers.
LEMMA NewEpochSame ==
  ASSUME NEW c, IsCore(c), Timed(c), NEW fronts \in SUBSET Packets, IsFiniteSet(fronts),
         fronts # {}, NEW base \in Int
  PROVE  /\ IsCore(NewEpoch(c, fronts, base)) /\ Timed(NewEpoch(c, fronts, base))
         /\ \A x \in Fields \ {"offsets"} : NewEpoch(c, fronts, base)[x] = c[x]
<1> DEFINE f == [p \in fronts |-> NewOffset(c, p, base)]
           S == {f[p] : p \in fronts}
           shift == Largest(S)
           offsets == [s \in {p.stream : p \in fronts} |-> shift]
           d == [c EXCEPT !.offsets = offsets]
<1>1. NewEpoch(c, fronts, base) = d
  <2>1. S = {NewOffset(c, p, base) : p \in fronts}
    OBVIOUS
  <2> HIDE DEF S
  <2> QED BY <2>1 DEF NewEpoch
<1>2. \A p \in fronts : f[p] \in Int
  <2>1. ASSUME NEW p \in fronts PROVE NewOffset(c, p, base) \in Int
    <3>1. p.dts \in Int /\ p.pts \in Int
      BY DEF Packets
    <3> QED BY <3>1, NewOffsetFits
  <2> QED BY <2>1
<1> HIDE DEF f
<1>3. IsFiniteSet(S)
  <2> HIDE DEF S
  <2> QED BY ImageFinite DEF S
<1>4. S \in SUBSET Int /\ S # {}
  BY <1>2
<1> HIDE DEF S
<1>5. shift \in Int
  BY <1>3, <1>4, LargestOf
<1> HIDE DEF shift
<1>6. IntValued(offsets)
  BY <1>5 DEF IntValued
<1> HIDE DEF offsets
<1>7. IsCore(d) /\ d.offsets = offsets /\ \A x \in Fields \ {"offsets"} : d[x] = c[x]
  BY DEF IsCore, Fields
<1> HIDE DEF d
<1>8. Timed(d)
  BY <1>6, <1>7 DEF Timed, Fields
<1> QED BY <1>1, <1>7, <1>8

\* The cut c makes of the object, which begins delivering as d: the queues from where the
\* delayed branch starts in them, and an epoch that starts with their first packets.
CutInto(c, d, cut, fronts, at) ==
  /\ IsCore(cut) /\ Timed(cut) /\ \A x \in Fields \ {"queues", "buffered"} : cut[x] = c[x]
  /\ fronts \in SUBSET Packets /\ IsFiniteSet(fronts) /\ fronts # {}
  /\ fronts = {cut.queues[s][1] : s \in Cut(c)}
  /\ Shortened(c.queues, cut.queues, at)
  /\ cut.buffered = Total(Lengths(cut.queues)) /\ cut.buffered <= MaxBuffered
  /\ \A s \in Streams :
       IF s \in Cut(c) THEN at[s] \in 1..Len(c.queues[s]) ELSE at[s] = Len(c.queues[s]) + 1
  /\ IsCore(d) /\ Timed(d) /\ d.state = "Delayed"
  /\ d.preparingChange = FALSE /\ d.fromDelayed = FALSE
  /\ \A x \in Fields \ {"latest", "active", "preparingChange", "fromDelayed", "pendingTarget",
                        "state"} : d[x] = NewEpoch(cut, fronts, c.target)[x]

\* That is what apply_cut_plan_locked does.
LEMMA ApplyCutParts ==
  ASSUME NEW c, NEW n \in Nat, Sound(c, n), c.state = "Filling", CutReady(c)
  PROVE  \E cut, fronts, at : CutInto(c, ApplyCut(c), cut, fronts, at)
<1> DEFINE from(s) == IF s \in Cut(c) THEN Largest(Starts(c, s)) ELSE Len(c.queues[s]) + 1
           at == [s \in Streams |-> from(s)]
           left == [s \in Streams |-> SubSeq(c.queues[s], from(s), Len(c.queues[s]))]
           sizes == [s \in Streams |-> Len(c.queues[s]) + 1 - from(s)]
           lost == [s \in Streams |-> at[s] - 1]
           cut == [c EXCEPT !.queues = left, !.buffered = FoldFunction(+, 0, sizes)]
           fronts == {cut.queues[s][1] : s \in Cut(c)}
           epoch == NewEpoch(cut, fronts, c.target)
           latest == [s \in Cut(c) |-> OrderingDts(epoch, Back(cut.queues[s]))]
           d == [epoch EXCEPT !.latest = latest, !.active = Required \cup Cut(c),
                   !.preparingChange = FALSE, !.fromDelayed = FALSE,
                   !.pendingTarget = c.target, !.state = "Delayed"]
<1>1. IsCore(c) /\ Timed(c) /\ Held(c) /\ Numbered(c.queues, n)
  BY DEF Sound
<1>2. ApplyCut(c) = d
  BY DEF ApplyCut
<1>3. ASSUME NEW s \in Streams
      PROVE  /\ c.queues[s] \in Seq(Packets) /\ Len(c.queues[s]) \in Nat
             /\ from(s) \in 1..(Len(c.queues[s]) + 1)
             /\ s \in Cut(c) => from(s) \in 1..Len(c.queues[s])
  <2>1. /\ c.queues[s] \in Seq(Packets) /\ Len(c.queues[s]) \in Nat
        /\ DOMAIN c.queues[s] = 1..Len(c.queues[s])
    BY <1>1, QueueFacts
  <2>2. CASE s \in Cut(c)
    <3> DEFINE T == Starts(c, s)
               k == Len(c.queues[s])
    <3>1. T \in SUBSET (1..k) /\ T # {}
      BY <2>1, <2>2 DEF Starts, Cut
    <3>2. from(s) = Largest(T)
      BY <2>2
    <3>3. k \in Nat
      BY <2>1
    <3> HIDE DEF T, k, from
    <3>4. T \in SUBSET Int
      BY <3>1, <3>3
    <3>5. IsFiniteSet(1..k)
      <4>1. 1 \in Int /\ k \in Int
        BY <3>3
      <4> QED BY ONLY <4>1, FS_Interval
    <3>6. IsFiniteSet(T)
      BY <3>1, <3>5, FS_Subset
    <3>7. Largest(T) \in T
      BY <3>1, <3>4, <3>6, LargestOf
    <3>8. Largest(T) \in 1..k
      BY <3>1, <3>7
    <3>9. Largest(T) \in 1..(k + 1)
      <4> DEFINE m == Largest(T)
      <4>1. m \in 1..k
        BY <3>8
      <4> HIDE DEF m
      <4>2. m \in 1..(k + 1)
        BY ONLY <3>3, <4>1
      <4> QED BY <4>2 DEF m
    <3> QED BY <2>1, <3>2, <3>8, <3>9 DEF k
  <2>3. CASE s \notin Cut(c)
    <3>1. from(s) = Len(c.queues[s]) + 1
      BY <2>3
    <3> HIDE DEF from
    <3> QED BY <2>1, <2>3, <3>1
  <2> QED BY <2>2, <2>3
<1> HIDE DEF from
<1>4. Shortened(c.queues, left, at)
  <2>1. c.queues \in [Streams -> Seq(Packets)]
    BY <1>1 DEF Held
  <2> QED BY <1>3, <2>1 DEF Shortened
<1>5. /\ left \in [Streams -> Seq(Packets)] /\ Numbered(left, n)
  BY <1>1, <1>4, ShortenedNumbered
<1>6. ASSUME NEW s \in Streams
      PROVE  Len(left[s]) = Len(c.queues[s]) + 1 - from(s)
  <2>1. Len(SubSeq(c.queues[s], from(s), Len(c.queues[s]))) = Len(c.queues[s]) + 1 - from(s)
    BY <1>3, SuffixOf
  <2> QED BY <2>1
<1>7. sizes = Lengths(left)
  <2>1. \A s \in Streams : Len(left[s]) = Len(c.queues[s]) + 1 - from(s)
    BY <1>6
  <2> HIDE DEF left
  <2> QED BY <2>1 DEF Lengths
<1>8. /\ Total(Lengths(left)) = Total(Lengths(c.queues)) - Total(lost)
      /\ Total(Lengths(c.queues)) \in Nat /\ Total(Lengths(left)) \in Nat /\ Total(lost) \in Nat
  <2> HIDE DEF left, at
  <2> QED BY <1>4, ShortenedTotal
<1> HIDE DEF left, at, lost
<1>9. c.pending = <<>> /\ c.committed = FALSE
  BY <1>1 DEF Held
<1>10. Len(c.pending) = 0 /\ MaxBuffered \in Nat
  BY <1>9, EmptySeq, PacketDelayAssumption
<1>11. Total(Lengths(left)) <= MaxBuffered
  <2>1. c.buffered = Len(c.pending) + Total(Lengths(c.queues)) /\ c.buffered <= MaxBuffered
    BY <1>1 DEF Held
  <2> QED BY <1>8, <1>10, <2>1
<1>12. FoldFunction(+, 0, sizes) = Total(Lengths(left))
  BY <1>7 DEF Total
<1> HIDE DEF sizes
<1>13. /\ IsCore(cut) /\ cut.queues = left /\ cut.buffered = Total(Lengths(left))
       /\ \A x \in Fields \ {"queues", "buffered"} : cut[x] = c[x]
  BY <1>1, <1>12 DEF IsCore, Fields
<1> HIDE DEF cut
<1>14. Timed(cut)
  BY <1>1, <1>13 DEF Timed, Fields
<1>15. fronts \in SUBSET Packets
  <2>1. ASSUME NEW s \in Cut(c) PROVE cut.queues[s][1] \in Packets
    <3>1. s \in Streams
      BY DEF Cut, Queued
    <3>2. /\ from(s) \in 1..Len(c.queues[s]) /\ Len(c.queues[s]) \in Nat
          /\ Len(left[s]) = Len(c.queues[s]) + 1 - from(s) /\ left[s] \in Seq(Packets)
      BY <1>3, <1>5, <1>6, <3>1
    <3>3. 1 \in 1..Len(left[s])
      BY <3>2
    <3>4. left[s][1] \in Packets
      BY <3>2, <3>3, ElementOfSeq
    <3> QED BY <1>13, <3>4
  <2> QED BY <2>1
<1>16. IsFiniteSet(fronts) /\ fronts # {}
  <2> DEFINE g == [s \in Cut(c) |-> cut.queues[s][1]]
             X == Cut(c)
  <2>1. fronts = {g[s] : s \in X}
    OBVIOUS
  <2>2. IsFiniteSet(X) /\ X # {}
    <3>1. X \in SUBSET Streams
      BY DEF Cut, Queued
    <3>2. X # {}
      BY DEF CutReady
    <3> HIDE DEF X
    <3> QED BY <3>1, <3>2, FS_Subset, PacketDelayAssumption
  <2>3. fronts # {}
    BY <2>2
  <2> HIDE DEF g, X, fronts
  <2>4. IsFiniteSet({g[s] : s \in X})
    BY <2>2, ImageFinite
  <2> QED BY <2>1, <2>3, <2>4
<1> DEFINE opening == NewEpoch(cut, fronts, c.target)
<1>a. epoch = opening
  OBVIOUS
<1>b. fronts = {cut.queues[s][1] : s \in Cut(c)}
  OBVIOUS
<1> HIDE DEF fronts
<1>17. /\ IsCore(epoch) /\ Timed(epoch) /\ \A x \in Fields \ {"offsets"} : epoch[x] = cut[x]
  <2>1. c.target \in Int
    BY <1>1 DEF Timed
  <2> QED BY <1>13, <1>14, <1>15, <1>16, <2>1, NewEpochSame
<1> HIDE DEF epoch, latest, opening
<1>18. /\ IsCore(d) /\ d.state = "Delayed" /\ d.pendingTarget = c.target
       /\ d.preparingChange = FALSE /\ d.fromDelayed = FALSE
       /\ \A x \in Fields \ {"latest", "active", "preparingChange", "fromDelayed",
                             "pendingTarget", "state"} : d[x] = epoch[x]
  BY <1>17 DEF IsCore, Fields
<1> HIDE DEF d
<1>19. Timed(d)
  <2>1. c.target \in Nat
    BY <1>1 DEF Timed
  <2> QED BY <1>17, <1>18, <2>1 DEF Timed, Fields
<1>20. ASSUME NEW s \in Streams
       PROVE  IF s \in Cut(c) THEN at[s] \in 1..Len(c.queues[s])
              ELSE at[s] = Len(c.queues[s]) + 1
  <2>1. at[s] = from(s)
    BY DEF at
  <2>2. s \notin Cut(c) => from(s) = Len(c.queues[s]) + 1
    BY DEF from
  <2> QED BY <1>3, <2>1, <2>2
<1>21. CutInto(c, d, cut, fronts, at)
  <2>1. cut.queues = left /\ cut.buffered <= MaxBuffered
    BY <1>11, <1>13
  <2>2. opening = NewEpoch(cut, fronts, c.target)
    BY DEF opening
  <2> HIDE DEF opening
  <2> QED BY <1>4, <1>13, <1>14, <1>15, <1>16, <1>18, <1>19, <1>20, <1>a, <1>b, <2>1, <2>2
          DEF CutInto
<1> QED BY <1>2, <1>21

\* The cut shortens the queues, every one to where the delayed branch starts in it.
LEMMA ApplyCutSound ==
  ASSUME NEW c, NEW n \in Nat, Sound(c, n), c.state = "Filling", CutReady(c)
  PROVE  Sound(ApplyCut(c), n)
<1> DEFINE d == ApplyCut(c)
<1>1. Held(c) /\ Numbered(c.queues, n) /\ c.target \in Int
  BY DEF Sound, Timed
<1>2. PICK cut, fronts, at : CutInto(c, d, cut, fronts, at)
  BY ApplyCutParts
<1> HIDE DEF d
<1>3. /\ cut.queues \in [Streams -> Seq(Packets)] /\ Numbered(cut.queues, n)
  BY <1>1, <1>2, ShortenedNumbered DEF CutInto
<1>4. \A x \in Fields \ {"offsets"} : NewEpoch(cut, fronts, c.target)[x] = cut[x]
  BY <1>1, <1>2, NewEpochSame DEF CutInto
<1>5. /\ IsCore(d) /\ Timed(d) /\ d.state = "Delayed" /\ d.queues = cut.queues
      /\ d.pending = c.pending /\ d.buffered = Total(Lengths(cut.queues))
      /\ d.buffered <= MaxBuffered /\ d.committed = c.committed
  BY <1>2, <1>4 DEF CutInto, Fields
<1>6. c.pending = <<>> /\ c.committed = FALSE
  BY <1>1 DEF Held
<1>7. Held(d)
  <2>1. d.pending \in Seq(Packets) /\ Len(d.pending) = 0
    BY <1>5, <1>6, EmptySeq
  <2>2. d.buffered = Len(d.pending) + Total(Lengths(d.queues))
    <3>1. Total(Lengths(cut.queues)) \in Nat
      BY <1>3, LengthsTotal
    <3> QED BY <1>5, <2>1, <3>1
  <2>3. d.state \in States
    BY <1>5 DEF States
  <2> QED BY <1>3, <1>5, <1>6, <2>1, <2>2, <2>3 DEF Held
<1>8. Numbered(d.queues, n) /\ Kept(d, n)
  BY <1>3, <1>5 DEF Kept
<1> QED BY <1>5, <1>7, <1>8 DEF Sound, d


\* The packets of a lane that go live, the lanes that have some, and all these packets.
Goes(c, s) == {i \in DOMAIN c.queues[s] : GoesLive(c, c.queues[s][i])}

GoLanes(c) == {s \in Streams : Goes(c, s) # {}}

GoPackets(c) == UNION {{c.queues[s][i] : i \in Goes(c, s)} : s \in GoLanes(c)}

\* The order in which they are handed out.
InLine(epoch, q) ==
  \A i, j \in DOMAIN q : i < j =>
    \/ OrderingDts(epoch, q[i]) < OrderingDts(epoch, q[j])
    \/ OrderingDts(epoch, q[i]) = OrderingDts(epoch, q[j]) /\ q[i].seq < q[j].seq

\* The commit makes of the object c, which returns, the object d: what goes live is moved
\* into one sequence, with the offsets of an epoch that starts with the fronts of the lanes.
LiveInto(c, d, epoch, fronts, all) ==
  /\ IsCore(epoch) /\ Timed(epoch) /\ \A x \in Fields \ {"offsets"} : epoch[x] = c[x]
  /\ fronts \in SUBSET Packets /\ IsFiniteSet(fronts)
  /\ fronts = {c.queues[s][Least(Goes(c, s))] : s \in GoLanes(c)}
  /\ \A s \in GoLanes(c) : /\ Least(Goes(c, s)) \in DOMAIN c.queues[s]
                           /\ \A i \in Goes(c, s) : Least(Goes(c, s)) <= i
  /\ IF GoLanes(c) = {} THEN epoch.offsets = <<>>
     ELSE fronts # {} /\ epoch = NewEpoch(c, fronts, 0)
  /\ all \in Seq(Packets) /\ Len(all) <= MaxBuffered /\ InLine(epoch, all)
  /\ \A i \in DOMAIN all : all[i] \in GoPackets(c)
  /\ IsCore(d) /\ Timed(d) /\ d.pending = all /\ d.buffered = Len(all)
  /\ d.queues = NoQueues /\ d.committed = TRUE /\ d.returnFromDelayed = FALSE
  /\ \A x \in {"state", "offsets", "lastDts", "maxPts", "emitted", "preparingChange",
               "fromDelayed"} : d[x] = epoch[x]

\* That is what build_return_pending_locked does: the packets that go live can be put in
\* order, and there are no more of them than were buffered.
LEMMA CommitParts ==
  ASSUME NEW c, NEW n, Sound(c, n), c.state = "Returning"
  PROVE  \E epoch, fronts, all :
           LiveInto(c, [BuildPending(c) EXCEPT !.committed = TRUE, !.returnFromDelayed = FALSE],
                    epoch, fronts, all)
<1> DEFINE goes(s) == {i \in DOMAIN c.queues[s] : GoesLive(c, c.queues[s][i])}
           lanes == {s \in Streams : goes(s) # {}}
           fronts == {c.queues[s][Least(goes(s))] : s \in lanes}
           epoch == IF lanes = {} THEN [c EXCEPT !.offsets = <<>>] ELSE NewEpoch(c, fronts, 0)
           before(p, q) == \/ OrderingDts(epoch, p) < OrderingDts(epoch, q)
                           \/ OrderingDts(epoch, p) = OrderingDts(epoch, q) /\ p.seq < q.seq
           P == UNION {{c.queues[s][i] : i \in goes(s)} : s \in lanes}
           Q == UNION {{c.queues[s][i] : i \in DOMAIN c.queues[s]} : s \in Streams}
           Good(q) == \A i, j \in DOMAIN q : i < j => before(q[i], q[j])
           all == CHOOSE q \in SetToSeqs(P) : Good(q)
           b == [ClearQueues(epoch) EXCEPT !.pending = all, !.buffered = Len(all)]
           d == [b EXCEPT !.committed = TRUE, !.returnFromDelayed = FALSE]
<1>1. IsCore(c) /\ Timed(c) /\ Held(c) /\ Numbered(c.queues, n)
  BY DEF Sound
<1>2. BuildPending(c) = b
  BY DEF BuildPending
<1>3. ASSUME NEW s \in Streams
      PROVE  /\ goes(s) \in SUBSET Int /\ IsFiniteSet(goes(s))
             /\ \A i \in DOMAIN c.queues[s] : c.queues[s][i] \in Packets
  <2>1. /\ Len(c.queues[s]) \in Nat /\ DOMAIN c.queues[s] = 1..Len(c.queues[s])
        /\ \A i \in DOMAIN c.queues[s] : c.queues[s][i] \in Packets
    BY <1>1, QueueFacts
  <2> DEFINE k == Len(c.queues[s])
             T == goes(s)
  <2>2. T \in SUBSET (1..k) /\ k \in Nat
    BY <2>1
  <2> HIDE DEF T, k
  <2>3. IsFiniteSet(1..k)
    <3>1. 1 \in Int /\ k \in Int
      BY <2>2
    <3> QED BY ONLY <3>1, FS_Interval
  <2>4. IsFiniteSet(T) /\ T \in SUBSET Int
    <3>1. IsFiniteSet(T)
      BY <2>2, <2>3, FS_Subset
    <3>2. \A x \in 1..k : x \in Int
      BY <2>2
    <3> QED BY <2>2, <3>1, <3>2
  <2> QED BY <2>1, <2>4 DEF T
<1>4. ASSUME NEW s \in lanes
      PROVE  s \in Streams /\ Least(goes(s)) \in DOMAIN c.queues[s]
  <2>1. s \in Streams /\ goes(s) # {} /\ goes(s) \in SUBSET DOMAIN c.queues[s]
    OBVIOUS
  <2> DEFINE T == goes(s)
  <2>2. T \in SUBSET Int /\ IsFiniteSet(T) /\ T # {}
    BY <1>3, <2>1
  <2> HIDE DEF T
  <2>3. Least(T) \in T
    BY <2>2, LeastOf
  <2> QED BY <2>1, <2>3 DEF T
<1>5. fronts \in SUBSET Packets
  <2>1. ASSUME NEW s \in lanes PROVE c.queues[s][Least(goes(s))] \in Packets
    BY <1>3, <1>4
  <2> QED BY <2>1
<1>6. IsFiniteSet(fronts) /\ (lanes # {} => fronts # {})
  <2> DEFINE g == [s \in lanes |-> c.queues[s][Least(goes(s))]]
             X == lanes
  <2>1. fronts = {g[s] : s \in X} /\ (lanes # {} => fronts # {})
    <3> HIDE DEF goes, lanes
    <3> QED OBVIOUS
  <2>2. X \in SUBSET Streams
    OBVIOUS
  <2> HIDE DEF g, X, fronts, lanes
  <2>3. IsFiniteSet(X)
    BY <2>2, FS_Subset, PacketDelayAssumption
  <2>4. IsFiniteSet({g[s] : s \in X})
    BY <2>3, ImageFinite
  <2> QED BY <2>1, <2>4
<1>7. P \in SUBSET Q
  OBVIOUS
<1>8. ASSUME NEW x \in Q
      PROVE  \E s \in Streams : \E i \in DOMAIN c.queues[s] :
               x = c.queues[s][i] /\ x \in Packets
  <2>1. PICK s \in Streams : x \in {c.queues[s][i] : i \in DOMAIN c.queues[s]}
    OBVIOUS
  <2>2. PICK i \in DOMAIN c.queues[s] : x = c.queues[s][i]
    BY <2>1
  <2>3. x \in Packets
    BY <1>3, <2>2
  <2> QED BY <2>2, <2>3
<1>a. /\ lanes = GoLanes(c) /\ P = GoPackets(c)
      /\ fronts = {c.queues[s][Least(Goes(c, s))] : s \in GoLanes(c)}
  BY DEF Goes, GoLanes, GoPackets
<1>b. \A s \in GoLanes(c) : /\ Least(Goes(c, s)) \in DOMAIN c.queues[s]
                            /\ \A i \in Goes(c, s) : Least(Goes(c, s)) <= i
  <2> SUFFICES ASSUME NEW s \in GoLanes(c)
               PROVE  /\ Least(Goes(c, s)) \in DOMAIN c.queues[s]
                      /\ \A i \in Goes(c, s) : Least(Goes(c, s)) <= i
    OBVIOUS
  <2>1. s \in Streams /\ Goes(c, s) # {} /\ Goes(c, s) \in SUBSET DOMAIN c.queues[s]
    BY DEF GoLanes, Goes
  <2>2. Goes(c, s) \in SUBSET Int /\ IsFiniteSet(Goes(c, s))
    <3>1. goes(s) = Goes(c, s)
      BY DEF Goes
    <3> HIDE DEF goes
    <3> QED BY <1>3, <2>1, <3>1
  <2> QED BY <2>1, <2>2, LeastOf
<1> HIDE DEF goes, lanes, fronts
<1>9. IsCore(epoch) /\ Timed(epoch) /\ \A x \in Fields \ {"offsets"} : epoch[x] = c[x]
  <2>1. CASE lanes = {}
    <3> DEFINE e == [c EXCEPT !.offsets = <<>>]
    <3>1. epoch = e
      BY <2>1
    <3>2. IsCore(e) /\ e.offsets = <<>> /\ \A x \in Fields \ {"offsets"} : e[x] = c[x]
      BY <1>1 DEF IsCore, Fields
    <3> HIDE DEF e, epoch
    <3>3. IntValued(<<>>)
      BY EmptySeq, LenProperties DEF IntValued
    <3>4. Timed(e)
      BY <1>1, <3>2, <3>3 DEF Timed, Fields
    <3> QED BY <3>1, <3>2, <3>4
  <2>2. CASE lanes # {}
    <3>1. epoch = NewEpoch(c, fronts, 0)
      BY <2>2
    <3>2. 0 \in Int
      OBVIOUS
    <3> HIDE DEF epoch
    <3> QED BY <1>1, <1>5, <1>6, <2>2, <3>1, <3>2, NewEpochSame
  <2> QED BY <2>1, <2>2
<1>c. IF lanes = {} THEN epoch.offsets = <<>>
      ELSE fronts # {} /\ epoch = NewEpoch(c, fronts, 0)
  <2>1. CASE lanes = {}
    BY <1>1, <2>1 DEF IsCore, Fields
  <2>2. CASE lanes # {}
    BY <1>6, <2>2
  <2> QED BY <2>1, <2>2
<1> HIDE DEF epoch
<1>10. IsFiniteSet(P) /\ Cardinality(P) \in Nat /\ Cardinality(P) <= Total(Lengths(c.queues))
  <2>1. c.queues \in [Streams -> Seq(Packets)]
    BY <1>1 DEF Held
  <2>2. IsFiniteSet(Q) /\ Cardinality(Q) <= Total(Lengths(c.queues))
    BY <2>1, PacketsCounted
  <2>3. Total(Lengths(c.queues)) \in Nat
    BY <2>1, LengthsTotal
  <2> HIDE DEF P, Q
  <2>4. IsFiniteSet(P) /\ Cardinality(P) <= Cardinality(Q)
    BY <1>7, <2>2, FS_Subset
  <2>5. Cardinality(P) \in Nat /\ Cardinality(Q) \in Nat
    BY <2>2, <2>4, FS_CardinalityType
  <2> QED BY <2>2, <2>3, <2>4, <2>5
<1>11. \E q \in SetToSeqs(P) : Good(q)
  <2> DEFINE f == [p \in P |-> OrderingDts(epoch, p)]
             g == [p \in P |-> p.seq]
  <2>1. ASSUME NEW p \in P
        PROVE  OrderingDts(epoch, p) \in Int /\ p.seq \in Int
    <3>1. p \in Packets
      BY <1>7, <1>8
    <3>2. p.dts \in Int /\ p.seq \in Nat
      BY <3>1 DEF Packets
    <3>3. p.stream \in DOMAIN epoch.offsets => epoch.offsets[p.stream] \in Int
      BY <1>9 DEF Timed, IntValued
    <3> QED BY <3>2, <3>3 DEF OrderingDts
  <2>2. ASSUME NEW x \in P, NEW y \in P, x # y PROVE x.seq # y.seq
    <3>a. x \in Q /\ y \in Q
      BY <1>7
    <3>1. PICK s \in Streams : \E i \in DOMAIN c.queues[s] : x = c.queues[s][i]
      <4> HIDE DEF P, Q
      <4> QED BY <1>8, <3>a
    <3>2. PICK i \in DOMAIN c.queues[s] : x = c.queues[s][i]
      BY <3>1
    <3>3. PICK t \in Streams : \E j \in DOMAIN c.queues[t] : y = c.queues[t][j]
      <4> HIDE DEF P, Q
      <4> QED BY <1>8, <3>a
    <3>4. PICK j \in DOMAIN c.queues[t] : y = c.queues[t][j]
      BY <3>3
    <3> SUFFICES ASSUME x.seq = y.seq PROVE FALSE
      OBVIOUS
    <3>5. s = t
      BY <1>1, <3>2, <3>4 DEF Numbered
    <3>6. i \in Int /\ j \in Int /\ x.seq \in Nat /\ y.seq \in Nat
      <4>1. DOMAIN c.queues[s] = 1..Len(c.queues[s]) /\ Len(c.queues[s]) \in Nat
        BY <1>1, QueueFacts
      <4>2. x.seq \in Nat /\ y.seq \in Nat
        BY <1>3, <3>2, <3>4 DEF Packets
      <4> QED BY <3>5, <4>1, <4>2
    <3>7. i # j
      BY <2>2, <3>2, <3>4, <3>5
    <3>8. i < j \/ j < i
      BY <3>6, <3>7
    <3>9. x.seq < y.seq \/ y.seq < x.seq
      BY <1>1, <3>2, <3>4, <3>5, <3>8 DEF Numbered
    <3> QED BY <3>6, <3>9
  <2>3. \A p \in P : f[p] = OrderingDts(epoch, p) /\ g[p] = p.seq
    OBVIOUS
  <2>4. /\ \A x \in P : f[x] \in Int /\ g[x] \in Int
        /\ \A x, y \in P : x # y => g[x] # g[y]
    BY <2>1, <2>2, <2>3
  <2>5. PICK q \in SetToSeqs(P) : SortedBy(q, f, g)
    <3> HIDE DEF P, f, g
    <3> QED BY <1>10, <2>4, SortedExists
  <2>6. \A i \in DOMAIN q : q[i] \in P
    <3> HIDE DEF P
    <3> QED BY <2>5 DEF SetToSeqs
  <2>7. Good(q)
    <3> HIDE DEF P, f, g
    <3> QED BY <2>3, <2>5, <2>6 DEF SortedBy
  <2> QED BY <2>5, <2>7
<1>12. all \in SetToSeqs(P) /\ Good(all)
  <2> HIDE DEF P, Good
  <2> QED BY <1>11
<1>d. InLine(epoch, all)
  BY <1>12 DEF InLine
<1> HIDE DEF Good
<1>13. all \in Seq(Packets) /\ Len(all) = Cardinality(P) /\ \A i \in DOMAIN all : all[i] \in P
  <2>1. P \in SUBSET Packets
    BY <1>7, <1>8
  <2> HIDE DEF P, all
  <2>2. all \in [1..Cardinality(P) -> P]
    BY <1>12 DEF SetToSeqs
  <2>3. all \in [1..Cardinality(P) -> Packets]
    BY <2>1, <2>2
  <2> QED BY <1>10, <2>2, <2>3, LenProperties
<1> HIDE DEF P, Q, all
<1>14. IsCore(ClearQueues(epoch)) /\ ClearQueues(epoch).queues = NoQueues
       /\ \A x \in Fields \ {"queues", "pending", "buffered", "active", "latest", "seen"} :
            ClearQueues(epoch)[x] = epoch[x]
  BY <1>9, ClearedFields
<1>15. /\ IsCore(d) /\ d.pending = all /\ d.buffered = Len(all) /\ d.committed = TRUE
       /\ d.returnFromDelayed = FALSE
       /\ \A x \in Fields \ {"pending", "buffered", "committed", "returnFromDelayed"} :
            d[x] = ClearQueues(epoch)[x]
  BY <1>14 DEF IsCore, Fields
<1> HIDE DEF d
<1>16. Timed(d)
  BY <1>9, <1>14, <1>15 DEF Timed, Fields
<1>17. d.queues = NoQueues
       /\ \A x \in {"state", "offsets", "lastDts", "maxPts", "emitted", "preparingChange",
                    "fromDelayed"} : d[x] = epoch[x]
  BY <1>14, <1>15 DEF Fields
<1>18. Len(all) <= MaxBuffered
  <2>1. c.buffered = Len(c.pending) + Total(Lengths(c.queues)) /\ c.buffered <= MaxBuffered
        /\ c.pending \in Seq(Packets) /\ c.queues \in [Streams -> Seq(Packets)]
    BY <1>1 DEF Held
  <2>2. Len(c.pending) \in Nat /\ Total(Lengths(c.queues)) \in Nat /\ MaxBuffered \in Nat
    BY <2>1, LenProperties, LengthsTotal, PacketDelayAssumption
  <2> QED BY <1>10, <1>13, <2>1, <2>2
<1>19. LiveInto(c, d, epoch, fronts, all)
  BY <1>5, <1>6, <1>9, <1>13, <1>15, <1>16, <1>17, <1>18, <1>a, <1>b, <1>c, <1>d DEF LiveInto
<1> QED BY <1>2, <1>19 DEF d

\* The packets that go live are moved into one sequence, in the order of their new
\* timestamps; it exists, and it is no longer than the queues together.
LEMMA CommitSound ==
  ASSUME NEW c, NEW n, Sound(c, n), c.state = "Returning"
  PROVE  Sound([BuildPending(c) EXCEPT !.committed = TRUE, !.returnFromDelayed = FALSE], n)
<1> DEFINE d == [BuildPending(c) EXCEPT !.committed = TRUE, !.returnFromDelayed = FALSE]
<1>1. PICK epoch, fronts, all : LiveInto(c, d, epoch, fronts, all)
  BY CommitParts
<1> HIDE DEF d
<1>2. /\ IsCore(d) /\ Timed(d) /\ d.pending = all /\ d.buffered = Len(all)
      /\ d.queues = NoQueues /\ d.committed = TRUE /\ d.state = "Returning"
      /\ all \in Seq(Packets) /\ Len(all) <= MaxBuffered
  BY <1>1 DEF LiveInto, Fields
<1>3. Len(all) = Len(d.pending) + Total(Lengths(d.queues))
  <2>1. Total(Lengths(d.queues)) = 0 /\ Len(all) \in Nat
    BY <1>2, EmptyQueues, LenProperties
  <2> QED BY <1>2, <2>1
<1>4. Held(d)
  BY <1>2, <1>3, EmptyQueues DEF Held, States
<1>5. Numbered(d.queues, n) /\ Kept(d, n)
  BY <1>2, EmptyQueues DEF Kept
<1> QED BY <1>2, <1>4, <1>5 DEF Sound, d

----------------------------------------------------------------------------
(* The calls.                                                              *)

\* A packet that is pushed, whichever way it goes.
LEMMA PushedSound ==
  ASSUME NEW c, NEW n \in Nat, Sound(c, n), NEW p \in Packets, p.seq = n + 1
  PROVE  Sound(Pushed(c, p).core, n + 1)
<1> DEFINE kept == Enqueue(c, p)
           seen == ObserveKeyframe(kept, p)
           sent == DrainPending(c)
           live == PassLive(sent.core, p)
           drained == DrainReady(kept)
           passes == c.state \in {"Bypass", "Error"} \/ (c.state = "Preparing" /\ ~c.preparingChange)
           pruned == [drained EXCEPT !.core = IF @.state = "Delayed" THEN Prune(@) ELSE @]
<1>1. n + 1 \in Nat /\ Sound(c, n + 1)
  <2>1. n + 1 \in Nat /\ n <= n + 1
    OBVIOUS
  <2> QED BY <2>1, SoundLater
<1>2. c.committed \in BOOLEAN /\ c.state \in States /\ (c.committed => c.state = "Returning")
  BY DEF Sound, Held
<1>3. Sound(PassLive(c, p).core, n + 1)
  BY <1>1, PassLiveSound
<1>4. Sound(live.core, n + 1)
  <2>1. Sound(sent.core, n + 1)
    BY <1>1, DrainPendingSound
  <2> HIDE DEF sent
  <2> QED BY <2>1, PassLiveSound
<1>5. \/ Sound(kept, n + 1) /\ kept.state = "Error"
      \/ /\ Entered(kept, p, n)
         /\ kept.state = c.state /\ kept.committed = c.committed
  BY EnqueueSound
<1>6. Pushed(c, p) =
        IF passes THEN PassLive(c, p)
        ELSE IF c.committed THEN [core |-> live.core, out |-> sent.out \o live.out]
        ELSE IF kept.state = "Error" THEN PassLive(kept, p)
        ELSE CASE c.state = "Filling" -> Quiet(Prune(kept))
               [] c.state = "Preparing" -> DrainReady(Prune(kept))
               [] c.state = "Delayed" -> pruned
               [] OTHER -> IF c.returnFromDelayed THEN DrainReady(seen) ELSE Quiet(seen)
  BY DEF Pushed
<1> HIDE DEF sent, live, kept
<1>7. CASE passes
  <2> HIDE DEF seen, pruned
  <2>1. Pushed(c, p) = PassLive(c, p)
    BY <1>6, <1>7
  <2> QED BY <1>3, <2>1
<1>8. CASE ~passes /\ c.committed
  <2> HIDE DEF seen, pruned, passes
  <2>1. Pushed(c, p) = [core |-> live.core, out |-> sent.out \o live.out]
    BY <1>6, <1>8
  <2> QED BY <1>4, <2>1
<1>9. CASE ~passes /\ ~c.committed /\ kept.state = "Error"
  <2>1. Sound(kept, n + 1)
    BY <1>5, <1>9
  <2> HIDE DEF seen, pruned, passes
  <2>2. Pushed(c, p) = PassLive(kept, p)
    BY <1>6, <1>9
  <2> QED BY <2>1, <2>2, PassLiveSound
<1>10. CASE ~passes /\ ~c.committed /\ kept.state # "Error"
  <2>1. Entered(kept, p, n) /\ kept.state = c.state /\ kept.committed = FALSE
    BY <1>2, <1>5, <1>10
  <2>2. c.state # "Returning" => Sound(kept, n + 1)
    BY <2>1, EnteredSound
  <2>3. CASE c.state = "Filling"
    <3>1. Sound(Prune(kept), n + 1)
      BY <1>1, <2>2, <2>3, PruneSound
    <3> HIDE DEF seen, pruned, passes
    <3>2. Pushed(c, p) = Quiet(Prune(kept))
      BY <1>6, <1>10, <2>3
    <3> QED BY <3>1, <3>2 DEF Quiet
  <2>4. CASE c.state = "Preparing"
    <3>1. Sound(Prune(kept), n + 1)
      BY <1>1, <2>2, <2>4, PruneSound
    <3> HIDE DEF seen, pruned, passes
    <3>2. Pushed(c, p) = DrainReady(Prune(kept))
      BY <1>6, <1>10, <2>4
    <3> QED BY <3>1, <3>2, DrainReadySound DEF Drained
  <2>5. CASE c.state = "Delayed"
    <3>1. Drained(drained, n + 1)
      BY <2>2, <2>5, DrainReadySound
    <3> HIDE DEF drained
    <3>2. Sound(Prune(drained.core), n + 1)
      BY <1>1, <3>1, PruneSound DEF Drained
    <3>3. pruned.core = IF drained.core.state = "Delayed" THEN Prune(drained.core) ELSE drained.core
      BY <3>1 DEF Drained
    <3>4. Sound(pruned.core, n + 1)
      BY <3>1, <3>2, <3>3 DEF Drained
    <3> HIDE DEF seen, pruned, passes
    <3>5. Pushed(c, p) = pruned
      BY <1>6, <1>10, <2>5
    <3> QED BY <3>4, <3>5
  <2>6. CASE c.state = "Returning"
    <3>1. Sound(seen, n + 1)
      BY <2>1, ObserveSound
    <3> HIDE DEF seen, pruned, passes
    <3>2. Pushed(c, p) = IF c.returnFromDelayed THEN DrainReady(seen) ELSE Quiet(seen)
      BY <1>6, <1>10, <2>6
    <3>3. Sound(DrainReady(seen).core, n + 1)
      BY <3>1, DrainReadySound DEF Drained
    <3>4. Quiet(seen).core = seen
      BY DEF Quiet
    <3> QED BY <3>1, <3>2, <3>3, <3>4
  <2>7. c.state \in {"Filling", "Preparing", "Delayed", "Returning"}
    BY <1>2, <1>10 DEF States
  <2> QED BY <2>3, <2>4, <2>5, <2>6, <2>7
<1> QED BY <1>7, <1>8, <1>9, <1>10

\* A poll.
LEMMA PolledSound ==
  ASSUME NEW c, NEW n \in Nat, Sound(c, n)
  PROVE  Sound(Polled(c).core, n)
<1> DEFINE drained == DrainReady(c)
           pruned == [drained EXCEPT !.core = IF @.state = "Delayed" THEN Prune(@) ELSE @]
<1>1. Drained(drained, n)
  BY DrainReadySound
<1>2. Sound(DrainPending(c).core, n)
  BY DrainPendingSound
<1>3. Sound(Prune(c), n)
  BY PruneSound
<1>4. Polled(c) =
        CASE c.state = "Preparing" /\ c.preparingChange -> drained
          [] c.state = "Filling" -> Quiet(Prune(c))
          [] c.state = "Delayed" -> pruned
          [] c.committed -> DrainPending(c)
          [] c.state = "Returning" /\ c.returnFromDelayed -> drained
          [] OTHER -> Quiet(c)
  BY DEF Polled
<1> HIDE DEF drained
<1>5. Sound(drained.core, n)
  BY <1>1 DEF Drained
<1>6. Sound(pruned.core, n)
  <2>1. Sound(Prune(drained.core), n)
    BY <1>5, PruneSound
  <2>2. pruned.core = IF drained.core.state = "Delayed" THEN Prune(drained.core) ELSE drained.core
    BY <1>1 DEF Drained
  <2> HIDE DEF pruned
  <2> QED BY <1>5, <2>1, <2>2
<1>7. Quiet(c).core = c /\ Quiet(Prune(c)).core = Prune(c)
  BY DEF Quiet
<1> HIDE DEF pruned
<1>8. \/ Polled(c) = drained \/ Polled(c) = Quiet(Prune(c)) \/ Polled(c) = pruned
      \/ Polled(c) = DrainPending(c) \/ Polled(c) = Quiet(c)
  BY <1>4
<1> QED BY <1>2, <1>3, <1>5, <1>6, <1>7, <1>8

----------------------------------------------------------------------------
(* The requests.                                                           *)

\* A request that moves the object to another state and leaves the buffer alone; when it
\* begins a return, no keyframe is chosen yet.
LEMMA MovedSound ==
  ASSUME NEW c, NEW n, Sound(c, n), c.committed = FALSE,
         NEW d, IsCore(d), Timed(d), d.queues = c.queues, d.pending = c.pending,
         d.buffered = c.buffered, d.committed = FALSE, d.state \in States,
         d.state = "Returning" => d.returnKeys = <<>>
  PROVE  Sound(d, n)
<1>1. Held(d)
  BY DEF Sound, Held
<1>2. Numbered(d.queues, n)
  BY DEF Sound
<1>3. DOMAIN <<>> = {}
  OBVIOUS
<1>4. Kept(d, n)
  BY <1>3 DEF Kept
<1> QED BY <1>1, <1>2, <1>4 DEF Sound

\* The end of a return, and what brings the object out of an error.
LEMMA IdleSound ==
  ASSUME NEW c, IsCore(c), Timed(c), NEW n
  PROVE  Sound(Idle(c), n)
<1> DEFINE e == ClearAll(c)
           d == Idle(c)
<1>1. /\ IsCore(e) /\ e.queues = NoQueues /\ e.pending = <<>> /\ e.buffered = 0
      /\ e.committed = FALSE /\ e.observed = c.observed /\ e.offsets = c.offsets
      /\ e.lastDts = c.lastDts /\ e.maxPts = c.maxPts /\ e.emitted = c.emitted
  BY ClearedFields
<1> HIDE DEF e
<1>2. d = [[e EXCEPT !.target = 0, !.pendingTarget = 0]
             EXCEPT !.previousTarget = 0, !.state = "Bypass"]
  BY DEF Idle, Retarget, e
<1> HIDE DEF d
<1>3. /\ IsCore(d) /\ d.target = 0 /\ d.pendingTarget = 0 /\ d.previousTarget = 0
      /\ d.state = "Bypass"
      /\ \A x \in Fields \ {"target", "pendingTarget", "previousTarget", "state"} : d[x] = e[x]
  BY <1>1, <1>2 DEF IsCore, Fields
<1>4. Timed(d)
  <2>1. /\ d.observed = c.observed /\ d.offsets = c.offsets /\ d.lastDts = c.lastDts
        /\ d.maxPts = c.maxPts /\ d.emitted = c.emitted
    BY <1>1, <1>3 DEF Fields
  <2> QED BY <1>3, <2>1 DEF Timed
<1>5. d.queues = NoQueues /\ d.pending = <<>> /\ d.buffered = 0 /\ d.committed = FALSE
  BY <1>1, <1>3 DEF Fields
<1>6. Sound(d, n)
  BY <1>3, <1>4, <1>5, EmptySound DEF States
<1> QED BY <1>6 DEF d

\* The beginning of an activation.
LEMMA ActivateSound ==
  ASSUME NEW c, IsCore(c), Timed(c), NEW delay \in Nat, NEW n
  PROVE  Sound([Retarget(ClearAll(c), delay) EXCEPT !.previousTarget = 0, !.state = "Preparing"], n)
<1> DEFINE e == ClearAll(c)
           d == [Retarget(ClearAll(c), delay) EXCEPT !.previousTarget = 0, !.state = "Preparing"]
<1>1. /\ IsCore(e) /\ e.queues = NoQueues /\ e.pending = <<>> /\ e.buffered = 0
      /\ e.committed = FALSE /\ e.observed = c.observed /\ e.offsets = c.offsets
      /\ e.lastDts = c.lastDts /\ e.maxPts = c.maxPts /\ e.emitted = c.emitted
  BY ClearedFields
<1> HIDE DEF e
<1>2. d = [[e EXCEPT !.target = delay, !.pendingTarget = delay]
             EXCEPT !.previousTarget = 0, !.state = "Preparing"]
  BY DEF Retarget, e
<1> HIDE DEF d
<1>3. /\ IsCore(d) /\ d.target = delay /\ d.pendingTarget = delay /\ d.previousTarget = 0
      /\ d.state = "Preparing"
      /\ \A x \in Fields \ {"target", "pendingTarget", "previousTarget", "state"} : d[x] = e[x]
  BY <1>1, <1>2 DEF IsCore, Fields
<1>4. Timed(d)
  <2>1. /\ d.observed = c.observed /\ d.offsets = c.offsets /\ d.lastDts = c.lastDts
        /\ d.maxPts = c.maxPts /\ d.emitted = c.emitted
    BY <1>1, <1>3 DEF Fields
  <2> QED BY <1>3, <2>1 DEF Timed
<1>5. d.queues = NoQueues /\ d.pending = <<>> /\ d.buffered = 0 /\ d.committed = FALSE
  BY <1>1, <1>3 DEF Fields
<1>6. Sound(d, n)
  BY <1>3, <1>4, <1>5, EmptySound DEF States
<1> QED BY <1>6 DEF d

\* The beginning of a return.
LEMMA StartReturnSound ==
  ASSUME NEW c, NEW n, Sound(c, n), c.committed = FALSE, NEW delayed
  PROVE  Sound(StartReturn(c, delayed), n)
<1> DEFINE lanes == IF c.active # {} THEN c.active ELSE Queued(c)
           required == {s \in lanes : IsVideo(s)}
           d == [c EXCEPT !.state = "Returning", !.returnFromDelayed = delayed, !.committed = FALSE,
                          !.requestedAt = c.observed, !.returnKeys = <<>>,
                          !.returnRequired = required,
                          !.preparingChange = FALSE, !.fromDelayed = FALSE]
<1>1. StartReturn(c, delayed) = d
  BY DEF StartReturn
<1>2. IsCore(c) /\ Timed(c)
  BY DEF Sound
<1> HIDE DEF lanes, required
<1>3. /\ IsCore(d) /\ d.state = "Returning" /\ d.committed = FALSE /\ d.returnKeys = <<>>
      /\ \A x \in {"target", "pendingTarget", "previousTarget", "observed", "offsets",
                   "lastDts", "maxPts", "emitted", "queues", "pending", "buffered"} : d[x] = c[x]
  BY <1>2 DEF IsCore, Fields
<1> HIDE DEF d
<1>4. Timed(d)
  BY <1>2, <1>3 DEF Timed
<1>5. d.state \in States /\ d.queues = c.queues /\ d.pending = c.pending /\ d.buffered = c.buffered
  BY <1>3 DEF States
<1>6. Sound(d, n)
  BY <1>3, <1>4, <1>5, MovedSound
<1> QED BY <1>1, <1>6

\* A change that is cancelled.
LEMMA UncommittedSound ==
  ASSUME NEW c, NEW n, Sound(c, n), c.committed = FALSE,
         NEW e, IsCore(e), Timed(e), e.queues = c.queues, e.pending = c.pending,
         e.buffered = c.buffered, e.committed = FALSE
  PROVE  Sound(Uncommitted(e), n)
<1> DEFINE d == Uncommitted(e)
<1>1. /\ IsCore(d) /\ d.state = "Delayed"
      /\ \A x \in Fields \ {"preparingChange", "fromDelayed", "state"} : d[x] = e[x]
  BY DEF Uncommitted, IsCore, Fields
<1> HIDE DEF d
<1>2. Timed(d)
  BY <1>1 DEF Timed, Fields
<1>3. /\ d.state \in States /\ d.queues = c.queues /\ d.pending = c.pending
      /\ d.buffered = c.buffered /\ d.committed = FALSE /\ d.state # "Returning"
  BY <1>1 DEF Fields, States
<1>4. Sound(d, n)
  BY <1>1, <1>2, <1>3, MovedSound
<1> QED BY <1>4 DEF d

\* The fields that every request leaves alone.
Unmoved == {"queues", "pending", "buffered", "committed"}

\* Changes of the targets and of the state; what has changed is named.
LEMMA RequestSound ==
  ASSUME NEW c, NEW n, Sound(c, n), c.committed = FALSE,
         NEW d, IsCore(d), d.state \in States \ {"Returning"},
         d.target \in Nat, d.pendingTarget \in Nat, d.previousTarget \in Nat,
         \A x \in Unmoved \cup {"observed", "offsets", "lastDts", "maxPts", "emitted"} : d[x] = c[x]
  PROVE  Sound(d, n)
<1>1. Timed(d)
  BY DEF Sound, Timed
<1>2. /\ d.queues = c.queues /\ d.pending = c.pending /\ d.buffered = c.buffered
      /\ d.committed = FALSE
  BY DEF Unmoved
<1> QED BY <1>1, <1>2, MovedSound

----------------------------------------------------------------------------
(* The steps.                                                              *)

\* The next packet of a stream has the next number.
LEMMA NextPacketTyped ==
  ASSUME LastOK, NEW t \in Int, NEW s \in Streams
  PROVE  /\ NextPacket(t, s) \in Packets /\ NextPacket(t, s).seq = last.count + 1
         /\ NextPacket(t, s).stream = s
<1> DEFINE phase == last.on[s].frames % last.encoder.gop
           lead == IF ~IsVideo(s) THEN 0
                   ELSE CASE phase = 0 -> 1 [] phase = 1 /\ last.encoder.gop > 2 -> 2 [] OTHER -> 0
           key == ~IsVideo(s) \/ phase = 0
           dts == t - (IF IsVideo(s) THEN 0 ELSE last.encoder.lag)
           seq == last.count + 1
           after == last.on[s].seq
<1>1. NextPacket(t, s) = [stream |-> s, seq |-> seq, after |-> after, dts |-> dts,
                          pts |-> dts + lead, key |-> key, at |-> t]
  BY DEF NextPacket, Packet
<1>2. lead \in Int
  <2>1. lead = 0 \/ lead = 1 \/ lead = 2
    <3> HIDE DEF phase
    <3>1. CASE phase = 0
      BY <3>1
    <3>2. CASE phase # 0
      BY <3>2
    <3> QED BY <3>1, <3>2
  <2> HIDE DEF lead
  <2> QED BY <2>1
<1>3. key \in BOOLEAN
  <2>1. key = TRUE \/ key = FALSE
    OBVIOUS
  <2> QED BY <2>1
<1>4. dts \in Int
  <2>1. last.encoder.lag \in Nat
    BY PacketDelayAssumption DEF LastOK
  <2> QED BY <2>1
<1>5. seq \in Nat /\ after \in Nat
  BY DEF LastOK
<1> HIDE DEF lead, key, dts, seq, after
<1>6. dts + lead \in Int
  BY <1>2, <1>4
<1>7. NextPacket(t, s) \in Packets
  BY <1>1, <1>3, <1>4, <1>5, <1>6 DEF Packets
<1> QED BY <1>1, <1>7 DEF seq

\* What has been pushed is noted.
LEMMA SentTyped ==
  ASSUME LastOK, NEW p \in Packets, p.seq = last.count + 1, Sent(p)
  PROVE  LastOK' /\ last'.count = p.seq
<1>1. p.stream \in Streams /\ p.seq \in Nat /\ p.dts \in Int
  BY DEF Packets
<1> DEFINE old == last.on[p.stream]
           new == [seq |-> p.seq, dts |-> p.dts, frames |-> old.frames + 1]
           on == [last.on EXCEPT ![p.stream] = new]
<1>2. new \in [seq : Nat, dts : Int, frames : Nat]
  <2>1. old.frames \in Nat
    BY <1>1 DEF LastOK
  <2> HIDE DEF old
  <2> QED BY <1>1, <2>1
<1>3. last' = [last EXCEPT !.count = p.seq, !.on = on]
  BY DEF Sent, LastOK
<1> HIDE DEF new
<1>4. on \in [Streams -> [seq : Nat, dts : Int, frames : Nat]]
  BY <1>2 DEF LastOK
<1> HIDE DEF on
<1>5. last' = [encoder |-> last.encoder, count |-> p.seq, on |-> on]
  BY <1>3 DEF LastOK
<1> QED BY <1>1, <1>4, <1>5 DEF LastOK

\* A call that pushes nothing leaves the object sound if its result is.
LEMMA CallSound ==
  ASSUME SoundInv, NEW d, core' = d, Sound(d, last.count), last' = last
  PROVE  SoundInv'
BY DEF SoundInv, LastOK

\* A request that is accepted.
LEMMA AcceptedCall ==
  ASSUME NEW d
  PROVE  /\ \A free : Returns(Quiet(d), free) => core' = d
         /\ Accepted(d) => core' = d /\ last' = last
         /\ Begun(d) => core' = d /\ last' = last
BY DEF Accepted, Begun, Returns, Quiet

\* The calls that hand packets in and out.
LEMMA TrafficSound ==
  ASSUME SoundInv,
         \/ Refused \/ Push \/ PushStale \/ Poll \/ PruneNow \/ ObserveExternalOutput
  PROVE  SoundInv'
<1>1. LastOK /\ Sound(core, last.count) /\ last.count \in Nat
  BY DEF SoundInv, LastOK
<1>2. IsCore(core) /\ Timed(core) /\ core.observed \in Nat
  BY <1>1 DEF Sound, Timed
<1>3. CASE Refused
  <2> DEFINE d == [core EXCEPT !.observed = @ + 1]
  <2>1. core' = d /\ last' = last
    BY <1>3 DEF Refused
  <2>2. IsCore(d) /\ d.observed = core.observed + 1 /\ \A x \in Fields \ {"observed"} : d[x] = core[x]
    BY <1>2 DEF IsCore, Fields
  <2> HIDE DEF d
  <2>3. d.observed \in Nat
    BY <1>2, <2>2
  <2>4. Timed(d)
    BY <1>2, <2>2, <2>3 DEF Timed, Fields
  <2>5. SameBuffer(core, d)
    BY <2>2 DEF SameBuffer, Fields
  <2>6. Sound(d, last.count)
    BY <1>1, <2>2, <2>4, <2>5, SameBufferSound
  <2> QED BY <2>1, <2>6, CallSound
<1>4. CASE Push
  <2>1. PICK s \in Streams :
          /\ Returns(Pushed(core, NextPacket(core.observed, s)), loose)
          /\ Sent(NextPacket(core.observed, s))
    BY <1>4 DEF Push
  <2> DEFINE p == NextPacket(core.observed, s)
  <2>2. p \in Packets /\ p.seq = last.count + 1
    <3>1. core.observed \in Int
      BY <1>2
    <3> QED BY <1>1, <3>1, NextPacketTyped
  <2>3. core' = Pushed(core, p).core /\ Sent(p)
    BY <2>1 DEF Returns
  <2> HIDE DEF p
  <2>4. Sound(Pushed(core, p).core, last.count + 1)
    BY <1>1, <2>2, PushedSound
  <2>5. LastOK' /\ last'.count = last.count + 1
    BY <1>1, <2>2, <2>3, SentTyped
  <2> QED BY <2>3, <2>4, <2>5 DEF SoundInv
<1>5. CASE PushStale
  <2>1. PICK s \in Streams :
          /\ Returns(PassLive(EnterError(core), NextPacket(core.observed - 1, s)), loose)
          /\ Sent(NextPacket(core.observed - 1, s))
    BY <1>5 DEF PushStale
  <2> DEFINE p == NextPacket(core.observed - 1, s)
  <2>2. p \in Packets /\ p.seq = last.count + 1
    <3>1. core.observed - 1 \in Int
      BY <1>2
    <3> QED BY <1>1, <3>1, NextPacketTyped
  <2>3. core' = PassLive(EnterError(core), p).core /\ Sent(p)
    BY <2>1 DEF Returns
  <2> HIDE DEF p
  <2>4. Sound(EnterError(core), last.count + 1)
    BY <1>2, ErrorSound
  <2>5. Sound(PassLive(EnterError(core), p).core, last.count + 1)
    BY <2>2, <2>4, PassLiveSound
  <2>6. LastOK' /\ last'.count = last.count + 1
    BY <1>1, <2>2, <2>3, SentTyped
  <2> QED BY <2>3, <2>5, <2>6 DEF SoundInv
<1>6. CASE Poll
  <2>1. core' = Polled(core).core /\ last' = last
    BY <1>6 DEF Poll, Returns
  <2>2. Sound(Polled(core).core, last.count)
    BY <1>1, PolledSound
  <2> QED BY <2>1, <2>2, CallSound
<1>7. CASE PruneNow
  <2>1. core' = Prune(core) /\ last' = last
    BY <1>7, AcceptedCall DEF PruneNow
  <2>2. Sound(Prune(core), last.count)
    BY <1>1, PruneSound
  <2> QED BY <2>1, <2>2, CallSound
<1>8. CASE ObserveExternalOutput
  <2> DEFINE p(s) == Packet(s, 0, 0, core.observed, 0, TRUE, core.observed)
             q(s) == [Shifted(p(s), NewOffset(core, p(s), 0)) EXCEPT !.seq = Cover]
  <2>1. PICK s \in Streams : core' = NoteOutput(core, q(s)) /\ last' = last
    BY <1>8 DEF ObserveExternalOutput
  <2>2. p(s) \in Packets
    BY <1>2 DEF Packet, Packets
  <2> HIDE DEF p
  <2>3. p(s).dts \in Int /\ p(s).pts \in Int
    BY <2>2 DEF Packets
  <2>4. NewOffset(core, p(s), 0) \in Int
    <3>1. 0 \in Int
      OBVIOUS
    <3> QED BY <1>2, <2>3, <3>1, NewOffsetFits
  <2>5. Shifted(p(s), NewOffset(core, p(s), 0)).dts \in Int
        /\ Shifted(p(s), NewOffset(core, p(s), 0)).pts \in Int
    BY <2>2, <2>4, ShiftedTyped
  <2>6. q(s).dts \in Int /\ q(s).pts \in Int
    <3>1. q(s).dts = Shifted(p(s), NewOffset(core, p(s), 0)).dts
          /\ q(s).pts = Shifted(p(s), NewOffset(core, p(s), 0)).pts
      BY <2>2 DEF Shifted, Packets
    <3> QED BY <2>5, <3>1
  <2> HIDE DEF q
  <2>7. Sound(NoteOutput(core, q(s)), last.count)
    BY <1>1, <1>2, <2>6, NoteOutputSame, SameBufferSound
  <2> QED BY <2>1, <2>7, CallSound
<1> QED BY <1>3, <1>4, <1>5, <1>6, <1>7, <1>8

\* The requests and commits.
LEMMA RequestsSound ==
  ASSUME SoundInv,
         \/ RequestActivate \/ BeginFilling \/ CommitDelayed
         \/ ChangePreparation \/ ChangeFilling \/ ChangeDelayed
         \/ CancelPreparedChange \/ CancelFillingOfChange \/ CancelActivation
         \/ RequestDeactivate \/ CommitReturn \/ FinishReturn
         \/ ReportError \/ Recover
  PROVE  SoundInv'
<1> DEFINE n == last.count
           moves(d) == /\ IsCore(d)
                       /\ \A x \in Unmoved \cup {"observed", "offsets", "lastDts", "maxPts", "emitted"} :
                            d[x] = core[x]
<1>1. LastOK /\ Sound(core, n) /\ n \in Nat
  BY DEF SoundInv, LastOK
<1>2. /\ IsCore(core) /\ Timed(core) /\ core.target \in Nat /\ core.pendingTarget \in Nat
      /\ core.previousTarget \in Nat
  BY <1>1 DEF Sound, Timed
<1>3. core.state \in {"Preparing", "Filling", "Delayed"} => core.committed = FALSE
  BY <1>1 DEF Sound, Held
<1>4. Delays \in SUBSET Nat
  BY PacketDelayAssumption
<1> HIDE DEF n
<1>5. SUFFICES \E d : core' = d /\ last' = last /\ Sound(d, n)
  BY CallSound DEF n
<1>6. CASE RequestActivate
  <2>1. PICK delay \in Delays :
          Begun([Retarget(ClearAll(core), delay) EXCEPT !.previousTarget = 0, !.state = "Preparing"])
    BY <1>6 DEF RequestActivate
  <2> DEFINE d == [Retarget(ClearAll(core), delay) EXCEPT !.previousTarget = 0, !.state = "Preparing"]
  <2>2. core' = d /\ last' = last
    BY <2>1, AcceptedCall
  <2>3. Sound(d, n)
    BY <1>2, <1>4, ActivateSound
  <2> QED BY <2>2, <2>3
<1>7. CASE BeginFilling
  <2> DEFINE c == [core EXCEPT !.target = core.pendingTarget, !.state = "Filling"]
             e == [c EXCEPT !.preparingChange = FALSE]
             f == [ClearQueues(c) EXCEPT !.fromDelayed = FALSE]
  <2>1. Accepted(IF core.preparingChange THEN e ELSE f) /\ core.state = "Preparing"
    BY <1>7 DEF BeginFilling
  <2>2. core' = (IF core.preparingChange THEN e ELSE f) /\ last' = last
    BY <2>1, AcceptedCall
  <2>3. /\ IsCore(c) /\ c.target = core.pendingTarget /\ c.state = "Filling"
        /\ \A x \in Fields \ {"target", "state"} : c[x] = core[x]
    BY <1>2 DEF IsCore, Fields
  <2> HIDE DEF c
  <2>4. Sound(e, n)
    <3>1. IsCore(e) /\ \A x \in Fields \ {"preparingChange"} : e[x] = c[x]
      BY <2>3 DEF IsCore, Fields
    <3> HIDE DEF e
    <3>2. moves(e)
      BY <2>3, <3>1 DEF Fields, Unmoved
    <3>3. /\ e.state \in States \ {"Returning"} /\ e.target \in Nat /\ e.pendingTarget \in Nat
          /\ e.previousTarget \in Nat
      BY <1>2, <2>3, <3>1 DEF Fields, States
    <3> QED BY <1>1, <1>3, <2>1, <3>2, <3>3, RequestSound
  <2>5. Sound(f, n)
    <3> DEFINE g == ClearQueues(c)
    <3>1. /\ IsCore(g) /\ g.queues = NoQueues /\ g.pending = <<>> /\ g.buffered = 0
          /\ \A x \in Fields \ {"queues", "pending", "buffered", "active", "latest", "seen"} :
               g[x] = c[x]
      BY <2>3, ClearedFields
    <3> HIDE DEF g
    <3>2. f = [g EXCEPT !.fromDelayed = FALSE]
      BY DEF g
    <3> HIDE DEF f
    <3>3. IsCore(f) /\ \A x \in Fields \ {"fromDelayed"} : f[x] = g[x]
      BY <3>1, <3>2 DEF IsCore, Fields
    <3>4. Timed(f)
      BY <1>2, <2>3, <3>1, <3>3 DEF Timed, Fields
    <3>5. /\ f.queues = NoQueues /\ f.pending = <<>> /\ f.buffered = 0
          /\ f.committed = FALSE /\ f.state \in States \ {"Returning"}
      BY <1>3, <2>1, <2>3, <3>1, <3>3 DEF Fields, States
    <3> QED BY <3>3, <3>4, <3>5, EmptySound
  <2> QED BY <2>2, <2>4, <2>5
<1>8. CASE CommitDelayed
  <2>1. core' = ApplyCut(core) /\ last' = last /\ core.state = "Filling" /\ CutReady(core)
    BY <1>8, AcceptedCall DEF CommitDelayed, Committed
  <2>2. Sound(ApplyCut(core), n)
    BY <1>1, <2>1, ApplyCutSound
  <2> QED BY <2>1, <2>2
<1>9. CASE ChangePreparation
  <2>1. PICK delay \in Delays :
          Begun([core EXCEPT !.pendingTarget = delay,
                             !.target = IF core.preparingChange THEN @ ELSE delay])
    BY <1>9 DEF ChangePreparation
  <2> DEFINE target == IF core.preparingChange THEN core.target ELSE delay
             d == [core EXCEPT !.pendingTarget = delay, !.target = target]
  <2>2. core' = d /\ last' = last
    BY <2>1, AcceptedCall
  <2>3. delay \in Nat /\ target \in Nat /\ core.state = "Preparing"
    BY <1>2, <1>4, <1>9 DEF ChangePreparation
  <2> HIDE DEF target
  <2>4. /\ IsCore(d) /\ d.pendingTarget = delay /\ d.target = target
        /\ \A x \in Fields \ {"target", "pendingTarget"} : d[x] = core[x]
    BY <1>2 DEF IsCore, Fields
  <2> HIDE DEF d
  <2>5. moves(d) /\ d.state \in States \ {"Returning"} /\ d.previousTarget \in Nat
    BY <1>2, <2>3, <2>4 DEF Fields, Unmoved, States
  <2>6. Sound(d, n)
    BY <1>1, <1>3, <2>3, <2>4, <2>5, RequestSound
  <2> QED BY <2>2, <2>6
<1>10. CASE ChangeFilling
  <2>1. PICK delay \in Delays :
          Begun([Retarget(core, delay) EXCEPT
                   !.previousTarget = IF core.fromDelayed THEN @ ELSE core.target])
    BY <1>10 DEF ChangeFilling
  <2> DEFINE previous == IF core.fromDelayed THEN core.previousTarget ELSE core.target
             e == Retarget(core, delay)
             d == [e EXCEPT !.previousTarget = previous]
  <2>2. /\ IsCore(e) /\ e.pendingTarget = delay /\ e.target = delay
        /\ \A x \in Fields \ {"target", "pendingTarget"} : e[x] = core[x]
    BY <1>2 DEF IsCore, Fields, Retarget
  <2>3. d = [Retarget(core, delay) EXCEPT
               !.previousTarget = IF core.fromDelayed THEN @ ELSE core.target]
    BY <2>2 DEF Fields
  <2>4. core' = d /\ last' = last
    BY <2>1, <2>3, AcceptedCall
  <2> HIDE DEF e
  <2>5. delay \in Nat /\ previous \in Nat /\ core.state = "Filling"
    BY <1>2, <1>4, <1>10 DEF ChangeFilling
  <2> HIDE DEF previous
  <2>6. /\ IsCore(d) /\ d.previousTarget = previous
        /\ \A x \in Fields \ {"previousTarget"} : d[x] = e[x]
    BY <2>2 DEF IsCore, Fields
  <2> HIDE DEF d
  <2>7. moves(d) /\ d.state \in States \ {"Returning"} /\ d.target = delay /\ d.pendingTarget = delay
    BY <2>2, <2>5, <2>6 DEF Fields, Unmoved, States
  <2>8. Sound(d, n)
    BY <1>1, <1>3, <2>5, <2>6, <2>7, RequestSound
  <2> QED BY <2>4, <2>8
<1>11. CASE ChangeDelayed
  <2>1. PICK delay \in Delays :
          Begun([core EXCEPT !.previousTarget = core.target, !.pendingTarget = delay,
                             !.preparingChange = TRUE, !.fromDelayed = TRUE,
                             !.state = "Preparing"])
    BY <1>11 DEF ChangeDelayed
  <2> DEFINE d == [core EXCEPT !.previousTarget = core.target, !.pendingTarget = delay,
                               !.preparingChange = TRUE, !.fromDelayed = TRUE,
                               !.state = "Preparing"]
  <2>2. core' = d /\ last' = last
    BY <2>1, AcceptedCall
  <2>3. delay \in Nat /\ core.state = "Delayed"
    BY <1>4, <1>11 DEF ChangeDelayed
  <2>4. /\ IsCore(d) /\ d.previousTarget = core.target /\ d.pendingTarget = delay
        /\ d.state = "Preparing"
        /\ \A x \in Fields \ {"previousTarget", "pendingTarget", "preparingChange",
                              "fromDelayed", "state"} : d[x] = core[x]
    BY <1>2 DEF IsCore, Fields
  <2> HIDE DEF d
  <2>5. /\ moves(d) /\ d.state \in States \ {"Returning"} /\ d.previousTarget \in Nat
        /\ d.target \in Nat
    BY <1>2, <2>4 DEF Fields, Unmoved, States
  <2>6. Sound(d, n)
    BY <1>1, <1>3, <2>3, <2>4, <2>5, RequestSound
  <2> QED BY <2>2, <2>6
<1>12. CASE CancelPreparedChange
  <2> DEFINE e == [core EXCEPT !.pendingTarget = core.target]
  <2>1. Begun(Uncommitted(e)) /\ core.state = "Preparing"
    BY <1>12 DEF CancelPreparedChange
  <2>2. core' = Uncommitted(e) /\ last' = last
    BY <2>1, AcceptedCall
  <2>3. /\ IsCore(e) /\ e.pendingTarget = core.target
        /\ \A x \in Fields \ {"pendingTarget"} : e[x] = core[x]
    BY <1>2 DEF IsCore, Fields
  <2> HIDE DEF e
  <2>4. Timed(e)
    BY <1>2, <2>3 DEF Timed, Fields
  <2>5. /\ e.queues = core.queues /\ e.pending = core.pending /\ e.buffered = core.buffered
        /\ e.committed = FALSE
    BY <1>3, <2>1, <2>3 DEF Fields
  <2>6. Sound(Uncommitted(e), n)
    BY <1>1, <1>3, <2>1, <2>3, <2>4, <2>5, UncommittedSound
  <2> QED BY <2>2, <2>6
<1>13. CASE CancelFillingOfChange
  <2> DEFINE e == Retarget(core, core.previousTarget)
  <2>1. Returns(Quiet(Uncommitted(e)), Resumed) /\ core.state = "Filling" /\ last' = last
    BY <1>13 DEF CancelFillingOfChange
  <2>2. core' = Uncommitted(e)
    BY <2>1, AcceptedCall
  <2>3. /\ IsCore(e) /\ e.target = core.previousTarget /\ e.pendingTarget = core.previousTarget
        /\ \A x \in Fields \ {"target", "pendingTarget"} : e[x] = core[x]
    BY <1>2 DEF IsCore, Fields, Retarget
  <2> HIDE DEF e
  <2>4. Timed(e)
    BY <1>2, <2>3 DEF Timed, Fields
  <2>5. /\ e.queues = core.queues /\ e.pending = core.pending /\ e.buffered = core.buffered
        /\ e.committed = FALSE
    BY <1>3, <2>1, <2>3 DEF Fields
  <2>6. Sound(Uncommitted(e), n)
    BY <1>1, <1>3, <2>1, <2>3, <2>4, <2>5, UncommittedSound
  <2> QED BY <2>1, <2>2, <2>6
<1>14. CASE CancelActivation
  <2>1. core' = StartReturn(core, FALSE) /\ last' = last /\ core.state \in {"Preparing", "Filling"}
    BY <1>14, AcceptedCall DEF CancelActivation
  <2>2. Sound(StartReturn(core, FALSE), n)
    BY <1>1, <1>3, <2>1, StartReturnSound
  <2> QED BY <2>1, <2>2
<1>15. CASE RequestDeactivate
  <2> DEFINE delayed == core.state = "Delayed" \/ core.preparingChange \/ core.fromDelayed
  <2>1. /\ core' = StartReturn(core, delayed) /\ last' = last
        /\ core.state \in {"Preparing", "Filling", "Delayed"}
    BY <1>15, AcceptedCall DEF RequestDeactivate
  <2> HIDE DEF delayed
  <2>2. Sound(StartReturn(core, delayed), n)
    BY <1>1, <1>3, <2>1, StartReturnSound
  <2> QED BY <2>1, <2>2
<1>16. CASE CommitReturn
  <2> DEFINE d == [BuildPending(core) EXCEPT !.committed = TRUE, !.returnFromDelayed = FALSE]
  <2>1. core' = d /\ last' = last /\ core.state = "Returning"
    BY <1>16, AcceptedCall DEF CommitReturn, Committed
  <2>2. Sound(d, n)
    BY <1>1, <2>1, CommitSound
  <2> QED BY <2>1, <2>2
<1>17. CASE FinishReturn \/ Recover
  <2>1. core' = Idle(core) /\ last' = last
    BY <1>17, AcceptedCall DEF FinishReturn, Recover
  <2>2. Sound(Idle(core), n)
    BY <1>2, IdleSound
  <2> QED BY <2>1, <2>2
<1>18. CASE ReportError
  <2>1. core' = EnterError(core) /\ last' = last
    BY <1>18, AcceptedCall DEF ReportError
  <2>2. Sound(EnterError(core), n)
    BY <1>2, ErrorSound
  <2> QED BY <2>1, <2>2
<1> QED BY <1>6, <1>7, <1>8, <1>9, <1>10, <1>11, <1>12, <1>13, <1>14, <1>15, <1>16, <1>17, <1>18

\* Nothing is buffered at first.
LEMMA SoundInit == Init => SoundInv
<1> SUFFICES ASSUME Init PROVE SoundInv
  OBVIOUS
<1>1. /\ IsCore(core) /\ core.queues = NoQueues /\ core.pending = <<>> /\ core.buffered = 0
      /\ core.committed = FALSE /\ core.state = "Bypass"
      /\ core.target = 0 /\ core.pendingTarget = 0 /\ core.previousTarget = 0
      /\ core.observed = 0 /\ core.offsets = <<>> /\ core.lastDts = <<>> /\ core.maxPts = <<>>
      /\ core.emitted = {}
  BY DEF Init, NewCore, NoQueues, IsCore, Fields
<1>2. IntValued(<<>>)
  BY DEF IntValued
<1>3. Timed(core)
  BY <1>1, <1>2 DEF Timed
<1>4. LastOK
  <2>1. PICK encoder \in Encoders :
          last = [encoder |-> encoder, count |-> 0,
                  on |-> [s \in Streams |-> [seq |-> 0, dts |-> 0, frames |-> 0]]]
    BY DEF Init
  <2> QED BY <2>1 DEF LastOK
<1>5. Sound(core, last.count)
  BY <1>1, <1>3, EmptySound DEF States
<1> QED BY <1>4, <1>5 DEF SoundInv

\* Every step keeps the object sound.
LEMMA SoundStep == SoundInv /\ [Next]_vars => SoundInv'
<1> SUFFICES ASSUME SoundInv, [Next]_vars PROVE SoundInv'
  OBVIOUS
<1>1. CASE Refused \/ Push \/ PushStale \/ Poll \/ PruneNow \/ ObserveExternalOutput
  BY <1>1, TrafficSound
<1>2. CASE \/ RequestActivate \/ BeginFilling \/ CommitDelayed
           \/ ChangePreparation \/ ChangeFilling \/ ChangeDelayed
           \/ CancelPreparedChange \/ CancelFillingOfChange \/ CancelActivation
           \/ RequestDeactivate \/ CommitReturn \/ FinishReturn
           \/ ReportError \/ Recover
  BY <1>2, RequestsSound
<1>3. CASE UNCHANGED vars
  <2>1. core' = core /\ last' = last
    BY <1>3 DEF vars
  <2>2. Sound(core, last.count)
    BY DEF SoundInv
  <2> QED BY <2>1, <2>2, CallSound
<1> QED BY <1>1, <1>2, <1>3 DEF Next

\* What the runs check follows from the invariant.
LEMMA SoundImplies == SoundInv => BufferSound
<1> SUFFICES ASSUME SoundInv PROVE BufferSound
  OBVIOUS
<1>1. Held(core) /\ Kept(core, last.count) /\ Numbered(core.queues, last.count)
  BY DEF SoundInv, Sound
<1>2. TypeOK
  BY <1>1 DEF TypeOK, Held, Total, Lengths, States
<1>3. CutsBuffered
  <2>1. ASSUME core.state = "Returning", ~core.committed, NEW s \in DOMAIN core.returnKeys
        PROVE  \E p \in ToSet(core.queues[s]) : p.seq = core.returnKeys[s] /\ p.key
    <3>1. PICK i \in DOMAIN core.queues[s] :
            core.queues[s][i].seq = core.returnKeys[s] /\ core.queues[s][i].key
      BY <1>1, <2>1 DEF Kept, Chosen
    <3>2. core.queues[s][i] \in ToSet(core.queues[s])
      BY DEF ToSet
    <3> QED BY <3>1, <3>2
  <2> QED BY <2>1 DEF CutsBuffered
<1> QED BY <1>2, <1>3 DEF BufferSound

\* In every state the memory limit counts exactly what the object holds, the count is
\* within the limit, and while the object returns, the keyframe that was chosen for a
\* lane by observe_return_keyframe_locked is still in its queue: prune_locked and
\* drain_ready_locked never take it.
THEOREM BufferIsSound == Spec => []BufferSound
<1>1. Init => SoundInv
  BY SoundInit
<1>2. SoundInv /\ [Next]_vars => SoundInv'
  BY SoundStep
<1>3. SoundInv => BufferSound
  BY SoundImplies
<1> QED BY <1>1, <1>2, <1>3, PTL DEF Spec

----------------------------------------------------------------------------
(* The order of what is emitted.                                           *)

\* What a stream has sent: whether anything, its last DTS, and a bound on its PTS so far.
Bound == [sent : BOOLEAN, dts : Int, pts : Int]

\* The frame after a keyframe is presented late, and a keyframe never follows it.
Ahead(l, s) ==
  IF ~IsVideo(s) THEN 0
  ELSE IF (l.on[s].frames - 1) % l.encoder.gop = 1 /\ l.encoder.gop > 2 THEN 2 ELSE 1

Top(l) ==
  [s \in Streams |-> [sent |-> l.on[s].seq # 0, dts |-> l.on[s].dts,
                      pts |-> l.on[s].dts + Ahead(l, s)]]

\* Packet p comes before packet q of its stream; q, if a keyframe, is presented after it.
Precedes(p, q) == p.dts < q.dts /\ (q.key => p.pts < q.pts)

\* A queue is in order, and the stream has sent what is in it.
Rising(q, b) ==
  /\ \A i, j \in DOMAIN q : i < j => Precedes(q[i], q[j])
  /\ \A i \in DOMAIN q : b.sent /\ q[i].dts <= b.dts /\ q[i].pts <= b.pts

\* Of what waits to be handed out, each stream is in order, and has sent it.
PendingRising(q, top) ==
  /\ \A i, j \in DOMAIN q : i < j /\ q[i].stream = q[j].stream => Precedes(q[i], q[j])
  /\ \A i \in DOMAIN q : LET b == top[q[i].stream]
                         IN  b.sent /\ q[i].dts <= b.dts /\ q[i].pts <= b.pts

\* No timeline has two of these streams.
OneEach(S) == \A s, t \in S : Timeline(s) = Timeline(t) => s = t

\* Whether packets pass as they come, so that no lane has a queue.
Passing(c) ==
  c.state \in {"Bypass", "Error"} \/ (c.state = "Preparing" /\ ~c.preparingChange) \/ c.committed

\* What belongs to a change does not outlive it.
Flags(c) ==
  /\ c.preparingChange => c.state = "Preparing"
  /\ c.fromDelayed => c.state = "Filling" \/ c.preparingChange

\* The buffer, in whatever state.
Arranged(c, top) ==
  /\ \A s \in Streams : Rising(c.queues[s], top[s])
  /\ PendingRising(c.pending, top)
  /\ OneEach(Queued(c)) /\ OneEach(DOMAIN c.offsets)
  /\ \A s \in DOMAIN c.offsets : s \in Streams /\ top[s].sent
  /\ Passing(c) => Queued(c) = {}
  /\ Flags(c)

\* Packet p of stream s, with the offset of s, comes after all that its lane has emitted.
InFront(c, s, p) ==
  /\ Timeline(s) \in DOMAIN c.lastDts => c.lastDts[Timeline(s)] < p.dts + c.offsets[s]
  /\ p.key /\ Timeline(s) \in DOMAIN c.maxPts => c.maxPts[Timeline(s)] < p.pts + c.offsets[s]

\* What a lane has emitted is not after what its stream has sent.
Follows(c, s, b) ==
  /\ Timeline(s) \in DOMAIN c.lastDts => c.lastDts[Timeline(s)] <= b.dts + c.offsets[s]
  /\ Timeline(s) \in DOMAIN c.maxPts => c.maxPts[Timeline(s)] <= b.pts + c.offsets[s]

\* The offsets put all that is buffered, and all that is still to come, behind what was
\* emitted; of what is queued to be drained no lane is without one.
InEpoch(c, top) ==
  /\ \A s \in DOMAIN c.offsets :
       /\ Follows(c, s, top[s])
       /\ \A i \in DOMAIN c.queues[s] : InFront(c, s, c.queues[s][i])
  /\ \A i \in DOMAIN c.pending :
       c.pending[i].stream \in DOMAIN c.offsets => InFront(c, c.pending[i].stream, c.pending[i])
  /\ c.state # "Filling" => Queued(c) \subseteq DOMAIN c.offsets

\* Whether the lanes go on in the epoch of the offsets.
Flowing(c) ==
  \/ c.state \in {"Bypass", "Preparing", "Delayed"}
  \/ c.state = "Returning" /\ (c.returnFromDelayed \/ c.committed)
  \/ c.state = "Filling" /\ c.fromDelayed /\ Covered = {}

\* The horizons of the output: nothing that was shown, or is among these packets, is after
\* them.
Horizons(c, packets) ==
  /\ \A t \in Timelines : \A d \in shown[t].dts : t \in DOMAIN c.lastDts /\ d <= c.lastDts[t]
  /\ \A t \in Timelines : \A d \in shown[t].pts : t \in DOMAIN c.maxPts /\ d <= c.maxPts[t]
  /\ \A j \in DOMAIN packets :
       LET t == Timeline(packets[j].stream)
       IN  /\ t \in DOMAIN c.lastDts /\ packets[j].dts <= c.lastDts[t]
           /\ t \in DOMAIN c.maxPts /\ packets[j].pts <= c.maxPts[t]
  /\ \A t \in DOMAIN c.lastDts : \E e \in c.emitted : c.lastDts[t] <= e

\* These packets, emitted one after the other, go on from what was shown.
Ordered(packets) ==
  \A i \in DOMAIN packets :
    /\ \A t \in Timelines : \A d \in shown[t].dts : d <= packets[i].dts
    /\ \A j \in DOMAIN packets : j < i => packets[j].dts <= packets[i].dts

\* And so does every lane for itself.
LaneOrdered(packets) ==
  \A i \in DOMAIN packets :
    LET p == packets[i]
        t == Timeline(p.stream)
    IN  /\ \A d \in shown[t].dts : d < p.dts
        /\ p.key => \A d \in shown[t].pts : d < p.pts
        /\ \A j \in DOMAIN packets :
             j < i /\ Timeline(packets[j].stream) = t => Precedes(packets[j], p)

\* What is shown is numbers, at most one PTS for a lane.
ShownOK ==
  /\ shown \in [Timelines -> [seq : Int, dts : SUBSET Int, pts : SUBSET Int]]
  /\ \A t \in Timelines : \E n \in Int : shown[t].pts \subseteq {n}

OrderInv ==
  /\ SoundInv
  /\ ShownOK
  /\ Arranged(core, Top(last))
  /\ Horizons(core, <<>>)
  /\ core.state = "Error" => loose.epoch
  /\ Flowing(core) /\ ~loose.epoch => InEpoch(core, Top(last))

\* What the fields that are read hold.
Shaped(c) ==
  /\ IsCore(c) /\ Timed(c)
  /\ c.queues \in [Streams -> Seq(Packets)] /\ c.pending \in Seq(Packets)
  /\ \A s \in Streams : \A i \in DOMAIN c.queues[s] : c.queues[s][i].stream = s
  /\ c.state \in States /\ c.committed \in BOOLEAN

\* A sound object is one.
LEMMA SoundShaped ==
  ASSUME NEW c, NEW n, Sound(c, n)
  PROVE  Shaped(c)
BY DEF Sound, Held, Numbered, Shaped

\* A queue of such an object.
LEMMA ShapedQueue ==
  ASSUME NEW c, Shaped(c), NEW s \in Streams
  PROVE  /\ c.queues[s] \in Seq(Packets) /\ Len(c.queues[s]) \in Nat
         /\ DOMAIN c.queues[s] = 1..Len(c.queues[s])
         /\ \A i \in DOMAIN c.queues[s] :
              c.queues[s][i] \in Packets /\ c.queues[s][i].stream = s
<1>1. c.queues[s] \in Seq(Packets)
  BY DEF Shaped
<1>2. Len(c.queues[s]) \in Nat /\ DOMAIN c.queues[s] = 1..Len(c.queues[s])
  BY <1>1, LenProperties
<1>3. \A i \in DOMAIN c.queues[s] : c.queues[s][i] \in Packets
  BY <1>1, <1>2, ElementOfSeq
<1> QED BY <1>1, <1>2, <1>3 DEF Shaped

\* A sequence that is a section of another.
PartOf(r, q) ==
  /\ q = <<>> => r = <<>>
  /\ \E k \in Nat : \A i \in DOMAIN r : i + k \in DOMAIN q /\ r[i] = q[i + k]

\* The whole, nothing, and the end of a sequence are sections of it.
LEMMA Sections ==
  ASSUME NEW q \in Seq(Packets)
  PROVE  /\ PartOf(q, q) /\ PartOf(<<>>, q)
         /\ \A k \in 1..(Len(q) + 1) : PartOf(SubSeq(q, k, Len(q)), q)
         /\ q # <<>> => PartOf(Tail(q), q)
<1>1. Len(q) \in Nat /\ DOMAIN q = 1..Len(q)
  BY LenProperties
<1>2. PartOf(q, q)
  <2>1. \A i \in DOMAIN q : i + 0 \in DOMAIN q /\ q[i] = q[i + 0]
    BY <1>1
  <2> QED BY <2>1 DEF PartOf
<1>3. PartOf(<<>>, q)
  <2>1. \A i \in DOMAIN <<>> : i + 0 \in DOMAIN q /\ <<>>[i] = q[i + 0]
    OBVIOUS
  <2> QED BY <2>1 DEF PartOf
<1>4. ASSUME NEW k \in 1..(Len(q) + 1) PROVE PartOf(SubSeq(q, k, Len(q)), q)
  <2> DEFINE r == SubSeq(q, k, Len(q))
  <2>1. /\ r \in Seq(Packets) /\ Len(r) = Len(q) + 1 - k /\ DOMAIN r = 1..Len(r)
        /\ \A i \in DOMAIN r : k + i - 1 \in DOMAIN q /\ r[i] = q[k + i - 1]
    BY SuffixOf
  <2> HIDE DEF r
  <2>2. k - 1 \in Nat /\ k \in Int
    BY <1>1
  <2>3. ASSUME NEW i \in DOMAIN r PROVE i + (k - 1) \in DOMAIN q /\ r[i] = q[i + (k - 1)]
    <3>1. i \in Int
      BY <2>1
    <3>2. k + i - 1 = i + (k - 1)
      BY <2>2, <3>1
    <3> QED BY <2>1, <3>2
  <2>4. q = <<>> => r = <<>>
    <3> SUFFICES ASSUME q = <<>> PROVE r = <<>>
      OBVIOUS
    <3>1. Len(q) = 0
      BY EmptySeq
    <3>2. k = 1
      BY <3>1
    <3>3. Len(r) = 0
      BY <2>1, <3>1, <3>2
    <3> QED BY <2>1, <3>3, EmptySeq
  <2>5. PartOf(r, q)
    BY <2>2, <2>3, <2>4 DEF PartOf
  <2> QED BY <2>5 DEF r
<1>5. ASSUME q # <<>> PROVE PartOf(Tail(q), q)
  <2>1. Len(q) # 0
    BY <1>5, EmptySeq
  <2>2. 2 \in 1..(Len(q) + 1)
    BY <1>1, <2>1
  <2>3. Tail(q) = SubSeq(q, 2, Len(q))
    BY <1>1, <1>5, TailIsSubSeq
  <2> QED BY <1>4, <2>2, <2>3
<1> QED BY <1>2, <1>3, <1>4, <1>5

\* A section of what is in order is in order.
LEMMA SectionRising ==
  ASSUME NEW q \in Seq(Packets), NEW r \in Seq(Packets), PartOf(r, q)
  PROVE  /\ \A b : Rising(q, b) => Rising(r, b)
         /\ \A top : PendingRising(q, top) => PendingRising(r, top)
         /\ \A i \in DOMAIN r : \E j \in DOMAIN q : r[i] = q[j]
<1>1. PICK k \in Nat : \A i \in DOMAIN r : i + k \in DOMAIN q /\ r[i] = q[i + k]
  BY DEF PartOf
<1>2. DOMAIN r \in SUBSET Int
  BY LenProperties
<1>3. \A i, j \in DOMAIN r : i < j => i + k < j + k
  BY <1>2
<1>4. ASSUME NEW b, Rising(q, b) PROVE Rising(r, b)
  <2>1. \A i, j \in DOMAIN r : i < j => Precedes(r[i], r[j])
    BY <1>1, <1>3, <1>4 DEF Rising
  <2>2. \A i \in DOMAIN r : b.sent /\ r[i].dts <= b.dts /\ r[i].pts <= b.pts
    BY <1>1, <1>4 DEF Rising
  <2> QED BY <2>1, <2>2 DEF Rising
<1>5. \A top : PendingRising(q, top) => PendingRising(r, top)
  BY <1>1, <1>3 DEF PendingRising
<1> QED BY <1>1, <1>4, <1>5

\* The output is where it was, and of what is buffered and of the offsets there is no more.
Less(c, d) ==
  /\ \A s \in Streams : PartOf(d.queues[s], c.queues[s])
  /\ PartOf(d.pending, c.pending)
  /\ \A s \in DOMAIN d.offsets : s \in DOMAIN c.offsets /\ d.offsets[s] = c.offsets[s]
  /\ d.lastDts = c.lastDts /\ d.maxPts = c.maxPts /\ d.emitted = c.emitted

\* The same buffer, offsets and output.
Alike(c, d) ==
  /\ d.queues = c.queues /\ d.pending = c.pending /\ d.offsets = c.offsets
  /\ d.lastDts = c.lastDts /\ d.maxPts = c.maxPts /\ d.emitted = c.emitted

\* That is no more.
LEMMA AlikeLess ==
  ASSUME NEW c, Shaped(c), NEW d, Alike(c, d)
  PROVE  Less(c, d)
<1>1. \A s \in Streams : PartOf(c.queues[s], c.queues[s])
  BY Sections DEF Shaped
<1>2. PartOf(c.pending, c.pending)
  BY Sections DEF Shaped
<1> QED BY <1>1, <1>2 DEF Less, Alike

\* With less, the order stays.
LEMMA LessOrdered ==
  ASSUME NEW c, Shaped(c), NEW d, Shaped(d), Less(c, d), NEW top
  PROVE  /\ Queued(d) \subseteq Queued(c)
         /\ Arranged(c, top) /\ (Passing(d) => Queued(d) = {}) /\ Flags(d) => Arranged(d, top)
         /\ InEpoch(c, top) /\ (d.state # "Filling" => Queued(d) \subseteq DOMAIN d.offsets)
            /\ DOMAIN c.offsets \subseteq Streams
            => InEpoch(d, top)
         /\ \A packets : Horizons(c, packets) => Horizons(d, packets)
<1>1. ASSUME NEW s \in Streams
      PROVE  c.queues[s] \in Seq(Packets) /\ d.queues[s] \in Seq(Packets)
             /\ PartOf(d.queues[s], c.queues[s])
  BY DEF Shaped, Less
<1>2. Queued(d) \subseteq Queued(c)
  BY <1>1 DEF Queued, PartOf
<1>3. c.pending \in Seq(Packets) /\ d.pending \in Seq(Packets) /\ PartOf(d.pending, c.pending)
  BY DEF Shaped, Less
<1>4. ASSUME Arranged(c, top), Passing(d) => Queued(d) = {}, Flags(d)
      PROVE  Arranged(d, top)
  <2>1. \A s \in Streams : Rising(d.queues[s], top[s])
    BY <1>1, <1>4, SectionRising DEF Arranged
  <2>2. PendingRising(d.pending, top)
    BY <1>3, <1>4, SectionRising DEF Arranged
  <2>3. OneEach(Queued(d)) /\ OneEach(DOMAIN d.offsets)
    BY <1>2, <1>4 DEF Arranged, OneEach, Less
  <2>4. \A s \in DOMAIN d.offsets : s \in Streams /\ top[s].sent
    BY <1>4 DEF Arranged, Less
  <2> QED BY <1>4, <2>1, <2>2, <2>3, <2>4 DEF Arranged
<1>5. ASSUME InEpoch(c, top), d.state # "Filling" => Queued(d) \subseteq DOMAIN d.offsets,
             DOMAIN c.offsets \subseteq Streams
      PROVE  InEpoch(d, top)
  <2>1. \A s \in DOMAIN d.offsets : s \in DOMAIN c.offsets /\ s \in Streams
    BY <1>5 DEF Less
  <2>2. \A s \in DOMAIN d.offsets : \A p : InFront(c, s, p) => InFront(d, s, p)
    BY DEF Less, InFront
  <2>3. \A s \in DOMAIN d.offsets : Follows(d, s, top[s])
    BY <1>5, <2>1 DEF InEpoch, Less, Follows
  <2>4. ASSUME NEW s \in DOMAIN d.offsets, NEW i \in DOMAIN d.queues[s]
        PROVE  InFront(d, s, d.queues[s][i])
    <3>1. PICK j \in DOMAIN c.queues[s] : d.queues[s][i] = c.queues[s][j]
      BY <1>1, <2>1, <2>4, SectionRising
    <3>2. InFront(c, s, c.queues[s][j])
      BY <1>5, <2>1 DEF InEpoch
    <3> QED BY <2>2, <3>1, <3>2
  <2>5. ASSUME NEW i \in DOMAIN d.pending, d.pending[i].stream \in DOMAIN d.offsets
        PROVE  InFront(d, d.pending[i].stream, d.pending[i])
    <3>1. PICK j \in DOMAIN c.pending : d.pending[i] = c.pending[j]
      BY <1>3, <2>5, SectionRising
    <3>2. InFront(c, c.pending[j].stream, c.pending[j])
      BY <1>5, <2>1, <2>5, <3>1 DEF InEpoch
    <3> QED BY <2>2, <2>5, <3>1, <3>2
  <2> QED BY <1>5, <2>3, <2>4, <2>5 DEF InEpoch
<1>6. \A packets : Horizons(c, packets) => Horizons(d, packets)
  BY DEF Horizons, Less
<1> QED BY <1>2, <1>4, <1>5, <1>6

\* The object is in the control state that it was in.
Stays(c, d) ==
  /\ d.state = c.state /\ d.committed = c.committed /\ d.preparingChange = c.preparingChange
  /\ d.fromDelayed = c.fromDelayed /\ d.returnFromDelayed = c.returnFromDelayed

\* What depends on it alone.
LEMMA StaysControl ==
  ASSUME NEW c, NEW d, Stays(c, d)
  PROVE  /\ Passing(d) = Passing(c) /\ Flags(d) = Flags(c) /\ Flowing(d) = Flowing(c)
         /\ EpochActive(d) = EpochActive(c)
BY DEF Stays, Passing, Flags, Flowing, EpochActive

\* What clearing leaves of the flags and of the output.
LEMMA ClearedControl ==
  ASSUME NEW c, Shaped(c)
  PROVE  /\ Shaped(ClearAll(c)) /\ Less(c, ClearAll(c)) /\ Queued(ClearAll(c)) = {}
         /\ ClearAll(c).state = c.state /\ ClearAll(c).committed = FALSE
         /\ ClearAll(c).preparingChange = FALSE /\ ClearAll(c).fromDelayed = FALSE
         /\ ClearAll(c).returnFromDelayed = FALSE
         /\ ClearAll(c).offsets = c.offsets /\ ClearAll(c).pending = <<>>
<1> DEFINE d == ClearAll(c)
<1>1. IsCore(c) /\ Timed(c)
  BY DEF Shaped
<1>2. /\ IsCore(d) /\ d.queues = NoQueues /\ d.pending = <<>> /\ d.committed = FALSE
      /\ \A x \in {"state", "target", "pendingTarget", "previousTarget", "observed", "offsets",
                   "lastDts", "maxPts", "emitted"} : d[x] = c[x]
  BY <1>1, ClearedFields
<1>3. /\ d.preparingChange = FALSE /\ d.fromDelayed = FALSE /\ d.returnFromDelayed = FALSE
  BY <1>1 DEF ClearAll, ClearQueues, IsCore, Fields
<1> HIDE DEF d
<1>4. Timed(d)
  BY <1>1, <1>2 DEF Timed
<1>5. NoQueues \in [Streams -> Seq(Packets)] /\ \A s \in Streams : NoQueues[s] = <<>>
  BY EmptyQueues DEF NoQueues
<1>6. d.state \in States /\ d.committed \in BOOLEAN
  BY <1>2 DEF Shaped
<1>7. <<>> \in Seq(Packets) /\ DOMAIN <<>> = {}
  BY EmptySeq
<1>8. Shaped(d)
  BY <1>2, <1>4, <1>5, <1>6, <1>7 DEF Shaped
<1>9. Less(c, d)
  <2>1. \A s \in Streams : PartOf(d.queues[s], c.queues[s])
    BY <1>2, <1>5, Sections DEF Shaped
  <2>2. PartOf(d.pending, c.pending)
    BY <1>2, Sections DEF Shaped
  <2> QED BY <1>2, <2>1, <2>2 DEF Less
<1>10. Queued(d) = {}
  BY <1>2, <1>5 DEF Queued
<1> QED BY <1>2, <1>3, <1>8, <1>9, <1>10 DEF d

\* An error clears the buffer and leaves the output where it is.
LEMMA ErrorOrdered ==
  ASSUME NEW c, Shaped(c), NEW top, Arranged(c, top)
  PROVE  /\ Shaped(EnterError(c)) /\ Arranged(EnterError(c), top)
         /\ EnterError(c).state = "Error" /\ EnterError(c).pending = <<>>
         /\ \A packets : Horizons(c, packets) => Horizons(EnterError(c), packets)
<1> DEFINE e == ClearAll(c)
           d == EnterError(c)
<1>1. /\ Shaped(e) /\ Less(c, e) /\ Queued(e) = {} /\ e.committed = FALSE
      /\ e.preparingChange = FALSE /\ e.fromDelayed = FALSE /\ e.pending = <<>>
  BY ClearedControl
<1> HIDE DEF e
<1>2. d = [e EXCEPT !.state = "Error"]
  BY DEF EnterError, e
<1>3. IsCore(e)
  BY <1>1 DEF Shaped
<1>4. IsCore(d) /\ d.state = "Error" /\ \A x \in Fields \ {"state"} : d[x] = e[x]
  BY <1>2, <1>3 DEF IsCore, Fields
<1> HIDE DEF d
<1>5. /\ d.queues = e.queues /\ d.pending = e.pending /\ d.offsets = e.offsets
      /\ d.lastDts = e.lastDts /\ d.maxPts = e.maxPts /\ d.emitted = e.emitted
      /\ d.target = e.target /\ d.pendingTarget = e.pendingTarget
      /\ d.previousTarget = e.previousTarget /\ d.observed = e.observed
      /\ d.committed = e.committed /\ d.preparingChange = e.preparingChange
      /\ d.fromDelayed = e.fromDelayed
  BY <1>4 DEF Fields
<1>6. Shaped(d)
  <2>1. Timed(d)
    BY <1>1, <1>5 DEF Timed, Shaped
  <2>2. d.state \in States
    BY <1>4 DEF States
  <2> QED BY <1>1, <1>4, <1>5, <2>1, <2>2 DEF Shaped
<1>7. Less(c, d)
  BY <1>1, <1>5 DEF Less
<1>8. Queued(d) = {}
  BY <1>1, <1>5 DEF Queued
<1>9. Flags(d)
  BY <1>1, <1>5 DEF Flags
<1>10. Arranged(d, top)
  BY <1>6, <1>7, <1>8, <1>9, LessOrdered
<1>11. \A packets : Horizons(c, packets) => Horizons(d, packets)
  BY <1>6, <1>7, LessOrdered
<1> QED BY <1>1, <1>4, <1>5, <1>6, <1>10, <1>11 DEF d

\* Packet p is what its stream sends next: it changes what the stream has sent from top
\* to new.
Comes(p, top, new) ==
  /\ p \in Packets /\ top \in [Streams -> Bound] /\ new \in [Streams -> Bound]
  /\ \A s \in Streams : s # p.stream => new[s] = top[s]
  /\ new[p.stream].sent /\ new[p.stream].dts = p.dts /\ p.pts <= new[p.stream].pts
  /\ top[p.stream].sent =>
       /\ top[p.stream].dts < p.dts /\ top[p.stream].pts <= new[p.stream].pts
       /\ p.key => top[p.stream].pts < p.pts

\* It then comes after all that its stream has buffered, and all that its lane has emitted.
LEMMA ComesAfter ==
  ASSUME NEW c, Shaped(c), NEW p, NEW top, NEW new, Comes(p, top, new), Arranged(c, top)
  PROVE  /\ Arranged(c, new)
         /\ \A i \in DOMAIN c.queues[p.stream] : Precedes(c.queues[p.stream][i], p)
         /\ InEpoch(c, top) =>
              InEpoch(c, new) /\ (p.stream \in DOMAIN c.offsets => InFront(c, p.stream, p))
<1> DEFINE s == p.stream
<1>1. /\ p \in Packets /\ s \in Streams /\ p.dts \in Int /\ p.pts \in Int
      /\ top[s].dts \in Int /\ top[s].pts \in Int /\ new[s].dts \in Int /\ new[s].pts \in Int
  BY DEF Comes, Packets, Bound
<1>2. \A q \in Streams : q # s => new[q] = top[q]
  BY DEF Comes
<1>3. new[s].sent /\ new[s].dts = p.dts /\ p.pts <= new[s].pts
  BY DEF Comes
<1>4. top[s].sent => /\ top[s].dts < p.dts /\ top[s].pts <= new[s].pts
                     /\ p.key => top[s].pts < p.pts
  BY DEF Comes
<1>5. /\ Rising(c.queues[s], top[s])
      /\ \A i \in DOMAIN c.queues[s] : c.queues[s][i] \in Packets
  BY <1>1, ShapedQueue DEF Arranged
<1>6. \A i \in DOMAIN c.queues[s] : c.queues[s][i].dts \in Int /\ c.queues[s][i].pts \in Int
  BY <1>5 DEF Packets
<1> HIDE DEF s
<1>7. \A i \in DOMAIN c.queues[s] : Precedes(c.queues[s][i], p)
  <2> SUFFICES ASSUME NEW i \in DOMAIN c.queues[s] PROVE Precedes(c.queues[s][i], p)
    OBVIOUS
  <2>1. top[s].sent /\ c.queues[s][i].dts <= top[s].dts /\ c.queues[s][i].pts <= top[s].pts
    BY <1>5 DEF Rising
  <2>2. c.queues[s][i].dts < p.dts
    BY <1>1, <1>4, <1>6, <2>1
  <2>3. p.key => c.queues[s][i].pts < p.pts
    BY <1>1, <1>4, <1>6, <2>1
  <2> QED BY <2>2, <2>3 DEF Precedes
<1>8. Rising(c.queues[s], new[s])
  <2>1. \A i \in DOMAIN c.queues[s] :
          c.queues[s][i].dts <= new[s].dts /\ c.queues[s][i].pts <= new[s].pts
    <3> SUFFICES ASSUME NEW i \in DOMAIN c.queues[s]
                 PROVE  c.queues[s][i].dts <= new[s].dts /\ c.queues[s][i].pts <= new[s].pts
      OBVIOUS
    <3>1. top[s].sent /\ c.queues[s][i].dts <= top[s].dts /\ c.queues[s][i].pts <= top[s].pts
      BY <1>5 DEF Rising
    <3> QED BY <1>1, <1>3, <1>4, <1>6, <3>1
  <2> QED BY <1>3, <1>5, <2>1 DEF Rising
<1>9. Arranged(c, new)
  <2>1. \A q \in Streams : Rising(c.queues[q], new[q])
    BY <1>2, <1>8 DEF Arranged
  <2>2. \A q \in DOMAIN c.offsets : q \in Streams /\ new[q].sent
    BY <1>2, <1>3 DEF Arranged
  <2>3. PendingRising(c.pending, new)
    <3>1. PendingRising(c.pending, top)
      BY DEF Arranged
    <3>2. ASSUME NEW i \in DOMAIN c.pending
          PROVE  LET b == new[c.pending[i].stream]
                 IN  b.sent /\ c.pending[i].dts <= b.dts /\ c.pending[i].pts <= b.pts
      <4> DEFINE r == c.pending[i]
      <4>1. r \in Packets
        BY ElementOfSeq, LenProperties DEF Shaped
      <4>2. top[r.stream].sent /\ r.dts <= top[r.stream].dts /\ r.pts <= top[r.stream].pts
        BY <3>1 DEF PendingRising
      <4> HIDE DEF r
      <4>3. r.stream \in Streams /\ r.dts \in Int /\ r.pts \in Int
        BY <4>1 DEF Packets
      <4>4. new[r.stream].sent /\ r.dts <= new[r.stream].dts /\ r.pts <= new[r.stream].pts
        <5>1. CASE r.stream # s
          BY <1>2, <4>2, <4>3, <5>1
        <5>2. CASE r.stream = s
          BY <1>1, <1>3, <1>4, <4>2, <4>3, <5>2
        <5> QED BY <5>1, <5>2
      <4> QED BY <4>4 DEF r
    <3> QED BY <3>1, <3>2 DEF PendingRising
  <2> QED BY <2>1, <2>2, <2>3 DEF Arranged
<1>10. ASSUME InEpoch(c, top)
       PROVE  InEpoch(c, new) /\ (s \in DOMAIN c.offsets => InFront(c, s, p))
  <2>1. ASSUME s \in DOMAIN c.offsets
        PROVE  Follows(c, s, new[s]) /\ InFront(c, s, p)
    <3>1. top[s].sent /\ Follows(c, s, top[s])
      BY <1>10, <2>1 DEF Arranged, InEpoch
    <3>2. /\ c.offsets[s] \in Int
          /\ Timeline(s) \in DOMAIN c.lastDts => c.lastDts[Timeline(s)] \in Int
          /\ Timeline(s) \in DOMAIN c.maxPts => c.maxPts[Timeline(s)] \in Int
      BY <2>1 DEF Shaped, Timed, IntValued
    <3>3. Timeline(s) \in DOMAIN c.lastDts =>
            /\ c.lastDts[Timeline(s)] <= new[s].dts + c.offsets[s]
            /\ c.lastDts[Timeline(s)] < p.dts + c.offsets[s]
      <4> SUFFICES ASSUME Timeline(s) \in DOMAIN c.lastDts
                   PROVE  /\ c.lastDts[Timeline(s)] <= new[s].dts + c.offsets[s]
                          /\ c.lastDts[Timeline(s)] < p.dts + c.offsets[s]
        OBVIOUS
      <4>1. c.lastDts[Timeline(s)] <= top[s].dts + c.offsets[s]
        BY <3>1 DEF Follows
      <4> QED BY <1>1, <1>3, <1>4, <3>1, <3>2, <4>1
    <3>4. Timeline(s) \in DOMAIN c.maxPts =>
            /\ c.maxPts[Timeline(s)] <= new[s].pts + c.offsets[s]
            /\ p.key => c.maxPts[Timeline(s)] < p.pts + c.offsets[s]
      <4> SUFFICES ASSUME Timeline(s) \in DOMAIN c.maxPts
                   PROVE  /\ c.maxPts[Timeline(s)] <= new[s].pts + c.offsets[s]
                          /\ p.key => c.maxPts[Timeline(s)] < p.pts + c.offsets[s]
        OBVIOUS
      <4>1. c.maxPts[Timeline(s)] <= top[s].pts + c.offsets[s]
        BY <3>1 DEF Follows
      <4> QED BY <1>1, <1>4, <3>1, <3>2, <4>1
    <3> QED BY <3>3, <3>4 DEF Follows, InFront
  <2>2. \A q \in DOMAIN c.offsets : Follows(c, q, new[q])
    BY <1>2, <1>10, <2>1 DEF InEpoch, Arranged
  <2> QED BY <1>10, <2>1, <2>2 DEF InEpoch
<1> QED BY <1>7, <1>9, <1>10 DEF s

\* A new generation takes the place of the one before, or there is an error, if something
\* was queued.
LEMMA PrepareOrdered ==
  ASSUME NEW c, Shaped(c), NEW s \in Streams, NEW top, Arranged(c, top)
  PROVE  \/ PrepareStream(c, s) = EnterError(c) /\ Queued(c) # {}
         \/ LET d == PrepareStream(c, s)
            IN  /\ Shaped(d) /\ Stays(c, d) /\ Arranged(d, top) /\ d.target = c.target /\ Less(c, d)
                /\ d.queues = c.queues /\ d.pending = c.pending
                /\ \A packets : Horizons(c, packets) => Horizons(d, packets)
                /\ InEpoch(c, top) => InEpoch(d, top)
                /\ \A q \in Queued(d) \cup DOMAIN d.offsets : Timeline(q) = Timeline(s) => q = s
<1> DEFINE replaced == {q \in Streams \ {s} : Timeline(q) = Timeline(s)}
           required == (c.returnRequired \ replaced)
                         \cup {q \in {s} : IsVideo(q) /\ c.returnRequired \cap replaced # {}}
           d == [c EXCEPT !.active = @ \ replaced,
                        !.latest = Without(@, replaced), !.seen = Without(@, replaced),
                        !.offsets = Without(@, replaced),
                        !.returnKeys = Without(@, replaced),
                        !.returnRequired = required]
<1>1. \/ PrepareStream(c, s) = EnterError(c) /\ Queued(c) # {}
      \/ PrepareStream(c, s) = d /\ replaced \cap Queued(c) = {}
  BY DEF PrepareStream
<1> SUFFICES ASSUME PrepareStream(c, s) = d, replaced \cap Queued(c) = {}
             PROVE  /\ Shaped(d) /\ Stays(c, d) /\ Arranged(d, top) /\ d.target = c.target /\ Less(c, d)
                    /\ d.queues = c.queues /\ d.pending = c.pending
                    /\ \A packets : Horizons(c, packets) => Horizons(d, packets)
                    /\ InEpoch(c, top) => InEpoch(d, top)
                    /\ \A q \in Queued(d) \cup DOMAIN d.offsets : Timeline(q) = Timeline(s) => q = s
  BY <1>1
<1>2. \A q \in Streams : q \notin replaced /\ Timeline(q) = Timeline(s) => q = s
  OBVIOUS
<1> HIDE DEF replaced, required
<1>3. IsCore(c) /\ Timed(c)
  BY DEF Shaped
<1>4. /\ IsCore(d) /\ d.offsets = Without(c.offsets, replaced)
      /\ \A x \in Fields \ {"active", "latest", "seen", "offsets", "returnKeys", "returnRequired"} :
           d[x] = c[x]
  BY <1>3 DEF IsCore, Fields
<1> HIDE DEF d
<1>5. /\ d.queues = c.queues /\ d.pending = c.pending /\ d.target = c.target
      /\ d.lastDts = c.lastDts /\ d.maxPts = c.maxPts /\ d.emitted = c.emitted
      /\ d.pendingTarget = c.pendingTarget
      /\ d.previousTarget = c.previousTarget /\ d.observed = c.observed
      /\ Stays(c, d)
  BY <1>4 DEF Fields, Stays
<1>6. /\ \A x \in DOMAIN d.offsets :
           x \in DOMAIN c.offsets /\ x \notin replaced /\ d.offsets[x] = c.offsets[x]
      /\ DOMAIN d.offsets = DOMAIN c.offsets \ replaced
  BY <1>4, WithoutEntries DEF Without
<1>7. IntValued(d.offsets)
  BY <1>3, <1>6 DEF Timed, IntValued
<1>8. Timed(d)
  BY <1>3, <1>5, <1>7 DEF Timed
<1>9. Shaped(d)
  BY <1>4, <1>5, <1>8 DEF Shaped, Stays
<1>10. Less(c, d)
  <2>1. \A q \in Streams : PartOf(d.queues[q], c.queues[q])
    BY <1>5, Sections DEF Shaped
  <2>2. PartOf(d.pending, c.pending)
    BY <1>5, Sections DEF Shaped
  <2> QED BY <1>5, <1>6, <2>1, <2>2 DEF Less
<1>11. Passing(d) = Passing(c) /\ Flags(d) = Flags(c) /\ Queued(d) = Queued(c)
  BY <1>5, StaysControl DEF Queued
<1>12. Arranged(d, top)
  <2>1. Passing(d) => Queued(d) = {}
    BY <1>11 DEF Arranged
  <2>2. Flags(d)
    BY <1>11 DEF Arranged
  <2> QED BY <1>9, <1>10, <2>1, <2>2, LessOrdered
<1>13. ASSUME InEpoch(c, top) PROVE InEpoch(d, top)
  <2>1. d.state # "Filling" => Queued(d) \subseteq DOMAIN d.offsets
    BY <1>5, <1>6, <1>11, <1>13 DEF InEpoch, Stays
  <2>2. DOMAIN c.offsets \subseteq Streams
    BY DEF Arranged
  <2> QED BY <1>9, <1>10, <1>13, <2>1, <2>2, LessOrdered
<1>14. \A q \in Queued(d) \cup DOMAIN d.offsets : Timeline(q) = Timeline(s) => q = s
  <2>1. \A q \in Queued(d) : q \in Streams /\ q \notin replaced
    BY <1>11 DEF Queued
  <2>2. \A q \in DOMAIN d.offsets : q \in Streams /\ q \notin replaced
    BY <1>6 DEF Arranged
  <2> QED BY <1>2, <2>1, <2>2
<1>15. \A packets : Horizons(c, packets) => Horizons(d, packets)
  BY <1>9, <1>10, LessOrdered
<1> QED BY <1>5, <1>9, <1>10, <1>12, <1>13, <1>14, <1>15

\* A stream without an offset gets one that puts it behind its lane.
LEMMA OffsetOrdered ==
  ASSUME NEW c, Shaped(c), NEW p \in Packets, NEW base \in Int, NEW top \in [Streams -> Bound],
         Arranged(c, top), top[p.stream].sent,
         p.dts <= top[p.stream].dts, p.pts <= top[p.stream].pts,
         \A q \in DOMAIN c.offsets : Timeline(q) = Timeline(p.stream) => q = p.stream,
         c.state # "Filling", c.pending = <<>>
  PROVE  LET d == CreateOffset(c, p, base)
         IN  /\ Shaped(d) /\ Stays(c, d) /\ Arranged(d, top)
             /\ d.queues = c.queues /\ d.pending = c.pending
             /\ p.stream \in DOMAIN d.offsets
             /\ DOMAIN d.offsets = DOMAIN c.offsets \cup {p.stream}
             /\ \A packets : Horizons(c, packets) => Horizons(d, packets)
             /\ InEpoch(c, top) /\ (p.stream \in DOMAIN c.offsets => InFront(c, p.stream, p))
                => InEpoch(d, top) /\ InFront(d, p.stream, p)
<1>1. CASE p.stream \in DOMAIN c.offsets
  <2>1. CreateOffset(c, p, base) = c
    BY <1>1 DEF CreateOffset
  <2> QED BY <1>1, <2>1 DEF Stays
<1>2. CASE p.stream \notin DOMAIN c.offsets
  <2> DEFINE s == p.stream
             offset == NewOffset(c, p, base)
             d == [c EXCEPT !.offsets = With(@, s, offset)]
  <2>1. IsCore(c) /\ Timed(c) /\ s \in Streams /\ p.dts \in Int /\ p.pts \in Int
    BY DEF Shaped, Packets
  <2>2. /\ offset \in Int
        /\ Timeline(s) \in DOMAIN c.lastDts => c.lastDts[Timeline(s)] < p.dts + offset
        /\ Timeline(s) \in DOMAIN c.maxPts => c.maxPts[Timeline(s)] < p.pts + offset
    BY <2>1, NewOffsetFits
  <2>3. CreateOffset(c, p, base) = d
    BY <1>2 DEF CreateOffset
  <2> HIDE DEF offset
  <2>4. /\ IsCore(d) /\ d.offsets = With(c.offsets, s, offset)
        /\ \A x \in Fields \ {"offsets"} : d[x] = c[x]
    BY <2>1 DEF IsCore, Fields
  <2> HIDE DEF d, s
  <2>5. /\ d.queues = c.queues /\ d.pending = c.pending /\ d.target = c.target
        /\ d.lastDts = c.lastDts /\ d.maxPts = c.maxPts /\ d.emitted = c.emitted
        /\ d.pendingTarget = c.pendingTarget
        /\ d.previousTarget = c.previousTarget /\ d.observed = c.observed
        /\ Stays(c, d)
    BY <2>4 DEF Fields, Stays
  <2>6. /\ d.offsets[s] = offset /\ DOMAIN d.offsets = DOMAIN c.offsets \cup {s}
        /\ \A x \in DOMAIN c.offsets : x # s => d.offsets[x] = c.offsets[x]
    <3> DEFINE w == With(c.offsets, s, offset)
    <3>1. /\ w[s] = offset /\ DOMAIN w = DOMAIN c.offsets \cup {s}
          /\ \A x \in DOMAIN c.offsets : x # s => w[x] = c.offsets[x]
      BY DEF With
    <3>2. d.offsets = w
      BY <2>4
    <3> HIDE DEF w
    <3> QED BY <3>1, <3>2
  <2>7. IntValued(d.offsets)
    BY <2>1, <2>2, <2>6 DEF Timed, IntValued
  <2>8. Timed(d)
    BY <2>1, <2>5, <2>7 DEF Timed
  <2>9. Shaped(d)
    BY <2>4, <2>5, <2>8 DEF Shaped, Stays
  <2>10. Queued(d) = Queued(c) /\ Passing(d) = Passing(c) /\ Flags(d) = Flags(c)
    BY <2>5, StaysControl DEF Queued
  <2>11. OneEach(DOMAIN d.offsets)
    BY <2>6 DEF OneEach, Arranged, s
  <2>12. \A q \in DOMAIN d.offsets : q \in Streams /\ top[q].sent
    BY <2>1, <2>6 DEF Arranged, s
  <2>13. Arranged(d, top)
    BY <2>5, <2>10, <2>11, <2>12 DEF Arranged
  <2>14. InFront(d, s, p)
    BY <2>2, <2>5, <2>6 DEF InFront
  <2>15. ASSUME InEpoch(c, top) PROVE InEpoch(d, top)
    <3>1. ASSUME NEW q \in DOMAIN c.offsets
          PROVE  /\ Follows(d, q, top[q])
                 /\ \A i \in DOMAIN d.queues[q] : InFront(d, q, d.queues[q][i])
      <4>1. d.offsets[q] = c.offsets[q]
        BY <1>2, <2>6 DEF s
      <4> QED BY <2>5, <2>15, <4>1 DEF InEpoch, Follows, InFront
    <3>2. Follows(d, s, top[s])
      <4>1. /\ offset \in Int /\ p.dts \in Int /\ p.pts \in Int
            /\ top[s].dts \in Int /\ top[s].pts \in Int
            /\ Timeline(s) \in DOMAIN c.lastDts => c.lastDts[Timeline(s)] \in Int
            /\ Timeline(s) \in DOMAIN c.maxPts => c.maxPts[Timeline(s)] \in Int
        BY <2>1, <2>2 DEF Timed, IntValued, Bound
      <4>2. p.dts <= top[s].dts /\ p.pts <= top[s].pts
        BY DEF s
      <4>3. Timeline(s) \in DOMAIN c.lastDts => c.lastDts[Timeline(s)] <= top[s].dts + offset
        BY <2>2, <4>1, <4>2
      <4>4. Timeline(s) \in DOMAIN c.maxPts => c.maxPts[Timeline(s)] <= top[s].pts + offset
        BY <2>2, <4>1, <4>2
      <4> QED BY <2>5, <2>6, <4>3, <4>4 DEF Follows
    <3>3. c.queues[s] = <<>>
      <4>1. s \notin Queued(c)
        BY <1>2, <2>15 DEF InEpoch, s
      <4> QED BY <2>1, <4>1 DEF Queued
    <3>4. \A i \in DOMAIN d.queues[s] : InFront(d, s, d.queues[s][i])
      BY <2>5, <3>3
    <3>5. d.pending = <<>>
      BY <2>5
    <3>6. Queued(d) \subseteq DOMAIN d.offsets
      BY <2>6, <2>10, <2>15 DEF InEpoch
    <3> QED BY <2>6, <3>1, <3>2, <3>4, <3>5, <3>6 DEF InEpoch
  <2>16. \A packets : Horizons(c, packets) => Horizons(d, packets)
    BY <2>5 DEF Horizons
  <2> QED BY <2>3, <2>5, <2>6, <2>9, <2>13, <2>14, <2>15, <2>16 DEF s
<1> QED BY <1>1, <1>2

\* A packet that is shifted is one.
LEMMA ShiftedPacket ==
  ASSUME NEW p \in Packets, NEW ticks \in Int
  PROVE  /\ Shifted(p, ticks) \in Packets
         /\ Shifted(p, ticks).dts = p.dts + ticks /\ Shifted(p, ticks).pts = p.pts + ticks
         /\ Shifted(p, ticks).stream = p.stream /\ Shifted(p, ticks).key = p.key
         /\ Shifted(p, ticks).seq = p.seq
<1> DEFINE r == Shifted(p, ticks)
<1>1. p.dts \in Int /\ p.pts \in Int
  BY DEF Packets
<1>2. r = [p EXCEPT !.dts = @ + ticks, !.pts = @ + ticks]
  BY DEF Shifted
<1>3. p = [stream |-> p.stream, seq |-> p.seq, after |-> p.after, dts |-> p.dts, pts |-> p.pts,
           key |-> p.key, at |-> p.at]
  BY DEF Packets
<1>4. r = [stream |-> p.stream, seq |-> p.seq, after |-> p.after, dts |-> p.dts + ticks,
           pts |-> p.pts + ticks, key |-> p.key, at |-> p.at]
  BY <1>2, <1>3
<1> HIDE DEF r
<1>5. r \in Packets
  BY <1>1, <1>4 DEF Packets
<1> QED BY <1>4, <1>5 DEF r

\* What is noted of an output: the horizons of its lane rise to it.
LEMMA NotedFields ==
  ASSUME NEW c, Shaped(c), NEW q, q.dts \in Int, q.pts \in Int
  PROVE  LET d == NoteOutput(c, q)
             t == Timeline(q.stream)
         IN  /\ Shaped(d) /\ Stays(c, d) /\ d.target = c.target
             /\ d.queues = c.queues /\ d.pending = c.pending /\ d.offsets = c.offsets
             /\ d.emitted = {q.dts}
             /\ t \in DOMAIN d.lastDts /\ d.lastDts[t] = q.dts
             /\ t \in DOMAIN d.maxPts /\ d.maxPts[t] >= q.pts
             /\ t \in DOMAIN c.maxPts => d.maxPts[t] >= c.maxPts[t]
             /\ d.maxPts[t] # q.pts => t \in DOMAIN c.maxPts /\ d.maxPts[t] = c.maxPts[t]
             /\ \A u : u # t => /\ u \in DOMAIN d.lastDts <=> u \in DOMAIN c.lastDts
                                /\ u \in DOMAIN d.maxPts <=> u \in DOMAIN c.maxPts
             /\ \A u \in DOMAIN c.lastDts : u # t => d.lastDts[u] = c.lastDts[u]
             /\ \A u \in DOMAIN c.maxPts : u # t => d.maxPts[u] = c.maxPts[u]
<1> DEFINE t == Timeline(q.stream)
           most == IF t \in DOMAIN c.maxPts THEN Largest({c.maxPts[t], q.pts}) ELSE q.pts
           d == NoteOutput(c, q)
<1>1. IsCore(c) /\ Timed(c)
  BY DEF Shaped
<1>2. IsCore(d) /\ Timed(d) /\ SameBuffer(c, d) /\ d.observed = c.observed
  BY <1>1, NoteOutputSame
<1>3. d = [c EXCEPT !.emitted = {q.dts}, !.lastDts = With(@, t, q.dts),
                    !.maxPts = With(@, t, most)]
  BY DEF NoteOutput
<1>4. /\ most \in Int /\ most >= q.pts
      /\ t \in DOMAIN c.maxPts => most >= c.maxPts[t]
      /\ most # q.pts => t \in DOMAIN c.maxPts /\ most = c.maxPts[t]
  <2>1. CASE t \in DOMAIN c.maxPts
    <3>1. c.maxPts[t] \in Int
      BY <1>1, <2>1 DEF Timed, IntValued
    <3> DEFINE S == {c.maxPts[t]} \cup {q.pts}
    <3>2. S = {c.maxPts[t], q.pts} /\ S \in SUBSET Int /\ S # {}
      BY <3>1
    <3>3. IsFiniteSet({c.maxPts[t]})
      BY FS_Singleton
    <3>4. IsFiniteSet(S)
      BY <3>3, FS_AddElement
    <3>5. most = Largest(S)
      BY <2>1, <3>2
    <3>6. c.maxPts[t] \in S /\ q.pts \in S /\ \A x \in S : x = c.maxPts[t] \/ x = q.pts
      OBVIOUS
    <3> HIDE DEF S, most, t
    <3>7. Largest(S) \in S /\ \A x \in S : Largest(S) >= x
      BY <3>2, <3>4, LargestOf
    <3> QED BY <2>1, <3>1, <3>5, <3>6, <3>7
  <2>2. CASE t \notin DOMAIN c.maxPts
    BY <2>2
  <2> QED BY <2>1, <2>2
<1> HIDE DEF most, t
<1>5. /\ d.emitted = {q.dts} /\ d.lastDts = With(c.lastDts, t, q.dts)
      /\ d.maxPts = With(c.maxPts, t, most)
      /\ \A x \in Fields \ {"emitted", "lastDts", "maxPts"} : d[x] = c[x]
  BY <1>1, <1>3 DEF IsCore, Fields
<1> HIDE DEF d
<1>6. /\ d.queues = c.queues /\ d.pending = c.pending /\ d.offsets = c.offsets
      /\ d.target = c.target /\ Stays(c, d)
  BY <1>5 DEF Fields, Stays
<1>7. Shaped(d)
  BY <1>2, <1>6 DEF Shaped, Stays
<1>8. /\ d.lastDts[t] = q.dts /\ DOMAIN d.lastDts = DOMAIN c.lastDts \cup {t}
      /\ \A u \in DOMAIN c.lastDts : u # t => d.lastDts[u] = c.lastDts[u]
  <2> DEFINE w == With(c.lastDts, t, q.dts)
  <2>1. /\ w[t] = q.dts /\ DOMAIN w = DOMAIN c.lastDts \cup {t}
        /\ \A u \in DOMAIN c.lastDts : u # t => w[u] = c.lastDts[u]
    BY DEF With
  <2> HIDE DEF w
  <2>2. d.lastDts = w
    BY <1>5 DEF w
  <2> QED BY <2>1, <2>2
<1>9. /\ d.maxPts[t] = most /\ DOMAIN d.maxPts = DOMAIN c.maxPts \cup {t}
      /\ \A u \in DOMAIN c.maxPts : u # t => d.maxPts[u] = c.maxPts[u]
  <2> DEFINE w == With(c.maxPts, t, most)
  <2>1. /\ w[t] = most /\ DOMAIN w = DOMAIN c.maxPts \cup {t}
        /\ \A u \in DOMAIN c.maxPts : u # t => w[u] = c.maxPts[u]
    BY DEF With
  <2> HIDE DEF w
  <2>2. d.maxPts = w
    BY <1>5 DEF w
  <2> QED BY <2>1, <2>2
<1>10. t \in DOMAIN d.lastDts /\ t \in DOMAIN d.maxPts
  BY <1>8, <1>9
<1>11. \A u : u # t => /\ u \in DOMAIN d.lastDts <=> u \in DOMAIN c.lastDts
                       /\ u \in DOMAIN d.maxPts <=> u \in DOMAIN c.maxPts
  BY <1>8, <1>9
<1>12. /\ d.maxPts[t] >= q.pts
       /\ t \in DOMAIN c.maxPts => d.maxPts[t] >= c.maxPts[t]
       /\ d.maxPts[t] # q.pts => t \in DOMAIN c.maxPts /\ d.maxPts[t] = c.maxPts[t]
  BY <1>4, <1>9
<1>13. /\ \A u \in DOMAIN c.lastDts : u # t => d.lastDts[u] = c.lastDts[u]
       /\ \A u \in DOMAIN c.maxPts : u # t => d.maxPts[u] = c.maxPts[u]
  BY <1>8, <1>9
<1>14. d.lastDts[t] = q.dts /\ d.emitted = {q.dts}
  BY <1>5, <1>8
<1> QED BY <1>6, <1>7, <1>10, <1>11, <1>12, <1>13, <1>14 DEF d, t

\* A packet that does not regress rises above all horizons, those of its own lane included.
LEMMA NotedHorizons ==
  ASSUME NEW c, Shaped(c), NEW q, q.dts \in Int, q.pts \in Int,
         \A e \in c.emitted : e <= q.dts,
         NEW packets \in Seq(Packets), Horizons(c, packets), ShownOK
  PROVE  /\ Horizons(NoteOutput(c, q), packets)
         /\ \A t \in DOMAIN NoteOutput(c, q).lastDts : NoteOutput(c, q).lastDts[t] <= q.dts
<1> DEFINE d == NoteOutput(c, q)
           t == Timeline(q.stream)
<1>1. /\ Shaped(d) /\ d.emitted = {q.dts}
      /\ t \in DOMAIN d.lastDts /\ d.lastDts[t] = q.dts
      /\ t \in DOMAIN d.maxPts /\ (t \in DOMAIN c.maxPts => d.maxPts[t] >= c.maxPts[t])
      /\ \A u : u # t => /\ u \in DOMAIN d.lastDts <=> u \in DOMAIN c.lastDts
                         /\ u \in DOMAIN d.maxPts <=> u \in DOMAIN c.maxPts
      /\ \A u \in DOMAIN c.lastDts : u # t => d.lastDts[u] = c.lastDts[u]
      /\ \A u \in DOMAIN c.maxPts : u # t => d.maxPts[u] = c.maxPts[u]
  BY NotedFields
<1> HIDE DEF d, t
<1>2. /\ \A u \in DOMAIN c.lastDts : c.lastDts[u] \in Int
      /\ \A u \in DOMAIN c.maxPts : c.maxPts[u] \in Int
      /\ \A u \in DOMAIN d.lastDts : d.lastDts[u] \in Int
      /\ \A u \in DOMAIN d.maxPts : d.maxPts[u] \in Int
      /\ \A e \in c.emitted : e \in Int
  BY <1>1 DEF Shaped, Timed, IntValued
<1>3. \A u \in DOMAIN c.lastDts : c.lastDts[u] <= q.dts
  <2> SUFFICES ASSUME NEW u \in DOMAIN c.lastDts PROVE c.lastDts[u] <= q.dts
    OBVIOUS
  <2>1. PICK e \in c.emitted : c.lastDts[u] <= e
    BY DEF Horizons
  <2>2. e <= q.dts /\ e \in Int /\ c.lastDts[u] \in Int
    BY <1>2
  <2> QED BY <2>1, <2>2
<1>4. \A u \in DOMAIN c.lastDts : u \in DOMAIN d.lastDts /\ c.lastDts[u] <= d.lastDts[u]
  <2> SUFFICES ASSUME NEW u \in DOMAIN c.lastDts
               PROVE  u \in DOMAIN d.lastDts /\ c.lastDts[u] <= d.lastDts[u]
    OBVIOUS
  <2>1. CASE u = t
    BY <1>1, <1>3, <2>1
  <2>2. CASE u # t
    BY <1>1, <1>2, <2>2
  <2> QED BY <2>1, <2>2
<1>5. \A u \in DOMAIN c.maxPts : u \in DOMAIN d.maxPts /\ c.maxPts[u] <= d.maxPts[u]
  <2> SUFFICES ASSUME NEW u \in DOMAIN c.maxPts
               PROVE  u \in DOMAIN d.maxPts /\ c.maxPts[u] <= d.maxPts[u]
    OBVIOUS
  <2>1. CASE u = t
    BY <1>1, <1>2, <2>1
  <2>2. CASE u # t
    BY <1>1, <1>2, <2>2
  <2> QED BY <2>1, <2>2
<1>6. \A u \in DOMAIN d.lastDts : d.lastDts[u] <= q.dts
  <2> SUFFICES ASSUME NEW u \in DOMAIN d.lastDts PROVE d.lastDts[u] <= q.dts
    OBVIOUS
  <2>1. CASE u = t
    BY <1>1, <2>1
  <2>2. CASE u # t
    BY <1>1, <1>3, <2>2
  <2> QED BY <2>1, <2>2
<1>7. ASSUME NEW u, u \in DOMAIN c.lastDts, NEW x \in Int, x <= c.lastDts[u]
      PROVE  u \in DOMAIN d.lastDts /\ x <= d.lastDts[u]
  BY <1>2, <1>4, <1>7
<1>8. ASSUME NEW u, u \in DOMAIN c.maxPts, NEW x \in Int, x <= c.maxPts[u]
      PROVE  u \in DOMAIN d.maxPts /\ x <= d.maxPts[u]
  BY <1>2, <1>5, <1>8
<1>9. ASSUME NEW u \in Timelines, NEW x \in shown[u].dts
      PROVE  u \in DOMAIN d.lastDts /\ x <= d.lastDts[u]
  <2>1. x \in Int /\ u \in DOMAIN c.lastDts /\ x <= c.lastDts[u]
    BY DEF ShownOK, Horizons
  <2> QED BY <1>7, <2>1
<1>10. ASSUME NEW u \in Timelines, NEW x \in shown[u].pts
       PROVE  u \in DOMAIN d.maxPts /\ x <= d.maxPts[u]
  <2>1. x \in Int /\ u \in DOMAIN c.maxPts /\ x <= c.maxPts[u]
    BY DEF ShownOK, Horizons
  <2> QED BY <1>8, <2>1
<1>11. ASSUME NEW j \in DOMAIN packets
       PROVE  LET u == Timeline(packets[j].stream)
              IN  /\ u \in DOMAIN d.lastDts /\ packets[j].dts <= d.lastDts[u]
                  /\ u \in DOMAIN d.maxPts /\ packets[j].pts <= d.maxPts[u]
  <2> DEFINE u == Timeline(packets[j].stream)
  <2>1. packets[j] \in Packets
    BY LenProperties, ElementOfSeq
  <2>2. packets[j].dts \in Int /\ packets[j].pts \in Int
    BY <2>1 DEF Packets
  <2>3. /\ u \in DOMAIN c.lastDts /\ packets[j].dts <= c.lastDts[u]
        /\ u \in DOMAIN c.maxPts /\ packets[j].pts <= c.maxPts[u]
    BY DEF Horizons
  <2> HIDE DEF u
  <2>4. u \in DOMAIN d.lastDts /\ packets[j].dts <= d.lastDts[u]
    BY <1>7, <2>2, <2>3
  <2>5. u \in DOMAIN d.maxPts /\ packets[j].pts <= d.maxPts[u]
    BY <1>8, <2>2, <2>3
  <2> QED BY <2>4, <2>5 DEF u
<1>12. \A u \in DOMAIN d.lastDts : \E e \in d.emitted : d.lastDts[u] <= e
  BY <1>1, <1>6
<1>13. Horizons(d, packets)
  BY <1>9, <1>10, <1>11, <1>12 DEF Horizons
<1> QED BY <1>6, <1>13 DEF d

\* A packet more that does not regress: what was handed out, with it, still goes on from what
\* was shown.
LEMMA AppendedOrdered ==
  ASSUME ShownOK, NEW c, Shaped(c), NEW packets \in Seq(Packets), NEW q \in Packets,
         Horizons(c, packets), Ordered(packets), \A e \in c.emitted : e <= q.dts
  PROVE  LET all == Append(packets, q)
             t == Timeline(q.stream)
         IN  /\ all \in Seq(Packets) /\ Horizons(NoteOutput(c, q), all) /\ Ordered(all)
             /\ /\ LaneOrdered(packets)
                /\ t \in DOMAIN c.lastDts => c.lastDts[t] < q.dts
                /\ q.key /\ t \in DOMAIN c.maxPts => c.maxPts[t] < q.pts
                => LaneOrdered(all)
<1> DEFINE all == Append(packets, q)
           t == Timeline(q.stream)
           d == NoteOutput(c, q)
           n == Len(packets)
<1>1. /\ n \in Nat /\ DOMAIN packets = 1..n
      /\ all \in Seq(Packets) /\ Len(all) = n + 1 /\ DOMAIN all = 1..(n + 1)
      /\ all[n + 1] = q /\ \A i \in 1..n : all[i] = packets[i]
  BY LenProperties, AppendProperties
<1>2. q.dts \in Int /\ q.pts \in Int /\ q.stream \in Streams
  BY DEF Packets
<1>3. t \in Timelines
  BY <1>2 DEF Timelines
<1>4. \A j \in DOMAIN packets : packets[j].dts \in Int /\ packets[j].pts \in Int
  <2>1. \A j \in DOMAIN packets : packets[j] \in Packets
    BY <1>1, ElementOfSeq
  <2> QED BY <2>1 DEF Packets
<1>5. /\ Horizons(d, packets) /\ \A u \in DOMAIN d.lastDts : d.lastDts[u] <= q.dts
      /\ Shaped(d)
      /\ t \in DOMAIN d.lastDts /\ d.lastDts[t] = q.dts
      /\ t \in DOMAIN d.maxPts /\ d.maxPts[t] >= q.pts
  BY <1>2, NotedHorizons, NotedFields
<1>6. \A i \in DOMAIN all : i \in DOMAIN packets \/ i = n + 1
  BY <1>1
<1>7. \A i \in DOMAIN packets : i \in DOMAIN all /\ all[i] = packets[i] /\ i < n + 1
  BY <1>1
<1>8. all[n + 1] = q /\ n + 1 \in DOMAIN all /\ ~(n + 1 < n + 1)
      /\ \A i \in DOMAIN packets : ~(n + 1 < i)
  BY <1>1
<1> HIDE DEF all, d, n, t
<1>9. Horizons(d, all)
  <2>1. \A u \in DOMAIN d.lastDts : d.lastDts[u] \in Int
    BY <1>5 DEF Shaped, Timed, IntValued
  <2>2. \A u \in DOMAIN d.maxPts : d.maxPts[u] \in Int
    BY <1>5 DEF Shaped, Timed, IntValued
  <2>3. /\ t \in DOMAIN d.lastDts /\ q.dts <= d.lastDts[t]
        /\ t \in DOMAIN d.maxPts /\ q.pts <= d.maxPts[t]
    BY <1>2, <1>5, <2>1, <2>2
  <2>4. ASSUME NEW j \in DOMAIN all
        PROVE  LET u == Timeline(all[j].stream)
               IN  /\ u \in DOMAIN d.lastDts /\ all[j].dts <= d.lastDts[u]
                   /\ u \in DOMAIN d.maxPts /\ all[j].pts <= d.maxPts[u]
    <3>1. CASE j \in DOMAIN packets
      BY <1>5, <1>7, <3>1 DEF Horizons
    <3>2. CASE j = n + 1
      BY <1>8, <2>3, <3>2 DEF t
    <3> QED BY <1>6, <3>1, <3>2
  <2> QED BY <1>5, <2>4 DEF Horizons
<1>10. /\ \A u \in Timelines : \A x \in shown[u].dts : x <= q.dts
       /\ \A j \in DOMAIN packets : packets[j].dts <= q.dts
  <2>1. \A u \in DOMAIN d.lastDts : d.lastDts[u] \in Int /\ d.lastDts[u] <= q.dts
    BY <1>5 DEF Shaped, Timed, IntValued
  <2>2. ASSUME NEW x \in Int, NEW u \in DOMAIN d.lastDts, x <= d.lastDts[u]
        PROVE  x <= q.dts
    BY <1>2, <2>1, <2>2
  <2>3. ASSUME NEW u \in Timelines, NEW x \in shown[u].dts PROVE x <= q.dts
    <3>1. x \in Int /\ u \in DOMAIN d.lastDts /\ x <= d.lastDts[u]
      BY <1>5 DEF ShownOK, Horizons
    <3> QED BY <2>2, <3>1
  <2>4. ASSUME NEW j \in DOMAIN packets PROVE packets[j].dts <= q.dts
    <3> DEFINE u == Timeline(packets[j].stream)
    <3>1. packets[j].dts \in Int /\ u \in DOMAIN d.lastDts /\ packets[j].dts <= d.lastDts[u]
      BY <1>4, <1>5 DEF Horizons
    <3> HIDE DEF u
    <3> QED BY <2>2, <3>1
  <2> QED BY <2>3, <2>4
<1>11. Ordered(all)
  <2>1. ASSUME NEW i \in DOMAIN all
        PROVE  /\ \A u \in Timelines : \A x \in shown[u].dts : x <= all[i].dts
               /\ \A j \in DOMAIN all : j < i => all[j].dts <= all[i].dts
    <3>1. CASE i \in DOMAIN packets
      <4>1. \A j \in DOMAIN all : j < i => j \in DOMAIN packets
        BY <1>6, <1>8, <3>1
      <4> QED BY <1>7, <3>1, <4>1 DEF Ordered
    <3>2. CASE i = n + 1
      <4>1. \A j \in DOMAIN all : j < i => j \in DOMAIN packets
        BY <1>6, <1>8, <3>2
      <4> QED BY <1>7, <1>8, <1>10, <3>2, <4>1
    <3> QED BY <1>6, <3>1, <3>2
  <2> QED BY <2>1 DEF Ordered
<1>12. ASSUME LaneOrdered(packets),
              t \in DOMAIN c.lastDts => c.lastDts[t] < q.dts,
              q.key /\ t \in DOMAIN c.maxPts => c.maxPts[t] < q.pts
       PROVE  LaneOrdered(all)
  <2>1. /\ t \in DOMAIN c.lastDts => c.lastDts[t] \in Int
        /\ t \in DOMAIN c.maxPts => c.maxPts[t] \in Int
    BY DEF Shaped, Timed, IntValued
  <2>2. ASSUME NEW x \in Int, t \in DOMAIN c.lastDts, x <= c.lastDts[t] PROVE x < q.dts
    BY <1>2, <1>12, <2>1, <2>2
  <2>3. ASSUME NEW x \in Int, t \in DOMAIN c.maxPts, x <= c.maxPts[t], q.key PROVE x < q.pts
    BY <1>2, <1>12, <2>1, <2>3
  <2>4. \A x \in shown[t].dts : x < q.dts
    <3> SUFFICES ASSUME NEW x \in shown[t].dts PROVE x < q.dts
      OBVIOUS
    <3>1. x \in Int /\ t \in DOMAIN c.lastDts /\ x <= c.lastDts[t]
      BY <1>3 DEF ShownOK, Horizons
    <3> QED BY <2>2, <3>1
  <2>5. q.key => \A x \in shown[t].pts : x < q.pts
    <3> SUFFICES ASSUME q.key, NEW x \in shown[t].pts PROVE x < q.pts
      OBVIOUS
    <3>1. x \in Int /\ t \in DOMAIN c.maxPts /\ x <= c.maxPts[t]
      BY <1>3 DEF ShownOK, Horizons
    <3> QED BY <2>3, <3>1
  <2>6. \A j \in DOMAIN packets : Timeline(packets[j].stream) = t => Precedes(packets[j], q)
    <3> SUFFICES ASSUME NEW j \in DOMAIN packets, Timeline(packets[j].stream) = t
                 PROVE  Precedes(packets[j], q)
      OBVIOUS
    <3>1. /\ t \in DOMAIN c.lastDts /\ packets[j].dts <= c.lastDts[t]
          /\ t \in DOMAIN c.maxPts /\ packets[j].pts <= c.maxPts[t]
      BY DEF Horizons
    <3>2. packets[j].dts < q.dts
      BY <1>4, <2>2, <3>1
    <3>3. q.key => packets[j].pts < q.pts
      BY <1>4, <2>3, <3>1
    <3> QED BY <3>2, <3>3 DEF Precedes
  <2>7. ASSUME NEW i \in DOMAIN all
        PROVE  LET p == all[i]
                   u == Timeline(p.stream)
               IN  /\ \A x \in shown[u].dts : x < p.dts
                   /\ p.key => \A x \in shown[u].pts : x < p.pts
                   /\ \A j \in DOMAIN all :
                        j < i /\ Timeline(all[j].stream) = u => Precedes(all[j], p)
    <3>1. CASE i \in DOMAIN packets
      <4>1. \A j \in DOMAIN all : j < i => j \in DOMAIN packets
        BY <1>6, <1>8, <3>1
      <4> QED BY <1>7, <1>12, <3>1, <4>1 DEF LaneOrdered
    <3>2. CASE i = n + 1
      <4>1. \A j \in DOMAIN all : j < i => j \in DOMAIN packets
        BY <1>6, <1>8, <3>2
      <4> QED BY <1>7, <1>8, <2>4, <2>5, <2>6, <3>2, <4>1 DEF t
    <3> QED BY <1>6, <3>1, <3>2
  <2> QED BY <2>7 DEF LaneOrdered
<1> QED BY <1>1, <1>9, <1>11, <1>12 DEF all, d, t

\* The packet is behind its lane and before what the lane still has: so the epoch goes on.
LEMMA NotedOrdered ==
  ASSUME NEW c, Shaped(c), NEW top \in [Streams -> Bound], Arranged(c, top),
         NEW p \in Packets, p.stream \in DOMAIN c.offsets,
         p.dts <= top[p.stream].dts, p.pts <= top[p.stream].pts,
         \A i \in DOMAIN c.queues[p.stream] : Precedes(p, c.queues[p.stream][i]),
         \A i \in DOMAIN c.pending : c.pending[i].stream = p.stream => Precedes(p, c.pending[i]),
         NEW q, q = Shifted(p, c.offsets[p.stream])
  PROVE  /\ Arranged(NoteOutput(c, q), top)
         /\ InEpoch(c, top) => InEpoch(NoteOutput(c, q), top)
<1> DEFINE s == p.stream
           t == Timeline(s)
           off == c.offsets[s]
           d == NoteOutput(c, q)
<1>1. /\ s \in Streams /\ p.dts \in Int /\ p.pts \in Int /\ off \in Int
      /\ top[s].dts \in Int /\ top[s].pts \in Int
  BY DEF Packets, Shaped, Timed, IntValued, Bound
<1>2. /\ q \in Packets /\ q.dts = p.dts + off /\ q.pts = p.pts + off /\ q.stream = s
      /\ q.dts \in Int /\ q.pts \in Int
  <2>1. q = Shifted(p, off)
    OBVIOUS
  <2> HIDE DEF off
  <2>2. /\ Shifted(p, off) \in Packets
        /\ Shifted(p, off).dts = p.dts + off /\ Shifted(p, off).pts = p.pts + off
        /\ Shifted(p, off).stream = p.stream
    BY <1>1, ShiftedPacket
  <2>3. q \in Packets /\ q.dts = p.dts + off /\ q.pts = p.pts + off /\ q.stream = s
    BY <2>1, <2>2
  <2> QED BY <2>3 DEF Packets
<1>3. /\ Shaped(d) /\ Stays(c, d)
      /\ d.queues = c.queues /\ d.pending = c.pending /\ d.offsets = c.offsets
      /\ t \in DOMAIN d.lastDts /\ d.lastDts[t] = q.dts
      /\ t \in DOMAIN d.maxPts
      /\ d.maxPts[t] # q.pts => t \in DOMAIN c.maxPts /\ d.maxPts[t] = c.maxPts[t]
      /\ \A u : u # t => /\ u \in DOMAIN d.lastDts <=> u \in DOMAIN c.lastDts
                         /\ u \in DOMAIN d.maxPts <=> u \in DOMAIN c.maxPts
      /\ \A u \in DOMAIN c.lastDts : u # t => d.lastDts[u] = c.lastDts[u]
      /\ \A u \in DOMAIN c.maxPts : u # t => d.maxPts[u] = c.maxPts[u]
  BY <1>2, NotedFields
<1>4. Passing(d) = Passing(c) /\ Flags(d) = Flags(c) /\ Queued(d) = Queued(c)
  BY <1>3, StaysControl DEF Queued
<1>5. p.dts <= top[s].dts /\ p.pts <= top[s].pts
  OBVIOUS
<1> HIDE DEF d
<1>6. Arranged(d, top)
  BY <1>3, <1>4 DEF Arranged
<1>7. ASSUME InEpoch(c, top) PROVE InEpoch(d, top)
  <2>1. \A r \in DOMAIN c.offsets : Timeline(r) = t => r = s
    BY DEF Arranged, OneEach
  <2>2. \A r \in DOMAIN c.offsets : r \in Streams
    BY DEF Arranged
  <2>3. ASSUME NEW r \in DOMAIN c.offsets, r # s
        PROVE  /\ Follows(d, r, top[r])
               /\ \A x : InFront(c, r, x) => InFront(d, r, x)
    <3>1. Timeline(r) # t /\ Follows(c, r, top[r])
      BY <1>7, <2>1, <2>3 DEF InEpoch
    <3> HIDE DEF t, s
    <3>2. /\ Timeline(r) \in DOMAIN d.lastDts <=> Timeline(r) \in DOMAIN c.lastDts
          /\ Timeline(r) \in DOMAIN d.maxPts <=> Timeline(r) \in DOMAIN c.maxPts
          /\ Timeline(r) \in DOMAIN c.lastDts => d.lastDts[Timeline(r)] = c.lastDts[Timeline(r)]
          /\ Timeline(r) \in DOMAIN c.maxPts => d.maxPts[Timeline(r)] = c.maxPts[Timeline(r)]
          /\ d.offsets[r] = c.offsets[r]
      BY <1>3, <3>1
    <3>3. Follows(d, r, top[r])
      BY <3>1, <3>2 DEF Follows
    <3>4. \A x : InFront(c, r, x) => InFront(d, r, x)
      BY <3>2 DEF InFront
    <3> QED BY <3>3, <3>4
  <2>4. t \in DOMAIN c.maxPts => c.maxPts[t] \in Int
    BY DEF Shaped, Timed, IntValued
  <2>5. d.lastDts[t] \in Int /\ d.maxPts[t] \in Int
    BY <1>3 DEF Shaped, Timed, IntValued
  <2>6. Follows(d, s, top[s])
    <3>1. Follows(c, s, top[s])
      BY <1>7 DEF InEpoch
    <3>2. t \in DOMAIN c.maxPts => c.maxPts[t] <= top[s].pts + off
      BY <3>1 DEF Follows
    <3> HIDE DEF t, s, off
    <3>3. d.lastDts[t] <= top[s].dts + off
      BY <1>1, <1>2, <1>3, <1>5
    <3>4. d.maxPts[t] <= top[s].pts + off
      <4>1. CASE d.maxPts[t] = q.pts
        BY <1>1, <1>2, <1>5, <4>1
      <4>2. CASE d.maxPts[t] # q.pts
        BY <1>3, <3>2, <4>2
      <4> QED BY <4>1, <4>2
    <3> QED BY <1>3, <3>3, <3>4 DEF Follows, t, s, off
  <2>7. ASSUME NEW x \in Packets, InFront(c, s, x), Precedes(p, x)
        PROVE  InFront(d, s, x)
    <3>1. x.dts \in Int /\ x.pts \in Int
      BY DEF Packets
    <3>2. /\ p.dts < x.dts /\ (x.key => p.pts < x.pts)
          /\ x.key /\ t \in DOMAIN c.maxPts => c.maxPts[t] < x.pts + off
      BY <2>7 DEF Precedes, InFront
    <3> HIDE DEF t, s, off
    <3>3. d.lastDts[t] < x.dts + off
      BY <1>1, <1>2, <1>3, <3>1, <3>2
    <3>4. x.key => d.maxPts[t] < x.pts + off
      <4> SUFFICES ASSUME x.key PROVE d.maxPts[t] < x.pts + off
        OBVIOUS
      <4>1. CASE d.maxPts[t] = q.pts
        BY <1>1, <1>2, <3>1, <3>2, <4>1
      <4>2. CASE d.maxPts[t] # q.pts
        BY <1>3, <3>2, <4>2
      <4> QED BY <4>1, <4>2
    <3> QED BY <1>3, <3>3, <3>4 DEF InFront, t, s, off
  <2>8. ASSUME NEW r \in DOMAIN c.offsets, NEW i \in DOMAIN c.queues[r]
        PROVE  InFront(d, r, c.queues[r][i])
    <3>1. InFront(c, r, c.queues[r][i]) /\ c.queues[r][i] \in Packets
      BY <1>7, <2>2, ShapedQueue DEF InEpoch
    <3>2. CASE r # s
      BY <2>3, <3>1, <3>2
    <3>3. CASE r = s
      BY <2>7, <3>1, <3>3
    <3> QED BY <3>2, <3>3
  <2>9. ASSUME NEW i \in DOMAIN c.pending, c.pending[i].stream \in DOMAIN c.offsets
        PROVE  InFront(d, c.pending[i].stream, c.pending[i])
    <3> DEFINE r == c.pending[i].stream
    <3>1. InFront(c, r, c.pending[i]) /\ c.pending[i] \in Packets
      <4>1. c.pending \in Seq(Packets)
        BY DEF Shaped
      <4>2. c.pending[i] \in Packets
        BY <4>1, LenProperties, ElementOfSeq
      <4> QED BY <1>7, <2>9, <4>2 DEF InEpoch
    <3>2. CASE r # s
      BY <2>3, <2>9, <3>1, <3>2
    <3>3. CASE r = s
      <4>1. Precedes(p, c.pending[i])
        BY <3>3
      <4> QED BY <2>7, <3>1, <3>3, <4>1
    <3> QED BY <3>2, <3>3
  <2>10. \A r \in DOMAIN c.offsets : Follows(d, r, top[r])
    BY <2>3, <2>6
  <2>11. d.state # "Filling" => Queued(d) \subseteq DOMAIN d.offsets
    BY <1>3, <1>4, <1>7 DEF InEpoch, Stays
  <2> QED BY <1>3, <2>8, <2>9, <2>10, <2>11 DEF InEpoch
<1> QED BY <1>6, <1>7 DEF d

\* What has been handed out so far, and the object: unless in error, it all goes on from
\* what was shown, every lane in its epoch if flow says so.
Going(c, top, packets, flow) ==
  /\ Shaped(c) /\ Arranged(c, top) /\ Horizons(c, <<>>) /\ packets \in Seq(Packets)
  /\ c.state # "Error" =>
       /\ Horizons(c, packets) /\ Ordered(packets)
       /\ flow => InEpoch(c, top) /\ LaneOrdered(packets)

\* What was shown alone is behind the horizons too, and nothing is in order.
LEMMA NothingOrdered ==
  /\ <<>> \in Seq(Packets) /\ Ordered(<<>>) /\ LaneOrdered(<<>>)
  /\ \A c, packets : Horizons(c, packets) => Horizons(c, <<>>)
<1>1. <<>> \in Seq(Packets) /\ DOMAIN <<>> = {}
  BY EmptySeq
<1>2. Ordered(<<>>) /\ LaneOrdered(<<>>)
  BY <1>1 DEF Ordered, LaneOrdered
<1>3. \A c, packets : Horizons(c, packets) => Horizons(c, <<>>)
  BY <1>1 DEF Horizons
<1> QED BY <1>1, <1>2, <1>3

\* A packet is handed out in order, or there is an error.
LEMMA EmitGoing ==
  ASSUME ShownOK, NEW c, NEW top \in [Streams -> Bound], NEW packets, NEW flow,
         Going(c, top, packets, flow), c.state # "Error",
         NEW p \in Packets, p.dts <= top[p.stream].dts, p.pts <= top[p.stream].pts,
         \A i \in DOMAIN c.queues[p.stream] : Precedes(p, c.queues[p.stream][i]),
         \A i \in DOMAIN c.pending : c.pending[i].stream = p.stream => Precedes(p, c.pending[i]),
         flow /\ p.stream \in DOMAIN c.offsets => InFront(c, p.stream, p)
  PROVE  LET r == Emit(c, p, packets)
         IN  /\ Going(r.core, top, r.out, flow)
             /\ r.more => Stays(c, r.core) /\ r.core.pending = c.pending
             /\ ~r.more => r.core.state = "Error"
<1> DEFINE q == Shifted(p, c.offsets[p.stream])
           r == Emit(c, p, packets)
<1>1. /\ Shaped(c) /\ Arranged(c, top) /\ Horizons(c, <<>>)
      /\ packets \in Seq(Packets) /\ Horizons(c, packets) /\ Ordered(packets)
      /\ flow => InEpoch(c, top) /\ LaneOrdered(packets)
  BY DEF Going
<1>2. CASE p.stream \notin DOMAIN c.offsets \/ Regresses(c, q)
  <2>1. r.core = EnterError(c) /\ r.more = FALSE /\ r.out = packets
    BY <1>2 DEF Emit, Result
  <2>2. /\ Shaped(EnterError(c)) /\ Arranged(EnterError(c), top)
        /\ EnterError(c).state = "Error" /\ Horizons(EnterError(c), <<>>)
    BY <1>1, ErrorOrdered
  <2> QED BY <1>1, <2>1, <2>2 DEF Going
<1>3. CASE ~(p.stream \notin DOMAIN c.offsets \/ Regresses(c, q))
  <2> DEFINE d == NoteOutput(c, q)
             all == Append(packets, q)
  <2>1. r.core = d /\ r.more = TRUE /\ r.out = all
    BY <1>3 DEF Emit, Result
  <2>2. /\ p.stream \in DOMAIN c.offsets /\ p.stream \in Streams
        /\ c.offsets[p.stream] \in Int
    BY <1>1, <1>3 DEF Packets, Shaped, Timed, IntValued
  <2>3. /\ q \in Packets /\ q.stream = p.stream /\ q.key = p.key
        /\ q.dts = p.dts + c.offsets[p.stream] /\ q.pts = p.pts + c.offsets[p.stream]
        /\ q.dts \in Int /\ q.pts \in Int
    <3>1. q \in Packets /\ q.stream = p.stream /\ q.key = p.key
          /\ q.dts = p.dts + c.offsets[p.stream] /\ q.pts = p.pts + c.offsets[p.stream]
      BY <2>2, ShiftedPacket
    <3> QED BY <3>1 DEF Packets
  <2>4. \A e \in c.emitted : e <= q.dts
    <3>1. \A e \in c.emitted : ~(q.dts < e) /\ e \in Int
      BY <1>1, <1>3 DEF Regresses, Shaped, Timed
    <3> HIDE DEF q
    <3> QED BY <2>3, <3>1
  <2>5. Arranged(d, top) /\ (InEpoch(c, top) => InEpoch(d, top))
    BY <1>1, <2>2, NotedOrdered
  <2> HIDE DEF q
  <2>6. /\ Shaped(d) /\ Stays(c, d) /\ d.pending = c.pending
    BY <1>1, <2>3, NotedFields
  <2> DEFINE t == Timeline(q.stream)
  <2>7. /\ all \in Seq(Packets) /\ Horizons(d, all) /\ Ordered(all)
        /\ /\ LaneOrdered(packets)
           /\ t \in DOMAIN c.lastDts => c.lastDts[t] < q.dts
           /\ q.key /\ t \in DOMAIN c.maxPts => c.maxPts[t] < q.pts
           => LaneOrdered(all)
    BY <1>1, <2>3, <2>4, AppendedOrdered
  <2>8. flow => LaneOrdered(all)
    <3> SUFFICES ASSUME flow PROVE LaneOrdered(all)
      OBVIOUS
    <3>1. InFront(c, p.stream, p) /\ LaneOrdered(packets)
      BY <1>1, <2>2
    <3>2. /\ t \in DOMAIN c.lastDts => c.lastDts[t] < q.dts
          /\ q.key /\ t \in DOMAIN c.maxPts => c.maxPts[t] < q.pts
      BY <2>3, <3>1 DEF InFront
    <3> QED BY <2>7, <3>1, <3>2
  <2>9. Horizons(d, <<>>)
    BY <2>7, NothingOrdered
  <2> HIDE DEF d, all, t
  <2>10. Going(d, top, all, flow)
    BY <1>1, <2>5, <2>6, <2>7, <2>8, <2>9 DEF Going
  <2> QED BY <2>1, <2>6, <2>10
<1> QED BY <1>2, <1>3

\* So does a packet that passes as it comes.
LEMMA PassFits ==
  ASSUME ShownOK, NEW c, NEW top \in [Streams -> Bound], NEW packets, NEW flow,
         Going(c, top, packets, flow), Passing(c), c.state # "Filling", c.pending = <<>>,
         NEW p \in Packets, top[p.stream].sent,
         p.dts <= top[p.stream].dts, p.pts <= top[p.stream].pts,
         flow /\ p.stream \in DOMAIN c.offsets => InFront(c, p.stream, p)
  PROVE  LET r == PassLive(c, p)
         IN  /\ Going(r.core, top, packets \o r.out, flow)
             /\ r.core.state # "Error" => Stays(c, r.core)
             /\ c.state = "Error" => r.core.state = "Error"
<1> DEFINE s == p.stream
           ready == PrepareStream(c, s)
           timed == CreateOffset(ready, p, 0)
           q == Shifted(p, timed.offsets[s])
           r == PassLive(c, p)
<1>1. /\ p \in Packets /\ s \in Streams /\ top \in [Streams -> Bound]
      /\ top[s].sent /\ p.dts \in Int /\ p.pts \in Int
      /\ p.dts <= top[s].dts /\ p.pts <= top[s].pts
  BY DEF Packets
<1>2. Shaped(c) /\ Arranged(c, top) /\ Horizons(c, <<>>) /\ Queued(c) = {}
  BY DEF Going, Arranged
<1>3. r.core = (IF Regresses(timed, q) THEN EnterError(timed) ELSE NoteOutput(timed, q))
      /\ r.out = <<q>>
  BY DEF PassLive
<1>4. /\ Shaped(ready) /\ Stays(c, ready) /\ Arranged(ready, top)
      /\ ready.queues = c.queues /\ ready.pending = c.pending
      /\ \A x : Horizons(c, x) => Horizons(ready, x)
      /\ InEpoch(c, top) => InEpoch(ready, top)
      /\ Less(c, ready)
      /\ \A x \in Queued(ready) \cup DOMAIN ready.offsets : Timeline(x) = Timeline(s) => x = s
  BY <1>1, <1>2, PrepareOrdered
<1> HIDE DEF ready, r
<1>5. flow /\ s \in DOMAIN ready.offsets => InFront(ready, s, p)
  BY <1>4 DEF Less, InFront
<1>6. /\ ready.state # "Filling" /\ ready.pending = <<>>
      /\ \A x \in DOMAIN ready.offsets : Timeline(x) = Timeline(s) => x = s
  BY <1>4 DEF Stays
<1>7. /\ Shaped(timed) /\ Stays(ready, timed) /\ Arranged(timed, top)
      /\ timed.queues = ready.queues /\ timed.pending = ready.pending
      /\ s \in DOMAIN timed.offsets
      /\ \A x : Horizons(ready, x) => Horizons(timed, x)
      /\ InEpoch(ready, top) /\ (s \in DOMAIN ready.offsets => InFront(ready, s, p))
         => InEpoch(timed, top) /\ InFront(timed, s, p)
  BY <1>1, <1>4, <1>5, <1>6, OffsetOrdered, SMTT(30)
<1> HIDE DEF timed
<1>8. Stays(c, timed) /\ timed.queues = c.queues /\ timed.pending = <<>> /\ Horizons(timed, <<>>)
  BY <1>2, <1>4, <1>6, <1>7 DEF Stays
<1>9. flow /\ InEpoch(c, top) => InEpoch(timed, top) /\ InFront(timed, s, p)
  BY <1>4, <1>5, <1>7
<1>10. c.state # "Error" =>
         /\ packets \in Seq(Packets) /\ Horizons(timed, packets) /\ Ordered(packets)
         /\ flow => /\ InEpoch(timed, top) /\ InFront(timed, s, p)
                    /\ LaneOrdered(packets)
  BY <1>4, <1>7, <1>9 DEF Going
<1>a. packets \o r.out \in Seq(Packets) /\ packets \o r.out = Append(packets, q)
  <2>1. timed.offsets[s] \in Int
    BY <1>7 DEF Shaped, Timed, IntValued
  <2>2. q \in Packets
    BY <1>1, <2>1, ShiftedPacket
  <2>3. packets \in Seq(Packets)
    BY DEF Going
  <2> HIDE DEF q
  <2> QED BY <1>3, <2>2, <2>3
<1>11. CASE Regresses(timed, q)
  <2>1. r.core = EnterError(timed)
    BY <1>3, <1>11
  <2>2. /\ Shaped(EnterError(timed)) /\ Arranged(EnterError(timed), top)
        /\ EnterError(timed).state = "Error" /\ Horizons(EnterError(timed), <<>>)
    BY <1>7, <1>8, ErrorOrdered
  <2> QED BY <1>a, <2>1, <2>2 DEF Going, r
<1>12. CASE ~Regresses(timed, q)
  <2> DEFINE d == NoteOutput(timed, q)
             all == Append(packets, q)
  <2>1. r.core = d
    BY <1>3, <1>12
  <2>2. timed.offsets[s] \in Int
    BY <1>7 DEF Shaped, Timed, IntValued
  <2>3. /\ q \in Packets /\ q.stream = s /\ q.key = p.key
        /\ q.dts = p.dts + timed.offsets[s] /\ q.pts = p.pts + timed.offsets[s]
        /\ q.dts \in Int /\ q.pts \in Int
    <3>1. q \in Packets /\ q.stream = s /\ q.key = p.key
          /\ q.dts = p.dts + timed.offsets[s] /\ q.pts = p.pts + timed.offsets[s]
      BY <1>1, <2>2, ShiftedPacket
    <3> QED BY <3>1 DEF Packets
  <2>4. \A e \in timed.emitted : e <= q.dts
    <3>1. \A e \in timed.emitted : ~(q.dts < e) /\ e \in Int
      BY <1>7, <1>12 DEF Regresses, Shaped, Timed
    <3> HIDE DEF q
    <3> QED BY <2>3, <3>1
  <2>5. Arranged(d, top) /\ (InEpoch(timed, top) => InEpoch(d, top))
    <3>1. timed.queues[s] = <<>> /\ timed.pending = <<>>
      BY <1>1, <1>2, <1>8 DEF Queued
    <3> QED BY <1>1, <1>7, <3>1, NotedOrdered
  <2> HIDE DEF q
  <2>6. Shaped(d) /\ Stays(timed, d)
    BY <1>7, <2>3, NotedFields
  <2>7. Horizons(d, <<>>)
    BY <1>7, <1>8, <2>3, <2>4, NotedHorizons, NothingOrdered
  <2> DEFINE t == Timeline(q.stream)
  <2>8. c.state # "Error" =>
          /\ all \in Seq(Packets) /\ Horizons(d, all) /\ Ordered(all)
          /\ flow => InEpoch(d, top) /\ LaneOrdered(all)
    <3> SUFFICES ASSUME c.state # "Error"
                 PROVE  /\ all \in Seq(Packets) /\ Horizons(d, all) /\ Ordered(all)
                        /\ flow => InEpoch(d, top) /\ LaneOrdered(all)
      OBVIOUS
    <3>1. /\ all \in Seq(Packets) /\ Horizons(d, all) /\ Ordered(all)
          /\ /\ LaneOrdered(packets)
             /\ t \in DOMAIN timed.lastDts => timed.lastDts[t] < q.dts
             /\ q.key /\ t \in DOMAIN timed.maxPts => timed.maxPts[t] < q.pts
             => LaneOrdered(all)
      BY <1>7, <1>10, <2>3, <2>4, AppendedOrdered
    <3>2. InFront(timed, s, p) => /\ t \in DOMAIN timed.lastDts => timed.lastDts[t] < q.dts
                                  /\ q.key /\ t \in DOMAIN timed.maxPts => timed.maxPts[t] < q.pts
      BY <2>3 DEF InFront
    <3> HIDE DEF t, all, d
    <3> QED BY <1>10, <2>5, <3>1, <3>2
  <2>9. packets \o r.out = all /\ packets \o r.out \in Seq(Packets)
    BY <1>a
  <2>10. d.state = c.state /\ Stays(c, d)
    BY <1>8, <2>6 DEF Stays
  <2> HIDE DEF d, all, t
  <2>11. Going(d, top, packets \o r.out, flow)
    BY <2>5, <2>6, <2>7, <2>8, <2>9, <2>10 DEF Going
  <2> QED BY <2>1, <2>10, <2>11 DEF r
<1> QED BY <1>11, <1>12


\* That is so for the packet that its stream sends next.
LEMMA PassGoing ==
  ASSUME ShownOK, NEW c, NEW p, NEW top, NEW new, Comes(p, top, new), NEW packets, NEW flow,
         Going(c, top, packets, flow), Passing(c), c.state # "Filling", c.pending = <<>>
  PROVE  LET r == PassLive(c, p)
         IN  /\ Going(r.core, new, packets \o r.out, flow)
             /\ r.core.state # "Error" => Stays(c, r.core)
             /\ c.state = "Error" => r.core.state = "Error"
<1>1. /\ p \in Packets /\ new \in [Streams -> Bound] /\ new[p.stream].sent
      /\ p.dts <= new[p.stream].dts /\ p.pts <= new[p.stream].pts
  BY DEF Comes, Packets
<1>2. Shaped(c) /\ Arranged(c, top) /\ Horizons(c, <<>>)
  BY DEF Going
<1>3. /\ Arranged(c, new)
      /\ InEpoch(c, top) =>
           InEpoch(c, new) /\ (p.stream \in DOMAIN c.offsets => InFront(c, p.stream, p))
  BY <1>2, ComesAfter
<1>4. CASE c.state # "Error"
  <2>1. Going(c, new, packets, flow)
    BY <1>3, <1>4 DEF Going
  <2>2. flow /\ p.stream \in DOMAIN c.offsets => InFront(c, p.stream, p)
    BY <1>3, <1>4 DEF Going
  <2> QED BY <1>1, <2>1, <2>2, PassFits
<1>5. CASE c.state = "Error"
  <2>1. Going(c, new, packets, FALSE)
    BY <1>2, <1>3, <1>5 DEF Going
  <2>2. LET r == PassLive(c, p)
        IN  Going(r.core, new, packets \o r.out, FALSE) /\ r.core.state = "Error"
    BY <1>1, <1>5, <2>1, PassFits
  <2> QED BY <1>5, <2>2 DEF Going
<1> QED BY <1>4, <1>5

\* The fields that neither pruning nor a packet that comes or goes changes.
Steady ==
  {"state", "committed", "preparingChange", "fromDelayed", "returnFromDelayed", "offsets",
   "lastDts", "maxPts", "emitted", "observed", "target", "pendingTarget", "previousTarget"}

\* An object that differs in what is buffered only, of which there is no more.
LEMMA LessShaped ==
  ASSUME NEW c, Shaped(c), NEW d, IsCore(d), \A x \in Steady : d[x] = c[x],
         d.queues \in [Streams -> Seq(Packets)], d.pending \in Seq(Packets),
         \A s \in Streams : PartOf(d.queues[s], c.queues[s]), PartOf(d.pending, c.pending)
  PROVE  Shaped(d) /\ Less(c, d) /\ Stays(c, d) /\ d.offsets = c.offsets /\ d.target = c.target
<1>1. /\ d.state = c.state /\ d.committed = c.committed
      /\ d.preparingChange = c.preparingChange /\ d.fromDelayed = c.fromDelayed
      /\ d.returnFromDelayed = c.returnFromDelayed /\ d.offsets = c.offsets
      /\ d.lastDts = c.lastDts /\ d.maxPts = c.maxPts /\ d.emitted = c.emitted
      /\ d.observed = c.observed /\ d.target = c.target
      /\ d.pendingTarget = c.pendingTarget /\ d.previousTarget = c.previousTarget
  BY DEF Steady
<1>2. Stays(c, d) /\ Less(c, d)
  BY <1>1 DEF Stays, Less
<1>3. Timed(d)
  BY <1>1 DEF Shaped, Timed
<1>4. ASSUME NEW s \in Streams, NEW i \in DOMAIN d.queues[s] PROVE d.queues[s][i].stream = s
  <2>1. c.queues[s] \in Seq(Packets) /\ d.queues[s] \in Seq(Packets)
    BY DEF Shaped
  <2>2. PICK j \in DOMAIN c.queues[s] : d.queues[s][i] = c.queues[s][j]
    BY <2>1, SectionRising
  <2> QED BY <2>2 DEF Shaped
<1>5. Shaped(d)
  BY <1>1, <1>3, <1>4 DEF Shaped
<1> QED BY <1>1, <1>2, <1>5

\* Such an object goes on as well as the one before.
LEMMA LessGoing ==
  ASSUME NEW c, NEW top, NEW packets, NEW flow, Going(c, top, packets, flow),
         NEW d, Shaped(d), Less(c, d), Stays(c, d), d.offsets = c.offsets
  PROVE  Going(d, top, packets, flow)
<1>1. Shaped(c) /\ Arranged(c, top) /\ Horizons(c, <<>>)
  BY DEF Going
<1>2. /\ Queued(d) \subseteq Queued(c)
      /\ \A x : Horizons(c, x) => Horizons(d, x)
  BY <1>1, LessOrdered
<1>3. Passing(d) = Passing(c) /\ Flags(d) = Flags(c) /\ d.state = c.state
  BY StaysControl DEF Stays
<1>4. (Passing(d) => Queued(d) = {}) /\ Flags(d)
  BY <1>1, <1>2, <1>3 DEF Arranged
<1>5. Arranged(d, top)
  BY <1>1, <1>4, LessOrdered
<1>6. InEpoch(c, top) => InEpoch(d, top)
  <2> SUFFICES ASSUME InEpoch(c, top) PROVE InEpoch(d, top)
    OBVIOUS
  <2>1. d.state # "Filling" => Queued(d) \subseteq DOMAIN d.offsets
    BY <1>2, <1>3 DEF InEpoch
  <2>2. DOMAIN c.offsets \subseteq Streams
    BY <1>1 DEF Arranged
  <2> QED BY <1>1, <2>1, <2>2, LessOrdered
<1> QED BY <1>1, <1>2, <1>3, <1>5, <1>6 DEF Going

\* Pruning takes packets away.
LEMMA PruneLess ==
  ASSUME NEW c, Shaped(c)
  PROVE  /\ Shaped(Prune(c)) /\ Less(c, Prune(c)) /\ Stays(c, Prune(c))
         /\ Prune(c).offsets = c.offsets /\ Prune(c).target = c.target
         /\ Prune(c).pending = c.pending
<1> DEFINE longest == IF c.state = "Filling" /\ c.fromDelayed
                      THEN Largest({c.target, c.previousTarget}) ELSE c.target
           starts(s) == {i \in DOMAIN c.queues[s] :
                          Due(c, c.queues[s][i], longest + Headroom) /\ Keeps(s, c.queues[s][i])}
           from == [s \in Streams |-> IF starts(s) = {} THEN 1 ELSE Largest(starts(s))]
           left == [s \in Streams |-> SubSeq(c.queues[s], from[s], Len(c.queues[s]))]
           lost == [s \in Streams |-> from[s] - 1]
           d == [c EXCEPT !.queues = left, !.buffered = @ - FoldFunction(+, 0, lost)]
<1>1. Prune(c) = d
  BY DEF Prune
<1>2. ASSUME NEW s \in Streams PROVE from[s] \in 1..(Len(c.queues[s]) + 1)
  <2>1. Len(c.queues[s]) \in Nat /\ DOMAIN c.queues[s] = 1..Len(c.queues[s])
    BY ShapedQueue
  <2>2. CASE starts(s) = {}
    <3>1. from[s] = 1
      BY <2>2
    <3>2. 1 \in 1..(Len(c.queues[s]) + 1)
      BY <2>1
    <3> HIDE DEF from
    <3> QED BY <3>1, <3>2
  <2>3. CASE starts(s) # {}
    <3> DEFINE S == starts(s)
    <3>1. S \in SUBSET (1..Len(c.queues[s])) /\ S \in SUBSET Int
      BY <2>1
    <3>2. IsFiniteSet(1..Len(c.queues[s]))
      <4>1. 1 \in Int /\ Len(c.queues[s]) \in Int
        BY <2>1
      <4> QED BY ONLY <4>1, FS_Interval
    <3>3. from[s] = Largest(S)
      BY <2>3
    <3> HIDE DEF S, from, starts
    <3>4. IsFiniteSet(S)
      BY <3>1, <3>2, FS_Subset
    <3>5. S # {}
      BY <2>3 DEF S
    <3>6. Largest(S) \in S
      BY <3>1, <3>4, <3>5, LargestOf
    <3>7. from[s] \in 1..Len(c.queues[s])
      BY <3>1, <3>3, <3>6
    <3> QED BY <2>1, <3>7
  <2> QED BY <2>2, <2>3
<1> HIDE DEF from
<1>3. ASSUME NEW s \in Streams
      PROVE  left[s] \in Seq(Packets) /\ PartOf(left[s], c.queues[s])
  <2>1. c.queues[s] \in Seq(Packets)
    BY DEF Shaped
  <2>2. left[s] = SubSeq(c.queues[s], from[s], Len(c.queues[s]))
    OBVIOUS
  <2> HIDE DEF left
  <2>3. left[s] \in Seq(Packets)
    BY <1>2, <2>1, <2>2, SuffixOf
  <2> QED BY <1>2, <2>1, <2>2, <2>3, Sections
<1>4. left \in [Streams -> Seq(Packets)]
  BY <1>3
<1>5. IsCore(c) /\ c.pending \in Seq(Packets)
  BY DEF Shaped
<1> HIDE DEF left, lost
<1>6. IsCore(d) /\ d.queues = left /\ \A x \in Fields \ {"queues", "buffered"} : d[x] = c[x]
  BY <1>5 DEF IsCore, Fields
<1> HIDE DEF d
<1>7. d.pending = c.pending /\ \A x \in Steady : d[x] = c[x]
  BY <1>6 DEF Fields, Steady
<1>8. PartOf(d.pending, c.pending)
  BY <1>5, <1>7, Sections
<1> QED BY <1>1, <1>3, <1>4, <1>5, <1>6, <1>7, <1>8, LessShaped

\* Looking at a keyframe changes nothing of that.
LEMMA ObserveLess ==
  ASSUME NEW c, Shaped(c), NEW p
  PROVE  /\ Shaped(ObserveKeyframe(c, p)) /\ Less(c, ObserveKeyframe(c, p))
         /\ Stays(c, ObserveKeyframe(c, p)) /\ ObserveKeyframe(c, p).offsets = c.offsets
         /\ ObserveKeyframe(c, p).pending = c.pending
<1> DEFINE d == [c EXCEPT !.returnKeys = With(@, p.stream, p.seq)]
<1>1. CASE ObserveKeyframe(c, p) = c
  <2>1. Less(c, c)
    BY AlikeLess DEF Alike
  <2> QED BY <1>1, <2>1 DEF Stays
<1>2. CASE ObserveKeyframe(c, p) = d
  <2>1. IsCore(c) /\ c.queues \in [Streams -> Seq(Packets)] /\ c.pending \in Seq(Packets)
    BY DEF Shaped
  <2>2. IsCore(d) /\ \A x \in Fields \ {"returnKeys"} : d[x] = c[x]
    BY <2>1 DEF IsCore, Fields
  <2> HIDE DEF d
  <2>3. d.queues = c.queues /\ d.pending = c.pending /\ \A x \in Steady : d[x] = c[x]
    BY <2>2 DEF Fields, Steady
  <2>4. PartOf(d.pending, c.pending) /\ \A s \in Streams : PartOf(d.queues[s], c.queues[s])
    BY <2>1, <2>3, Sections
  <2> QED BY <1>2, <2>1, <2>2, <2>3, <2>4, LessShaped
<1> QED BY <1>1, <1>2 DEF ObserveKeyframe

\* A packet that comes after all of its stream is appended to the queue of the stream.
LEMMA AppendGoing ==
  ASSUME NEW c, NEW top \in [Streams -> Bound], NEW packets, NEW flow,
         Going(c, top, packets, flow), ~Passing(c),
         NEW p \in Packets, top[p.stream].sent,
         p.dts <= top[p.stream].dts, p.pts <= top[p.stream].pts,
         \A i \in DOMAIN c.queues[p.stream] : Precedes(c.queues[p.stream][i], p),
         \A q \in Queued(c) : Timeline(q) = Timeline(p.stream) => q = p.stream,
         flow => /\ p.stream \in DOMAIN c.offsets => InFront(c, p.stream, p)
                 /\ c.state # "Filling" => p.stream \in DOMAIN c.offsets,
         NEW d, IsCore(d), Appended(c.queues, d.queues, p), d.pending = c.pending,
         \A x \in Steady : d[x] = c[x]
  PROVE  Going(d, top, packets, flow) /\ Stays(c, d)
<1> DEFINE s == p.stream
           n == Len(c.queues[s])
<1>1. Shaped(c) /\ Arranged(c, top) /\ Horizons(c, <<>>)
  BY DEF Going
<1>2. s \in Streams
  BY DEF Packets
<1>3. /\ c.queues[s] \in Seq(Packets) /\ n \in Nat /\ DOMAIN c.queues[s] = 1..n
      /\ c.queues \in [Streams -> Seq(Packets)] /\ c.pending \in Seq(Packets)
  BY <1>1, <1>2, ShapedQueue DEF Shaped
<1>4. /\ d.queues = [c.queues EXCEPT ![s] = Append(c.queues[s], p)]
  BY <1>3 DEF Appended
<1>5. /\ d.queues[s] = Append(c.queues[s], p) /\ DOMAIN d.queues = Streams
      /\ \A t \in Streams : t # s => d.queues[t] = c.queues[t]
      /\ d.queues \in [Streams -> Seq(Packets)]
  <2>1. Append(c.queues[s], p) \in Seq(Packets)
    BY <1>3, AppendProperties
  <2> QED BY <1>2, <1>3, <1>4, <2>1
<1>6. /\ DOMAIN d.queues[s] = 1..(n + 1) /\ d.queues[s][n + 1] = p
      /\ \A i \in 1..n : d.queues[s][i] = c.queues[s][i]
  BY <1>3, <1>5, AppendProperties
<1>7. \A i \in DOMAIN d.queues[s] :
        (i \in DOMAIN c.queues[s] /\ i < n + 1 /\ d.queues[s][i] = c.queues[s][i])
        \/ (i = n + 1 /\ d.queues[s][i] = p)
  BY <1>3, <1>6
<1>8. ~(n + 1 < n + 1) /\ \A i \in DOMAIN c.queues[s] : ~(n + 1 < i)
  BY <1>3
<1> HIDE DEF n, s
<1>9. /\ d.state = c.state /\ d.committed = c.committed
      /\ d.preparingChange = c.preparingChange /\ d.fromDelayed = c.fromDelayed
      /\ d.returnFromDelayed = c.returnFromDelayed /\ d.offsets = c.offsets
      /\ d.lastDts = c.lastDts /\ d.maxPts = c.maxPts /\ d.emitted = c.emitted
      /\ d.observed = c.observed /\ d.target = c.target
      /\ d.pendingTarget = c.pendingTarget /\ d.previousTarget = c.previousTarget
  BY DEF Steady
<1>10. Stays(c, d)
  BY <1>9 DEF Stays
<1>11. Passing(d) = Passing(c) /\ Flags(d) = Flags(c)
  BY <1>10, StaysControl
<1>12. Shaped(d)
  <2>1. Timed(d)
    BY <1>1, <1>9 DEF Shaped, Timed
  <2>2. ASSUME NEW t \in Streams, NEW i \in DOMAIN d.queues[t] PROVE d.queues[t][i].stream = t
    <3>1. CASE t = s
      <4>1. p.stream = s
        BY DEF s
      <4>2. \A j \in DOMAIN c.queues[s] : c.queues[s][j].stream = s
        BY <1>1, <1>2 DEF Shaped
      <4> QED BY <1>7, <2>2, <3>1, <4>1, <4>2
    <3>2. CASE t # s
      BY <1>1, <1>5, <2>2, <3>2 DEF Shaped
    <3> QED BY <3>1, <3>2
  <2> QED BY <1>1, <1>3, <1>5, <1>9, <2>1, <2>2 DEF Shaped
<1>13. Rising(d.queues[s], top[s])
  <2>1. Rising(c.queues[s], top[s])
    BY <1>1, <1>2 DEF Arranged
  <2>2. \A i, j \in DOMAIN d.queues[s] : i < j => Precedes(d.queues[s][i], d.queues[s][j])
    <3> SUFFICES ASSUME NEW i \in DOMAIN d.queues[s], NEW j \in DOMAIN d.queues[s], i < j
                 PROVE  Precedes(d.queues[s][i], d.queues[s][j])
      OBVIOUS
    <3>1. i \in DOMAIN c.queues[s] /\ d.queues[s][i] = c.queues[s][i]
      BY <1>7, <1>8
    <3>2. CASE j \in DOMAIN c.queues[s] /\ d.queues[s][j] = c.queues[s][j]
      BY <2>1, <3>1, <3>2 DEF Rising
    <3>3. CASE d.queues[s][j] = p
      BY <3>1, <3>3 DEF s
    <3> QED BY <1>7, <3>2, <3>3
  <2>3. \A i \in DOMAIN d.queues[s] :
          top[s].sent /\ d.queues[s][i].dts <= top[s].dts /\ d.queues[s][i].pts <= top[s].pts
    BY <1>7, <2>1 DEF Rising, s
  <2> QED BY <2>2, <2>3 DEF Rising
<1>14. \A q \in Queued(d) : q \in Queued(c) \/ q = s
  BY <1>5 DEF Queued
<1>15. Arranged(d, top)
  <2>1. \A t \in Streams : Rising(d.queues[t], top[t])
    BY <1>1, <1>5, <1>13 DEF Arranged
  <2>2. OneEach(Queued(d))
    <3>1. OneEach(Queued(c))
      BY <1>1 DEF Arranged
    <3> QED BY <1>14, <3>1 DEF OneEach, s
  <2> QED BY <1>1, <1>9, <1>11, <2>1, <2>2 DEF Arranged
<1>16. ASSUME flow, InEpoch(c, top) PROVE InEpoch(d, top)
  <2>1. /\ s \in DOMAIN c.offsets => InFront(c, s, p)
        /\ c.state # "Filling" => s \in DOMAIN c.offsets
    BY <1>16 DEF s
  <2>2. \A t \in DOMAIN d.offsets : t \in Streams /\ Follows(d, t, top[t])
    BY <1>1, <1>9, <1>16 DEF InEpoch, Follows, Arranged
  <2>3. ASSUME NEW t \in DOMAIN d.offsets, NEW i \in DOMAIN d.queues[t]
        PROVE  InFront(d, t, d.queues[t][i])
    <3>1. InFront(c, t, d.queues[t][i])
      <4>1. CASE t = s
        BY <1>7, <1>9, <1>16, <2>1, <2>3, <4>1 DEF InEpoch
      <4>2. CASE t # s
        BY <1>5, <1>9, <1>16, <2>2, <2>3, <4>2 DEF InEpoch
      <4> QED BY <4>1, <4>2
    <3> QED BY <1>9, <3>1 DEF InFront
  <2>4. ASSUME NEW i \in DOMAIN d.pending, d.pending[i].stream \in DOMAIN d.offsets
        PROVE  InFront(d, d.pending[i].stream, d.pending[i])
    <3>1. InFront(c, d.pending[i].stream, d.pending[i])
      BY <1>9, <1>16, <2>4 DEF InEpoch
    <3> QED BY <1>9, <3>1 DEF InFront
  <2>5. d.state # "Filling" => Queued(d) \subseteq DOMAIN d.offsets
    BY <1>9, <1>14, <1>16, <2>1 DEF InEpoch
  <2> QED BY <2>2, <2>3, <2>4, <2>5 DEF InEpoch
<1>17. \A x : Horizons(c, x) => Horizons(d, x)
  BY <1>9 DEF Horizons
<1>18. c.state # "Error"
  BY DEF Passing
<1>19. /\ packets \in Seq(Packets) /\ Horizons(c, packets) /\ Ordered(packets)
       /\ flow => InEpoch(c, top) /\ LaneOrdered(packets)
  BY <1>18 DEF Going
<1>20. Going(d, top, packets, flow)
  BY <1>1, <1>12, <1>15, <1>16, <1>17, <1>19 DEF Going
<1> QED BY <1>10, <1>20

\* A packet that is queued goes on from what its lane has queued and emitted, or there is
\* an error.
LEMMA EnqueueGoing ==
  ASSUME NEW c, NEW p, NEW top, NEW new, Comes(p, top, new), NEW packets, NEW flow,
         Going(c, top, packets, flow), ~Passing(c), c.pending = <<>>
  PROVE  LET e == Enqueue(c, p)
         IN  /\ Going(e, new, packets, flow)
             /\ e.state # "Error" => Stays(c, e) /\ e.pending = <<>>
<1> DEFINE s == p.stream
           ready == PrepareStream(c, s)
           timed == IF EpochActive(ready) THEN CreateOffset(ready, p, ready.target) ELSE ready
           room == IF timed.state = "Returning" THEN timed ELSE Prune(timed)
           dts == OrderingDts(timed, p)
           newest == IF s \in DOMAIN room.latest THEN Largest({room.latest[s], dts}) ELSE dts
           lanes == IF EpochActive(room) THEN room.active \cup {s} ELSE room.active
           longer == [room.queues EXCEPT ![s] = Append(@, p)]
           e == [room EXCEPT
                   !.queues[s] = Append(@, p), !.buffered = @ + 1,
                   !.latest = With(@, s, newest), !.seen = With(@, s, room.observed),
                   !.active = lanes]
<1>1. Enqueue(c, p) = IF ready.state = "Error" THEN ready
                      ELSE IF room.buffered >= MaxBuffered THEN EnterError(room) ELSE e
  BY DEF Enqueue
<1>2. /\ p \in Packets /\ s \in Streams /\ top \in [Streams -> Bound] /\ new \in [Streams -> Bound]
      /\ new[s].sent /\ p.dts \in Int /\ p.pts \in Int
      /\ p.dts <= new[s].dts /\ p.pts <= new[s].pts
  BY DEF Comes, Packets
<1>3. /\ Shaped(c) /\ Arranged(c, top) /\ Horizons(c, <<>>) /\ c.state # "Error"
  BY DEF Going, Passing
<1>4. /\ packets \in Seq(Packets) /\ Horizons(c, packets) /\ Ordered(packets)
      /\ flow => InEpoch(c, top) /\ LaneOrdered(packets)
  BY <1>3 DEF Going
<1>5. CASE ready = EnterError(c)
  <2>1. Shaped(ready) /\ Arranged(ready, top) /\ ready.state = "Error" /\ Horizons(ready, <<>>)
    BY <1>3, <1>5, ErrorOrdered
  <2> HIDE DEF ready
  <2>2. Arranged(ready, new)
    BY <2>1, ComesAfter
  <2>3. Enqueue(c, p) = ready
    BY <1>1, <2>1
  <2> QED BY <2>1, <2>2, <2>3 DEF Going
<1>6. CASE ready # EnterError(c)
  <2>1. /\ Shaped(ready) /\ Stays(c, ready) /\ Arranged(ready, top)
        /\ ready.queues = c.queues /\ ready.pending = c.pending
        /\ \A x : Horizons(c, x) => Horizons(ready, x)
        /\ InEpoch(c, top) => InEpoch(ready, top)
        /\ \A x \in Queued(ready) \cup DOMAIN ready.offsets : Timeline(x) = Timeline(s) => x = s
    BY <1>2, <1>3, <1>6, PrepareOrdered
  <2> HIDE DEF ready
  <2>2. /\ Arranged(ready, new)
        /\ \A i \in DOMAIN ready.queues[s] : Precedes(ready.queues[s][i], p)
        /\ InEpoch(ready, top) =>
             InEpoch(ready, new) /\ (s \in DOMAIN ready.offsets => InFront(ready, s, p))
    BY <2>1, ComesAfter
  <2>3. /\ ready.pending = <<>> /\ ready.state = c.state /\ ready.target \in Int
        /\ \A x \in DOMAIN ready.offsets : Timeline(x) = Timeline(s) => x = s
    BY <2>1 DEF Stays, Shaped, Timed
  <2>4. /\ Shaped(timed) /\ Stays(ready, timed) /\ Arranged(timed, new)
        /\ timed.queues = ready.queues /\ timed.pending = ready.pending
        /\ \A x : Horizons(ready, x) => Horizons(timed, x)
        /\ InEpoch(ready, new) /\ (s \in DOMAIN ready.offsets => InFront(ready, s, p))
           => InEpoch(timed, new) /\ (s \in DOMAIN timed.offsets => InFront(timed, s, p))
        /\ timed.state # "Filling" => s \in DOMAIN timed.offsets
    <3>1. CASE EpochActive(ready)
      <4>1. timed = CreateOffset(ready, p, ready.target)
        BY <3>1
      <4>2. ready.state # "Filling"
        BY <3>1 DEF EpochActive
      <4> HIDE DEF timed
      <4> QED BY <1>2, <2>1, <2>2, <2>3, <4>1, <4>2, OffsetOrdered
    <3>2. CASE ~EpochActive(ready)
      <4>1. timed = ready
        BY <3>2
      <4>2. timed.state = "Filling"
        <5>1. ready.state \in States /\ ~Passing(ready)
          BY <2>1, StaysControl DEF Shaped
        <5> QED BY <3>2, <4>1, <5>1 DEF EpochActive, Passing, States
      <4> HIDE DEF timed
      <4> QED BY <2>1, <2>2, <4>1, <4>2 DEF Stays
    <3> QED BY <3>1, <3>2
  <2> HIDE DEF timed
  <2>5. Going(timed, new, packets, flow) /\ Stays(c, timed) /\ timed.pending = <<>>
    <3>1. Stays(c, timed)
      BY <2>1, <2>4 DEF Stays
    <3> QED BY <1>3, <1>4, <2>1, <2>2, <2>3, <2>4, <3>1 DEF Going
  <2>6. flow => /\ s \in DOMAIN timed.offsets => InFront(timed, s, p)
                /\ timed.state # "Filling" => s \in DOMAIN timed.offsets
    BY <1>4, <2>1, <2>2, <2>4
  <2>7. /\ Shaped(room) /\ Less(timed, room) /\ Stays(timed, room)
        /\ room.offsets = timed.offsets /\ room.pending = timed.pending
    <3>1. CASE timed.state = "Returning"
      <4>1. room = timed
        BY <3>1
      <4>2. Less(timed, timed) /\ Stays(timed, timed)
        BY <2>4, AlikeLess DEF Alike, Stays
      <4> QED BY <2>4, <4>1, <4>2
    <3>2. CASE timed.state # "Returning"
      <4>1. room = Prune(timed)
        BY <3>2
      <4> HIDE DEF room
      <4> QED BY <2>4, <4>1, PruneLess
    <3> QED BY <3>1, <3>2
  <2> HIDE DEF room
  <2>8. Going(room, new, packets, flow) /\ Stays(c, room) /\ room.pending = <<>>
    <3>1. Stays(c, room)
      BY <2>5, <2>7 DEF Stays
    <3> QED BY <2>5, <2>7, <3>1, LessGoing
  <2>9. CASE room.buffered >= MaxBuffered
    <3>1. Enqueue(c, p) = EnterError(room)
      BY <1>1, <1>3, <2>3, <2>9
    <3>2. Shaped(room) /\ Arranged(room, new) /\ Horizons(room, <<>>)
      BY <2>8 DEF Going
    <3>3. /\ Shaped(EnterError(room)) /\ Arranged(EnterError(room), new)
          /\ EnterError(room).state = "Error" /\ Horizons(EnterError(room), <<>>)
      BY <3>2, ErrorOrdered
    <3> QED BY <3>1, <3>3 DEF Going
  <2>10. CASE ~(room.buffered >= MaxBuffered)
    <3>1. Enqueue(c, p) = e
      BY <1>1, <1>3, <2>3, <2>10
    <3> HIDE DEF newest, lanes
    <3>2. IsCore(room)
      BY <2>7 DEF Shaped
    <3>3. /\ IsCore(e) /\ e.queues = longer
          /\ \A x \in Fields \ {"queues", "buffered", "latest", "seen", "active"} : e[x] = room[x]
      BY <3>2 DEF IsCore, Fields
    <3>4. Appended(room.queues, longer, p)
      BY DEF Appended
    <3> HIDE DEF e, longer
    <3>5. e.pending = room.pending /\ (\A x \in Steady : e[x] = room[x])
          /\ Appended(room.queues, e.queues, p)
      BY <3>3, <3>4 DEF Fields, Steady
    <3>6. \A i \in DOMAIN room.queues[s] : Precedes(room.queues[s][i], p)
      <4>1. /\ room.queues[s] \in Seq(Packets) /\ timed.queues[s] \in Seq(Packets)
            /\ PartOf(room.queues[s], timed.queues[s])
        BY <1>2, <2>4, <2>7 DEF Shaped, Less
      <4>2. \A i \in DOMAIN room.queues[s] : \E j \in DOMAIN timed.queues[s] :
              room.queues[s][i] = timed.queues[s][j]
        BY <4>1, SectionRising
      <4> QED BY <2>2, <2>4, <4>2
    <3>7. \A q \in Queued(room) : Timeline(q) = Timeline(s) => q = s
      <4>1. Queued(room) \subseteq Queued(timed)
        BY <2>4, <2>7, LessOrdered
      <4> QED BY <2>1, <2>4, <4>1 DEF Queued
    <3>8. flow => /\ s \in DOMAIN room.offsets => InFront(room, s, p)
                  /\ room.state # "Filling" => s \in DOMAIN room.offsets
      <4>1. room.state = timed.state /\ room.lastDts = timed.lastDts /\ room.maxPts = timed.maxPts
        BY <2>7 DEF Stays, Less
      <4> QED BY <2>6, <2>7, <4>1 DEF InFront
    <3>9. ~Passing(room)
      BY <2>8, StaysControl
    <3>10. Going(e, new, packets, flow) /\ Stays(room, e)
      BY <1>2, <2>8, <3>3, <3>5, <3>6, <3>7, <3>8, <3>9, AppendGoing
    <3>11. Stays(c, e) /\ e.pending = <<>>
      BY <2>8, <3>5, <3>10 DEF Stays
    <3> QED BY <3>1, <3>10, <3>11
  <2> QED BY <2>9, <2>10
<1> QED BY <1>5, <1>6

\* What a drain of object c has come to: it goes on from what was shown, or is in error.
Continues(c, r, top, flow) ==
  /\ r = Result(r.core, r.out, r.more)
  /\ Going(r.core, top, r.out, flow)
  /\ r.more => r.core.state # "Error"
  /\ r.core.state # "Error" => Stays(c, r.core) /\ r.core.pending = <<>>

\* One round of the drain.
LEMMA DrainOneGoing ==
  ASSUME ShownOK, NEW c, NEW n, Sound(c, n), NEW top \in [Streams -> Bound], NEW packets,
         NEW flow, Going(c, top, packets, flow), c.state # "Error", c.pending = <<>>
  PROVE  Continues(c, DrainOne(c, packets), top, flow)
<1> DEFINE p == Earliest(c)
           returning == c.state = "Returning" /\ ~c.committed
           passed == IF returning /\ IsVideo(p.stream) /\ GoesLive(c, p)
                     THEN [c EXCEPT !.returnKeys = Without(@, {p.stream})] ELSE c
           taken == [passed EXCEPT !.queues[p.stream] = Tail(@), !.buffered = @ - 1]
<1>1. Shaped(c) /\ Arranged(c, top) /\ Horizons(c, <<>>) /\ Stays(c, c)
  BY DEF Going, Stays
<1>2. Continues(c, Result(c, packets, FALSE), top, flow)
  BY <1>1 DEF Continues, Result
<1>3. CASE ~(LiveLanes(c) \subseteq DOMAIN c.latest) \/ Candidates(c) = {}
  <2>1. DrainOne(c, packets) = Result(c, packets, FALSE)
    BY <1>3 DEF DrainOne
  <2> QED BY <1>2, <2>1
<1>4. CASE ~(~(LiveLanes(c) \subseteq DOMAIN c.latest) \/ Candidates(c) = {})
  <2>1. IsCore(c) /\ Timed(c) /\ Held(c) /\ Numbered(c.queues, n)
    BY DEF Sound
  <2>2. PICK s \in Streams : c.queues[s] # <<>> /\ p = c.queues[s][1]
    BY <1>4, <2>1, EarliestIsFirst
  <2>3. DrainOne(c, packets) \in {Result(c, packets, FALSE), Result(passed, packets, FALSE),
                                  Emit(taken, p, packets)}
    BY <1>4 DEF DrainOne
  <2> DEFINE q == c.queues[s]
  <2>4. /\ q \in Seq(Packets) /\ Len(q) \in Nat \ {0} /\ DOMAIN q = 1..Len(q)
        /\ 1 \in DOMAIN q /\ p = q[1] /\ p \in Packets /\ p.stream = s
    <3>1. /\ q \in Seq(Packets) /\ Len(q) \in Nat /\ DOMAIN q = 1..Len(q)
          /\ \A i \in DOMAIN q : q[i] \in Packets /\ q[i].stream = s
      BY <1>1, ShapedQueue
    <3>2. Len(q) # 0
      BY <2>2, <3>1, EmptySeq
    <3> HIDE DEF p, q
    <3>3. 1 \in DOMAIN q
      BY <3>1, <3>2
    <3>4. p = q[1]
      BY <2>2 DEF q
    <3> QED BY <3>1, <3>2, <3>3, <3>4
  <2> HIDE DEF p
  <2>5. /\ IsCore(passed) /\ \A x \in Fields \ {"returnKeys"} : passed[x] = c[x]
    BY <2>1 DEF IsCore, Fields
  <2> HIDE DEF passed
  <2>6. passed.queues = c.queues /\ passed.pending = c.pending
        /\ passed.buffered = c.buffered /\ \A x \in Steady : passed[x] = c[x]
    BY <2>5 DEF Fields, Steady
  <2>7. /\ c.queues \in [Streams -> Seq(Packets)] /\ c.pending \in Seq(Packets)
        /\ PartOf(c.pending, c.pending) /\ \A t \in Streams : PartOf(c.queues[t], c.queues[t])
    BY <1>1, Sections DEF Shaped
  <2>8. /\ Shaped(passed) /\ Less(c, passed) /\ Stays(c, passed) /\ passed.offsets = c.offsets
    BY <1>1, <2>5, <2>6, <2>7, LessShaped
  <2>9. Continues(c, Result(passed, packets, FALSE), top, flow)
    <3>1. Going(passed, top, packets, flow)
      BY <2>8, LessGoing
    <3> QED BY <2>6, <2>8, <3>1 DEF Continues, Result
  <2> DEFINE shorter == [c.queues EXCEPT ![s] = Tail(@)]
  <2>10. /\ IsCore(taken) /\ taken.queues = shorter
         /\ \A x \in Fields \ {"queues", "buffered"} : taken[x] = passed[x]
    BY <2>4, <2>5, <2>6 DEF IsCore, Fields
  <2>11. /\ shorter \in [Streams -> Seq(Packets)]
         /\ shorter[s] = SubSeq(q, 2, Len(q)) /\ \A t \in Streams : t # s => shorter[t] = c.queues[t]
    <3>1. c.queues \in [Streams -> Seq(Packets)] /\ c.queues[s] # <<>> /\ s \in Streams
      BY <2>2, <2>7
    <3> QED BY ONLY <3>1, TailQueues
  <2> HIDE DEF taken, shorter
  <2>12. taken.pending = <<>> /\ \A x \in Steady : taken[x] = c[x]
    BY <2>6, <2>10 DEF Fields, Steady
  <2>13. 2 \in 1..(Len(q) + 1)
    BY <2>4
  <2>14. \A t \in Streams : PartOf(shorter[t], c.queues[t])
    BY <2>4, <2>7, <2>11, <2>13, Sections
  <2>15. /\ Shaped(taken) /\ Less(c, taken) /\ Stays(c, taken) /\ taken.offsets = c.offsets
    BY <1>1, <2>7, <2>10, <2>11, <2>12, <2>14, LessShaped
  <2>16. Going(taken, top, packets, flow)
    BY <2>15, LessGoing
  <2>17. Rising(q, top[s])
    BY <1>1 DEF Arranged
  <2>18. p.dts <= top[p.stream].dts /\ p.pts <= top[p.stream].pts
    BY <2>4, <2>17 DEF Rising
  <2>19. \A i \in DOMAIN taken.queues[p.stream] : Precedes(p, taken.queues[p.stream][i])
    <3> DEFINE r == shorter[s]
    <3>1. taken.queues[p.stream] = r /\ r = SubSeq(q, 2, Len(q))
      BY <2>4, <2>10, <2>11
    <3> HIDE DEF q, r
    <3>2. /\ DOMAIN r = 1..Len(r) /\ Len(r) = Len(q) + 1 - 2
          /\ \A i \in DOMAIN r : 2 + i - 1 \in DOMAIN q /\ r[i] = q[2 + i - 1]
      BY <2>4, <2>13, <3>1, SuffixOf
    <3>3. \A i \in DOMAIN r : 1 < 2 + i - 1
      BY <2>4, <3>2
    <3>4. \A i \in DOMAIN r : Precedes(q[1], r[i])
      BY <2>4, <2>17, <3>2, <3>3 DEF Rising
    <3> QED BY <2>4, <3>1, <3>4
  <2>20. \A i \in DOMAIN taken.pending : taken.pending[i].stream = p.stream => Precedes(p, taken.pending[i])
    BY <2>12
  <2>21. flow /\ p.stream \in DOMAIN taken.offsets => InFront(taken, p.stream, p)
    <3> SUFFICES ASSUME flow, p.stream \in DOMAIN taken.offsets PROVE InFront(taken, p.stream, p)
      OBVIOUS
    <3>1. InEpoch(c, top)
      BY DEF Going
    <3>2. InFront(c, s, q[1])
      BY <2>4, <2>15, <3>1 DEF InEpoch
    <3>3. taken.lastDts = c.lastDts /\ taken.maxPts = c.maxPts
      BY <2>15 DEF Less
    <3> QED BY <2>4, <2>15, <3>2, <3>3 DEF InFront
  <2>22. taken.state # "Error"
    BY <2>15 DEF Stays
  <2>23. Continues(c, Emit(taken, p, packets), top, flow)
    <3> DEFINE r == Emit(taken, p, packets)
    <3>1. /\ Going(r.core, top, r.out, flow)
          /\ r.more => Stays(taken, r.core) /\ r.core.pending = taken.pending
          /\ ~r.more => r.core.state = "Error"
      <4>1. ShownOK /\ top \in [Streams -> Bound] /\ p \in Packets
        BY <2>4
      <4> QED BY ONLY <4>1, <2>16, <2>18, <2>19, <2>20, <2>21, <2>22, EmitGoing
    <3>2. r = Result(r.core, r.out, r.more)
      BY DEF Emit, Result
    <3> HIDE DEF r
    <3>3. r.more => Stays(c, r.core) /\ r.core.pending = <<>> /\ r.core.state # "Error"
      BY <2>12, <2>15, <2>22, <3>1 DEF Stays
    <3>4. Continues(c, r, top, flow)
      BY <3>1, <3>2, <3>3 DEF Continues
    <3> QED BY <3>4 DEF r
  <2> QED BY <1>2, <2>3, <2>9, <2>23
<1> QED BY <1>3, <1>4

\* The rounds of a drain.
LEMMA DrainReadyGoing ==
  ASSUME ShownOK, NEW c, NEW n, Sound(c, n), NEW top \in [Streams -> Bound],
         NEW flow, Going(c, top, <<>>, flow), c.state # "Error", c.pending = <<>>
  PROVE  Continues(c, DrainReady(c), top, flow)
<1> DEFINE N == c.buffered + 1
<1>1. N \in Nat
  BY BufferedTyped
<1>2. PICK f : RoundsOf(f, N, c) /\ DrainReady(c) = f[N]
  BY <1>1, DrainReadyUnfolds
<1> HIDE DEF N
<1> DEFINE Good(k) == Drained(f[k], n) /\ Continues(c, f[k], top, flow)
           Bad == {k \in Nat : k <= N /\ ~Good(k)}
<1>3. Good(0)
  <2>1. f[0] = Result(c, <<>>, TRUE)
    BY <1>2 DEF RoundsOf
  <2>2. Drained(Result(c, <<>>, TRUE), n)
    BY DEF Result, Drained
  <2>3. Continues(c, Result(c, <<>>, TRUE), top, flow)
    BY DEF Result, Continues, Stays
  <2> QED BY <2>1, <2>2, <2>3
<1>4. ASSUME NEW k \in 1..N, Good(k - 1) PROVE Good(k)
  <2> DEFINE r == f[k - 1]
  <2>1. Sound(r.core, n) /\ Drained(r, n) /\ Continues(c, r, top, flow)
    BY <1>4 DEF Drained
  <2>2. f[k] = IF r.more THEN DrainOne(r.core, r.out) ELSE r
    BY <1>2 DEF RoundsOf
  <2> HIDE DEF r
  <2>3. CASE ~r.more
    BY <2>1, <2>2, <2>3
  <2>4. CASE r.more
    <3>1. Drained(DrainOne(r.core, r.out), n)
      BY <2>1, DrainOneDrained
    <3>2. /\ Going(r.core, top, r.out, flow) /\ r.core.state # "Error"
          /\ Stays(c, r.core) /\ r.core.pending = <<>>
      BY <2>1, <2>4 DEF Continues
    <3>3. Continues(r.core, DrainOne(r.core, r.out), top, flow)
      BY <2>1, <3>2, DrainOneGoing
    <3>4. \A d : Stays(r.core, d) => Stays(c, d)
      BY <3>2 DEF Stays
    <3>5. Continues(c, DrainOne(r.core, r.out), top, flow)
      BY <3>3, <3>4 DEF Continues
    <3> QED BY <2>2, <2>4, <3>1, <3>5
  <2> QED BY <2>3, <2>4
<1> HIDE DEF Good
<1>5. Bad = {}
  <2> SUFFICES ASSUME Bad # {} PROVE FALSE
    OBVIOUS
  <2>1. PICK k \in Bad : \A m \in Bad : k <= m
    <3>1. Bad \in SUBSET Nat
      OBVIOUS
    <3> HIDE DEF Bad
    <3> QED BY <3>1, LeastNatural
  <2>2. k # 0
    BY <1>3
  <2>3. k \in 1..N /\ k - 1 \in Nat /\ k - 1 <= N /\ ~(k <= k - 1)
    BY <1>1, <2>2
  <2>4. Good(k - 1)
    BY <2>1, <2>3
  <2>5. Good(k)
    BY <1>4, <2>3, <2>4
  <2> QED BY <2>5
<1>6. Good(N)
  BY <1>1, <1>5
<1> QED BY <1>2, <1>6 DEF Good

\* What is left of a sequence without its first k elements.
RestOf(r, q, k) ==
  r \in Seq(Packets) /\ Len(r) = Len(q) - k /\ \A i \in DOMAIN r : r[i] = q[k + i]

\* What waits for the return is handed out in order, all of it, or there is an error.
LEMMA DrainPendingGoing ==
  ASSUME ShownOK, NEW c, NEW n, Sound(c, n), NEW top \in [Streams -> Bound],
         NEW flow, Going(c, top, <<>>, flow), c.state # "Error"
  PROVE  LET r == DrainPending(c)
         IN  /\ Going(r.core, top, r.out, flow) /\ r.core.pending = <<>>
             /\ r.core.state # "Error" => Stays(c, r.core)
<1> DEFINE q == c.pending
           N == Len(q)
           Step(r, i) == Emit([r.core EXCEPT !.pending = Tail(@), !.buffered = @ - 1], q[i], r.out)
<1>1. q \in Seq(Packets) /\ N \in Nat /\ DOMAIN q = 1..N /\ \A i \in 1..N : q[i] \in Packets
  <2>1. q \in Seq(Packets)
    BY DEF Sound, Held
  <2> QED BY <2>1, LenProperties, ElementOfSeq
<1>2. PICK f : PendingOf(f, c) /\ DrainPending(c) = f[N]
  BY <1>1, DrainPendingUnfolds
<1>3. f[0] = Result(c, <<>>, TRUE)
  BY <1>2 DEF PendingOf
<1>4. ASSUME NEW k \in 1..N
      PROVE  f[k] = IF f[k - 1].more THEN Step(f[k - 1], k) ELSE f[k - 1]
  BY <1>2 DEF PendingOf
<1>5. Arranged(c, top)
  BY DEF Going
<1>6. PendingRising(q, top)
  BY <1>5 DEF Arranged
<1> HIDE DEF N, q
<1> DEFINE Good(k) == /\ Going(f[k].core, top, f[k].out, flow)
                      /\ ~f[k].more => f[k].core.state = "Error"
                      /\ f[k].more => /\ f[k].core.state # "Error" /\ Stays(c, f[k].core)
                                      /\ RestOf(f[k].core.pending, q, k)
           Bad == {k \in Nat : k <= N /\ ~Good(k)}
<1>7. Good(0)
  <2>1. f[0].core = c /\ f[0].more = TRUE /\ f[0].out = <<>>
    BY <1>3 DEF Result
  <2>2. RestOf(q, q, 0)
    <3>1. \A i \in DOMAIN q : 0 + i = i
      BY <1>1
    <3>2. Len(q) = Len(q) - 0
      BY <1>1 DEF N
    <3> QED BY <1>1, <3>1, <3>2 DEF RestOf
  <2>3. Stays(c, c)
    BY DEF Stays
  <2> HIDE DEF Step
  <2>4. RestOf(f[0].core.pending, q, 0)
    BY <2>1, <2>2 DEF q
  <2> QED BY <2>1, <2>3, <2>4
<1>8. ASSUME NEW k \in 1..N, Good(k - 1) PROVE Good(k)
  <2> DEFINE r == f[k - 1]
  <2>1. CASE ~r.more
    <3>1. f[k] = r
      BY <1>4, <2>1
    <3> QED BY <1>8, <2>1, <3>1
  <2>2. CASE r.more
    <3> DEFINE e == r.core
               d == [e EXCEPT !.pending = Tail(@), !.buffered = @ - 1]
               p == q[k]
    <3>1. /\ Going(e, top, r.out, flow) /\ e.state # "Error"
          /\ Stays(c, e) /\ RestOf(e.pending, q, k - 1)
      BY <1>8, <2>2
    <3>2. f[k] = Emit(d, p, r.out)
      BY <1>4, <2>2
    <3>3. p \in Packets /\ k \in 1..N
      BY <1>1
    <3> HIDE DEF e, Good, Bad, Step
    <3>4. Shaped(e) /\ IsCore(e)
      BY <3>1 DEF Going, Shaped
    <3>5. /\ e.pending \in Seq(Packets) /\ Len(e.pending) = N - (k - 1) /\ e.pending # <<>>
          /\ \A i \in DOMAIN e.pending : e.pending[i] = q[(k - 1) + i]
      <4>1. /\ e.pending \in Seq(Packets) /\ Len(e.pending) = N - (k - 1)
            /\ \A i \in DOMAIN e.pending : e.pending[i] = q[(k - 1) + i]
        BY <3>1 DEF RestOf, N
      <4>2. e.pending # <<>>
        <5> SUFFICES ASSUME e.pending = <<>> PROVE FALSE
          OBVIOUS
        <5>1. Len(e.pending) = 0
          BY EmptySeq
        <5> QED BY <1>1, <3>3, <4>1, <5>1
      <4> QED BY <4>1, <4>2
    <3>6. IsCore(d) /\ d.pending = Tail(e.pending)
          /\ \A x \in Fields \ {"pending", "buffered"} : d[x] = e[x]
      BY <3>4 DEF IsCore, Fields
    <3> HIDE DEF d
    <3>7. /\ Tail(e.pending) \in Seq(Packets) /\ Len(Tail(e.pending)) = Len(e.pending) - 1
          /\ \A i \in 1..Len(Tail(e.pending)) : Tail(e.pending)[i] = e.pending[i + 1]
      BY <3>5, HeadTailProperties
    <3>8. /\ d.pending \in Seq(Packets) /\ Len(d.pending) = N - k
          /\ DOMAIN d.pending = 1..(N - k)
          /\ \A i \in DOMAIN d.pending : d.pending[i] = q[k + i]
      <4>1. d.pending \in Seq(Packets) /\ Len(d.pending) = N - k
        BY <1>1, <3>3, <3>5, <3>6, <3>7
      <4>2. DOMAIN d.pending = 1..(N - k) /\ DOMAIN e.pending = 1..(N - (k - 1))
        BY <3>5, <4>1, LenProperties
      <4>3. ASSUME NEW i \in 1..(N - k) PROVE d.pending[i] = q[k + i]
        <5>1. i + 1 \in 1..(N - (k - 1)) /\ (k - 1) + (i + 1) = k + i
          BY <1>1, <3>3
        <5>2. d.pending[i] = e.pending[i + 1]
          BY <3>6, <3>7, <4>1
        <5> QED BY <3>5, <4>2, <5>1, <5>2
      <4> QED BY <4>1, <4>2, <4>3
    <3>9. \A x \in Steady : d[x] = e[x]
      BY <3>6 DEF Fields, Steady
    <3>10. d.queues = e.queues
      BY <3>6 DEF Fields
    <3>11. PartOf(d.pending, e.pending) /\ \A s \in Streams : PartOf(d.queues[s], e.queues[s])
      BY <3>4, <3>5, <3>6, <3>10, Sections DEF Shaped
    <3>12. Shaped(d) /\ Less(e, d) /\ Stays(e, d) /\ d.offsets = e.offsets
      <4>1. d.queues \in [Streams -> Seq(Packets)]
        BY <3>4, <3>10 DEF Shaped
      <4> QED BY <3>4, <3>6, <3>8, <3>9, <3>11, <4>1, LessShaped
    <3>13. Going(d, top, r.out, flow)
      BY <3>1, <3>12, LessGoing
    <3>14. d.state # "Error" /\ Stays(c, d)
      BY <3>1, <3>12 DEF Stays
    <3>15. p.dts <= top[p.stream].dts /\ p.pts <= top[p.stream].pts
      BY <1>1, <1>6, <3>3 DEF PendingRising
    <3>16. \A i \in DOMAIN d.queues[p.stream] : Precedes(p, d.queues[p.stream][i])
      <4>1. d.queues[p.stream] = <<>>
        <5>1. p.stream \in Streams /\ Arranged(d, top)
          BY <3>3, <3>13 DEF Packets, Going
        <5>2. c.committed
          <6>1. c.pending # <<>>
            <7> SUFFICES ASSUME c.pending = <<>> PROVE FALSE
              OBVIOUS
            <7>1. Len(q) = 0
              BY EmptySeq DEF q
            <7> QED BY <1>1, <3>3, <7>1 DEF N
          <6> QED BY <6>1 DEF Sound, Held
        <5>3. Queued(d) = {}
          BY <3>14, <5>1, <5>2 DEF Stays, Arranged, Passing
        <5> QED BY <5>1, <5>3 DEF Queued
      <4> QED BY <4>1
    <3>17. \A i \in DOMAIN d.pending : d.pending[i].stream = p.stream => Precedes(p, d.pending[i])
      <4> SUFFICES ASSUME NEW i \in DOMAIN d.pending, d.pending[i].stream = p.stream
                   PROVE  Precedes(p, d.pending[i])
        OBVIOUS
      <4>1. k < k + i /\ k + i \in 1..N
        BY <1>1, <3>3, <3>8
      <4>2. d.pending[i] = q[k + i]
        BY <3>8
      <4> QED BY <1>1, <1>6, <3>3, <4>1, <4>2 DEF PendingRising
    <3>18. flow /\ p.stream \in DOMAIN d.offsets => InFront(d, p.stream, p)
      <4> SUFFICES ASSUME flow, p.stream \in DOMAIN d.offsets PROVE InFront(d, p.stream, p)
        OBVIOUS
      <4>1. InEpoch(e, top)
        BY <3>1 DEF Going
      <4>2. 1 \in DOMAIN e.pending /\ e.pending[1] = p
        <5>1. DOMAIN e.pending = 1..(N - (k - 1))
          BY <3>5, LenProperties
        <5>2. 1 \in 1..(N - (k - 1)) /\ (k - 1) + 1 = k
          BY <1>1, <3>3
        <5> QED BY <3>5, <5>1, <5>2
      <4>3. InFront(e, p.stream, p)
        BY <3>12, <4>1, <4>2 DEF InEpoch
      <4>4. d.lastDts = e.lastDts /\ d.maxPts = e.maxPts
        BY <3>12 DEF Less
      <4> QED BY <3>12, <4>3, <4>4 DEF InFront
    <3> HIDE DEF p
    <3> DEFINE out1 == r.out
    <3> HIDE DEF out1, r
    <3>19. Going(d, top, out1, flow) /\ f[k] = Emit(d, p, out1)
      BY <3>2, <3>13 DEF out1
    <3>20. LET x == Emit(d, p, out1)
           IN  /\ Going(x.core, top, x.out, flow)
               /\ x.more => Stays(d, x.core) /\ x.core.pending = d.pending
               /\ ~x.more => x.core.state = "Error"
      <4>1. ShownOK /\ top \in [Streams -> Bound] /\ p \in Packets /\ d.state # "Error"
        BY <3>3, <3>14
      <4> QED BY ONLY <4>1, <3>15, <3>16, <3>17, <3>18, <3>19, EmitGoing
    <3>21. f[k].more => Stays(c, f[k].core) /\ f[k].core.state # "Error"
      BY <3>14, <3>19, <3>20 DEF Stays
    <3>22. f[k].more => RestOf(f[k].core.pending, q, k)
      BY <3>8, <3>19, <3>20 DEF RestOf, N
    <3> QED BY <3>19, <3>20, <3>21, <3>22 DEF Good
  <2> QED BY <2>1, <2>2
<1>9. ASSUME NEW k \in 0..N PROVE Good(k)
  <2> HIDE DEF Good
  <2>1. Bad = {}
    <3> SUFFICES ASSUME Bad # {} PROVE FALSE
      OBVIOUS
    <3>1. PICK m \in Bad : \A j \in Bad : m <= j
      <4>1. Bad \in SUBSET Nat
        OBVIOUS
      <4> HIDE DEF Bad
      <4> QED BY <4>1, LeastNatural
    <3>2. m # 0
      BY <1>7
    <3>3. m \in 1..N /\ m - 1 \in Nat /\ m - 1 <= N /\ ~(m <= m - 1)
      BY <1>1, <3>2
    <3>4. Good(m - 1)
      BY <3>1, <3>3
    <3>5. Good(m)
      BY <1>8, <3>3, <3>4
    <3> QED BY <3>5
  <2>2. k \in Nat /\ k <= N
    BY <1>1
  <2> QED BY <2>1, <2>2
<1>10. Good(N)
  <2>1. N \in 0..N
    BY <1>1
  <2> HIDE DEF Good
  <2> QED BY <1>9, <2>1
<1>11. f[N].core.pending = <<>>
  <2>1. CASE f[N].more
    <3>1. RestOf(f[N].core.pending, q, N)
      BY <1>10, <2>1
    <3>2. f[N].core.pending \in Seq(Packets) /\ Len(f[N].core.pending) = 0
      BY <1>1, <3>1 DEF RestOf, N
    <3> QED BY <3>2, EmptySeq
  <2>2. CASE ~f[N].more
    <3>1. f[N].core.state = "Error"
      BY <1>10, <2>2
    <3>2. Held(f[N].core)
      BY <1>2, DrainPendingSound DEF Sound
    <3> QED BY <3>1, <3>2 DEF Held
  <2> QED BY <2>1, <2>2
<1>12. f[N].core.state # "Error" => Stays(c, f[N].core)
  BY <1>10
<1> QED BY <1>2, <1>10, <1>11, <1>12

\* Whether the object hands out nothing.
Silent(c) ==
  c.state = "Filling" \/ (c.state = "Returning" /\ ~c.committed /\ ~c.returnFromDelayed)

\* A packet that is pushed, whichever way it goes.
LEMMA PushedGoing ==
  ASSUME ShownOK, NEW c, NEW n \in Nat, Sound(c, n), NEW p, p.seq = n + 1,
         NEW top, NEW new, Comes(p, top, new), NEW flow, Going(c, top, <<>>, flow)
  PROVE  LET r == Pushed(c, p)
         IN  /\ Going(r.core, new, r.out, flow)
             /\ r.core.state # "Error" => Stays(c, r.core)
             /\ r.core.state # "Error" /\ Silent(c) => r.out = <<>>
<1> DEFINE kept == Enqueue(c, p)
           seen == ObserveKeyframe(kept, p)
           sent == DrainPending(c)
           live == PassLive(sent.core, p)
           drained == DrainReady(kept)
           Good(x) == Going(x.core, new, x.out, flow) /\ (x.core.state # "Error" => Stays(c, x.core))
<1>1. /\ p \in Packets /\ top \in [Streams -> Bound] /\ new \in [Streams -> Bound]
      /\ new[p.stream].sent /\ p.dts <= new[p.stream].dts /\ p.pts <= new[p.stream].pts
  BY DEF Comes, Packets
<1>2. /\ c.pending # <<>> => c.committed
      /\ c.committed => c.state = "Returning"
  BY DEF Sound, Held
<1>3. \A x : <<>> \o PassLive(x, p).out = PassLive(x, p).out
  BY DEF PassLive
<1>4. CASE c.state \in {"Bypass", "Error"} \/ (c.state = "Preparing" /\ ~c.preparingChange)
  <2>1. Pushed(c, p) = PassLive(c, p)
    BY <1>4 DEF Pushed
  <2>2. Passing(c) /\ c.state # "Filling" /\ c.pending = <<>>
    BY <1>2, <1>4 DEF Passing
  <2> QED BY <1>3, <1>4, <2>1, <2>2, PassGoing DEF Silent
<1>5. CASE ~(c.state \in {"Bypass", "Error"} \/ (c.state = "Preparing" /\ ~c.preparingChange))
           /\ c.committed
  <2>1. Pushed(c, p) = [core |-> live.core, out |-> sent.out \o live.out]
    BY <1>5 DEF Pushed
  <2>2. Pushed(c, p).core = live.core /\ Pushed(c, p).out = sent.out \o live.out
    <3>1. \A x, y, z : x = [core |-> y, out |-> z] => x.core = y /\ x.out = z
      OBVIOUS
    <3> HIDE DEF live, sent
    <3> QED BY <2>1, <3>1
  <2>3. /\ Going(sent.core, top, sent.out, flow) /\ sent.core.pending = <<>>
        /\ sent.core.state # "Error" => Stays(c, sent.core)
    BY <1>1, <1>5, DrainPendingGoing
  <2>4. Passing(sent.core) /\ sent.core.state # "Filling"
    BY <1>2, <1>5, <2>3 DEF Passing, Stays
  <2> HIDE DEF sent
  <2>5. /\ Going(live.core, new, sent.out \o live.out, flow)
        /\ live.core.state # "Error" => Stays(sent.core, live.core)
        /\ sent.core.state = "Error" => live.core.state = "Error"
    BY <2>3, <2>4, PassGoing
  <2> HIDE DEF live
  <2>6. live.core.state # "Error" => Stays(c, live.core)
    BY <2>3, <2>5 DEF Stays
  <2> QED BY <1>2, <1>5, <2>2, <2>5, <2>6 DEF Silent
<1>6. CASE ~(c.state \in {"Bypass", "Error"} \/ (c.state = "Preparing" /\ ~c.preparingChange))
           /\ ~c.committed
  <2>1. ~Passing(c) /\ c.pending = <<>> /\ c.state \in {"Filling", "Preparing", "Delayed", "Returning"}
    <3>1. c.state \in States
      BY DEF Sound, Held
    <3> QED BY <1>2, <1>6, <3>1 DEF Passing, States
  <2>2. /\ Going(kept, new, <<>>, flow)
        /\ kept.state # "Error" => Stays(c, kept) /\ kept.pending = <<>>
    BY <2>1, EnqueueGoing
  <2>3. CASE kept.state = "Error"
    <3>1. Pushed(c, p) = PassLive(kept, p)
      BY <1>6, <2>3 DEF Pushed
    <3>2. kept.pending = <<>>
      <4>1. \/ Sound(kept, n + 1) /\ kept.state = "Error"
            \/ Entered(kept, p, n) /\ kept.state = c.state
        BY <1>1, EnqueueSound
      <4>2. Sound(kept, n + 1)
        BY <2>1, <2>3, <4>1
      <4> HIDE DEF kept
      <4> QED BY <2>3, <4>2 DEF Sound, Held
    <3> HIDE DEF kept
    <3>3. Going(kept, new, <<>>, FALSE) /\ Passing(kept) /\ kept.state # "Filling"
      BY <2>2, <2>3 DEF Going, Passing
    <3>4. Going(Pushed(c, p).core, new, Pushed(c, p).out, FALSE) /\ Pushed(c, p).core.state = "Error"
      BY <1>1, <1>3, <2>3, <3>1, <3>2, <3>3, PassFits
    <3> QED BY <3>4 DEF Going
  <2>4. CASE kept.state # "Error"
    <3>1. Entered(kept, p, n) /\ Stays(c, kept) /\ kept.pending = <<>>
      BY <1>1, <2>2, <2>4, EnqueueSound
    <3>2. Shaped(kept) /\ kept.state = c.state
      BY <2>2, <3>1 DEF Going, Stays
    <3> HIDE DEF kept
    <3>3. \A x : Stays(kept, x) => Stays(c, x)
      BY <3>1 DEF Stays
    <3>4. ASSUME NEW d, Going(d, new, <<>>, flow), Stays(kept, d), d.pending = <<>>,
                 Sound(d, n + 1)
          PROVE  Continues(d, DrainReady(d), new, flow) /\ Good(DrainReady(d))
      <4>1. Continues(d, DrainReady(d), new, flow)
        <5>1. n + 1 \in Nat /\ d.state # "Error"
          BY <2>4, <3>4 DEF Stays
        <5> QED BY <1>1, <3>4, <5>1, DrainReadyGoing
      <4>2. \A x : Stays(d, x) => Stays(c, x)
        BY <3>3, <3>4 DEF Stays
      <4> QED BY <4>1, <4>2 DEF Continues
    <3>5. CASE c.state = "Filling"
      <4>1. Pushed(c, p) = Quiet(Prune(kept))
        BY <1>6, <2>4, <3>5 DEF Pushed, kept
      <4>2. Going(Prune(kept), new, <<>>, flow) /\ Stays(kept, Prune(kept))
        BY <2>2, <3>2, PruneLess, LessGoing
      <4> QED BY <3>3, <3>5, <4>1, <4>2 DEF Quiet
    <3>6. CASE c.state = "Preparing"
      <4>1. Pushed(c, p) = DrainReady(Prune(kept))
        BY <1>6, <2>4, <3>6 DEF Pushed, kept
      <4>2. /\ Going(Prune(kept), new, <<>>, flow) /\ Stays(kept, Prune(kept))
            /\ Prune(kept).pending = <<>>
        BY <2>2, <3>1, <3>2, PruneLess, LessGoing
      <4>3. Sound(Prune(kept), n + 1)
        <5>1. Sound(kept, n + 1) /\ n + 1 \in Nat
          BY <3>1, <3>2, <3>6, EnteredSound
        <5> QED BY <5>1, PruneSound
      <4> QED BY <3>4, <3>6, <4>1, <4>2, <4>3 DEF Silent
    <3>7. CASE c.state = "Delayed"
      <4>1. Pushed(c, p) = [drained EXCEPT !.core = IF @.state = "Delayed" THEN Prune(@) ELSE @]
        BY <1>6, <2>4, <3>7 DEF Pushed, kept
      <4>2. Sound(kept, n + 1)
        BY <3>1, <3>2, <3>7, EnteredSound
      <4>3. Stays(kept, kept)
        BY DEF Stays
      <4>4. Continues(kept, drained, new, flow) /\ Good(drained)
        BY <2>2, <3>1, <3>4, <4>2, <4>3
      <4> HIDE DEF drained
      <4>5. drained = Result(drained.core, drained.out, drained.more)
        BY <4>4 DEF Continues
      <4> DEFINE e == drained.core
                 g == IF e.state = "Delayed" THEN Prune(e) ELSE e
      <4>6. Pushed(c, p).core = g /\ Pushed(c, p).out = drained.out
        BY <4>1, <4>5 DEF Result
      <4>7. CASE e.state = "Delayed"
        <5>1. Shaped(e) /\ g = Prune(e)
          BY <4>4, <4>7 DEF Going
        <5>2. Going(g, new, drained.out, flow) /\ Stays(e, g)
          BY <4>4, <5>1, PruneLess, LessGoing
        <5>3. Stays(c, g)
          BY <4>4, <4>7, <5>2 DEF Stays
        <5> QED BY <3>7, <4>6, <5>2, <5>3 DEF Silent
      <4>8. CASE e.state # "Delayed"
        BY <3>7, <4>4, <4>6, <4>8 DEF Silent
      <4> QED BY <4>7, <4>8
    <3>8. CASE c.state = "Returning"
      <4>1. Pushed(c, p) = IF c.returnFromDelayed THEN DrainReady(seen) ELSE Quiet(seen)
        BY <1>6, <2>4, <3>8 DEF Pushed, kept
      <4>2. /\ Going(seen, new, <<>>, flow) /\ Stays(kept, seen) /\ seen.pending = <<>>
        BY <2>2, <3>1, <3>2, ObserveLess, LessGoing
      <4>3. Sound(seen, n + 1)
        BY <1>1, <3>1, ObserveSound
      <4> HIDE DEF seen
      <4>4. Good(DrainReady(seen))
        BY <3>4, <4>2, <4>3
      <4>5. Good(Quiet(seen))
        BY <3>3, <4>2 DEF Quiet
      <4>6. Quiet(seen).out = <<>>
        BY DEF Quiet
      <4> QED BY <3>8, <4>1, <4>4, <4>5, <4>6 DEF Silent
    <3> QED BY <2>1, <3>5, <3>6, <3>7, <3>8
  <2> QED BY <2>3, <2>4
<1> QED BY <1>4, <1>5, <1>6

\* A poll.
LEMMA PolledGoing ==
  ASSUME ShownOK, NEW c, NEW n \in Nat, Sound(c, n), NEW top \in [Streams -> Bound],
         NEW flow, Going(c, top, <<>>, flow)
  PROVE  LET r == Polled(c)
         IN  /\ Going(r.core, top, r.out, flow)
             /\ r.core.state # "Error" => Stays(c, r.core)
             /\ c.state = "Error" => r = Quiet(c)
             /\ r.core.state # "Error" /\ Silent(c) => r.out = <<>>
<1> DEFINE drained == DrainReady(c)
           Good(x) == Going(x.core, top, x.out, flow) /\ (x.core.state # "Error" => Stays(c, x.core))
<1>1. /\ c.pending # <<>> => c.committed
      /\ c.committed => c.state = "Returning"
  BY DEF Sound, Held
<1>2. Shaped(c) /\ Stays(c, c)
  BY DEF Going, Stays
<1>3. Good(Quiet(c))
  BY <1>2 DEF Quiet
<1>4. ASSUME c.state # "Error", ~c.committed
      PROVE  Continues(c, drained, top, flow) /\ Good(drained)
  <2>1. Continues(c, drained, top, flow)
    BY <1>1, <1>4, DrainReadyGoing
  <2> HIDE DEF drained
  <2> QED BY <2>1 DEF Continues
<1>5. CASE c.state = "Preparing"
  <2>1. Polled(c) = drained \/ Polled(c) = Quiet(c)
    BY <1>1, <1>5 DEF Polled
  <2>2. Good(drained)
    BY <1>1, <1>4, <1>5
  <2> HIDE DEF drained
  <2> QED BY <1>3, <1>5, <2>1, <2>2 DEF Silent
<1>6. CASE c.state = "Filling"
  <2>1. Polled(c) = Quiet(Prune(c))
    BY <1>1, <1>6 DEF Polled
  <2>2. Going(Prune(c), top, <<>>, flow) /\ Stays(c, Prune(c))
    BY <1>2, PruneLess, LessGoing
  <2> QED BY <1>6, <2>1, <2>2 DEF Quiet
<1>7. CASE c.state = "Delayed"
  <2>1. Polled(c) = [drained EXCEPT !.core = IF @.state = "Delayed" THEN Prune(@) ELSE @]
    BY <1>1, <1>7 DEF Polled
  <2>2. Continues(c, drained, top, flow) /\ Good(drained)
    BY <1>1, <1>4, <1>7
  <2> HIDE DEF drained
  <2>3. drained = Result(drained.core, drained.out, drained.more)
    BY <2>2 DEF Continues
  <2> DEFINE e == drained.core
             g == IF e.state = "Delayed" THEN Prune(e) ELSE e
  <2>4. Polled(c).core = g /\ Polled(c).out = drained.out
    BY <2>1, <2>3 DEF Result
  <2>5. CASE e.state = "Delayed"
    <3>1. Shaped(e) /\ g = Prune(e)
      BY <2>2, <2>5 DEF Going
    <3>2. Going(g, top, drained.out, flow) /\ Stays(e, g)
      BY <2>2, <3>1, PruneLess, LessGoing
    <3>3. Stays(c, g)
      BY <2>2, <2>5, <3>2 DEF Stays
    <3> QED BY <1>7, <2>4, <3>2, <3>3 DEF Silent
  <2>6. CASE e.state # "Delayed"
    BY <1>7, <2>2, <2>4, <2>6 DEF Silent
  <2> QED BY <2>5, <2>6
<1>8. CASE c.state = "Returning"
  <2>1. CASE c.committed
    <3>1. Polled(c) = DrainPending(c)
      BY <1>1, <1>8, <2>1 DEF Polled
    <3>2. c.state # "Error"
      BY <1>8
    <3> QED BY <1>8, <2>1, <3>1, <3>2, DrainPendingGoing DEF Silent
  <2>2. CASE ~c.committed
    <3>1. \/ Polled(c) = drained /\ c.returnFromDelayed
          \/ Polled(c) = Quiet(c)
      BY <1>8, <2>2 DEF Polled
    <3>2. Good(drained)
      BY <1>4, <1>8, <2>2
    <3> HIDE DEF drained
    <3>3. Quiet(c).out = <<>>
      BY DEF Quiet
    <3> QED BY <1>3, <1>8, <3>1, <3>2, <3>3 DEF Silent
  <2> QED BY <2>1, <2>2
<1>9. CASE c.state \in {"Bypass", "Error"}
  <2>1. Polled(c) = Quiet(c)
    BY <1>1, <1>9 DEF Polled
  <2> QED BY <1>3, <1>9, <2>1 DEF Silent
<1>10. c.state \in States
  BY DEF Sound, Held
<1> QED BY <1>5, <1>6, <1>7, <1>8, <1>9, <1>10 DEF States

\* With the offset of its stream, packet p comes after all that its lane has emitted.
Clear(c, p) ==
  LET t == Timeline(p.stream)
  IN  /\ t \in DOMAIN c.lastDts => c.lastDts[t] < p.dts + c.offsets[p.stream]
      /\ t \in DOMAIN c.maxPts => c.maxPts[t] < p.pts + c.offsets[p.stream]

\* The offset of a new epoch puts every packet that the epoch starts with behind its lane.
LEMMA NewEpochClear ==
  ASSUME NEW c, Shaped(c), NEW fronts \in SUBSET Packets, IsFiniteSet(fronts), fronts # {},
         NEW base \in Int
  PROVE  LET d == NewEpoch(c, fronts, base)
         IN  DOMAIN d.offsets = {p.stream : p \in fronts} /\ \A p \in fronts : Clear(d, p)
<1> DEFINE f == [p \in fronts |-> NewOffset(c, p, base)]
           S == {f[p] : p \in fronts}
           shift == Largest(S)
           lanes == {p.stream : p \in fronts}
           offsets == [s \in lanes |-> shift]
           d == [c EXCEPT !.offsets = offsets]
<1>1. NewEpoch(c, fronts, base) = d
  <2>1. S = {NewOffset(c, p, base) : p \in fronts}
    OBVIOUS
  <2> HIDE DEF S
  <2> QED BY <2>1 DEF NewEpoch
<1>2. IsCore(c) /\ Timed(c)
  BY DEF Shaped
<1>3. ASSUME NEW p \in fronts
      PROVE  LET t == Timeline(p.stream)
             IN  /\ f[p] \in Int /\ p.dts \in Int /\ p.pts \in Int
                 /\ t \in DOMAIN c.lastDts => c.lastDts[t] < p.dts + f[p]
                 /\ t \in DOMAIN c.maxPts => c.maxPts[t] < p.pts + f[p]
  <2>1. p.dts \in Int /\ p.pts \in Int
    BY DEF Packets
  <2>2. /\ NewOffset(c, p, base) \in Int
        /\ Timeline(p.stream) \in DOMAIN c.lastDts =>
             c.lastDts[Timeline(p.stream)] < p.dts + NewOffset(c, p, base)
        /\ Timeline(p.stream) \in DOMAIN c.maxPts =>
             c.maxPts[Timeline(p.stream)] < p.pts + NewOffset(c, p, base)
    BY <1>2, <2>1, NewOffsetFits
  <2>3. f[p] = NewOffset(c, p, base)
    OBVIOUS
  <2> HIDE DEF f
  <2> QED BY <2>1, <2>2, <2>3
<1> HIDE DEF f
<1>4. IsFiniteSet(S)
  <2> HIDE DEF S
  <2> QED BY ImageFinite DEF S
<1>5. S \in SUBSET Int /\ S # {} /\ \A p \in fronts : f[p] \in S
  BY <1>3
<1> HIDE DEF S
<1>6. shift \in Int /\ \A x \in S : shift >= x
  BY <1>4, <1>5, LargestOf
<1> HIDE DEF shift, lanes
<1>7. DOMAIN offsets = lanes /\ \A s \in lanes : offsets[s] = shift
  OBVIOUS
<1> HIDE DEF offsets
<1>8. IsCore(d) /\ d.offsets = offsets /\ \A x \in Fields \ {"offsets"} : d[x] = c[x]
  BY <1>2 DEF IsCore, Fields
<1> HIDE DEF d
<1>9. d.lastDts = c.lastDts /\ d.maxPts = c.maxPts
  BY <1>8 DEF Fields
<1>10. ASSUME NEW p \in fronts PROVE Clear(d, p)
  <2> DEFINE t == Timeline(p.stream)
  <2>1. p.stream \in lanes
    BY DEF lanes
  <2>2. d.offsets[p.stream] = shift /\ f[p] <= shift
    BY <1>3, <1>5, <1>6, <1>7, <1>8, <2>1
  <2>3. /\ t \in DOMAIN c.lastDts => c.lastDts[t] \in Int
        /\ t \in DOMAIN c.maxPts => c.maxPts[t] \in Int
    BY <1>2 DEF Timed, IntValued
  <2>4. /\ f[p] \in Int /\ p.dts \in Int /\ p.pts \in Int
        /\ t \in DOMAIN c.lastDts => c.lastDts[t] < p.dts + f[p]
        /\ t \in DOMAIN c.maxPts => c.maxPts[t] < p.pts + f[p]
    BY <1>3
  <2> HIDE DEF t
  <2>5. /\ t \in DOMAIN c.lastDts => c.lastDts[t] < p.dts + shift
        /\ t \in DOMAIN c.maxPts => c.maxPts[t] < p.pts + shift
    BY <1>6, <2>2, <2>3, <2>4
  <2> QED BY <1>9, <2>2, <2>5 DEF Clear, t
<1> QED BY <1>1, <1>7, <1>8, <1>10 DEF lanes

\* So are the packets of its stream after it, those that are still to come included.
LEMMA ClearRest ==
  ASSUME NEW d, Timed(d), NEW p \in Packets, p.stream \in DOMAIN d.offsets, Clear(d, p),
         NEW b \in Bound, p.dts <= b.dts, p.pts <= b.pts
  PROVE  /\ Follows(d, p.stream, b)
         /\ \A q \in Packets : q = p \/ Precedes(p, q) => InFront(d, p.stream, q)
<1> DEFINE s == p.stream
           t == Timeline(s)
           off == d.offsets[s]
<1>1. /\ off \in Int /\ p.dts \in Int /\ p.pts \in Int /\ b.dts \in Int /\ b.pts \in Int
      /\ t \in DOMAIN d.lastDts => d.lastDts[t] \in Int
      /\ t \in DOMAIN d.maxPts => d.maxPts[t] \in Int
  BY DEF Timed, IntValued, Packets, Bound
<1>2. /\ t \in DOMAIN d.lastDts => d.lastDts[t] < p.dts + off
      /\ t \in DOMAIN d.maxPts => d.maxPts[t] < p.pts + off
  BY DEF Clear
<1>3. Follows(d, s, b)
  <2> HIDE DEF off, t
  <2>1. /\ t \in DOMAIN d.lastDts => d.lastDts[t] <= b.dts + off
        /\ t \in DOMAIN d.maxPts => d.maxPts[t] <= b.pts + off
    BY <1>1, <1>2
  <2> QED BY <2>1 DEF Follows, t, off
<1>4. ASSUME NEW q \in Packets, q = p \/ Precedes(p, q) PROVE InFront(d, s, q)
  <2>1. q.dts \in Int /\ q.pts \in Int
    BY DEF Packets
  <2>2. p.dts <= q.dts /\ (q.key => p.pts <= q.pts)
    BY <1>1, <1>4, <2>1 DEF Precedes
  <2> HIDE DEF off, t
  <2>3. t \in DOMAIN d.lastDts => d.lastDts[t] < q.dts + off
    BY <1>1, <1>2, <2>1, <2>2
  <2>4. q.key /\ t \in DOMAIN d.maxPts => d.maxPts[t] < q.pts + off
    BY <1>1, <1>2, <2>1, <2>2
  <2> QED BY <2>3, <2>4 DEF InFront, t, off
<1> QED BY <1>3, <1>4

\* The delayed branch begins in an epoch that puts all its lanes behind the output.
LEMMA ApplyCutOrdered ==
  ASSUME NEW c, NEW n \in Nat, Sound(c, n), c.state = "Filling", CutReady(c),
         NEW top \in [Streams -> Bound], Arranged(c, top)
  PROVE  LET d == ApplyCut(c)
         IN  /\ Shaped(d) /\ Arranged(d, top) /\ InEpoch(d, top)
             /\ \A packets : Horizons(c, packets) => Horizons(d, packets)
<1> DEFINE d == ApplyCut(c)
<1>1. Shaped(c) /\ Shaped(d) /\ c.target \in Int /\ c.pending = <<>> /\ c.committed = FALSE
  <2>1. Sound(d, n)
    BY ApplyCutSound
  <2> HIDE DEF d
  <2>2. Shaped(c) /\ Shaped(d)
    BY <2>1, SoundShaped
  <2>3. c.target \in Int
    BY DEF Sound, Timed
  <2>4. c.committed = FALSE /\ c.pending = <<>>
    BY DEF Sound, Held
  <2> QED BY <2>2, <2>3, <2>4
<1>2. PICK cut, fronts, at : CutInto(c, d, cut, fronts, at)
  BY ApplyCutParts
<1> HIDE DEF d
<1> DEFINE e == NewEpoch(cut, fronts, c.target)
<1>3. /\ IsCore(cut) /\ Timed(cut) /\ \A x \in Fields \ {"queues", "buffered"} : cut[x] = c[x]
      /\ fronts \in SUBSET Packets /\ IsFiniteSet(fronts) /\ fronts # {}
      /\ fronts = {cut.queues[s][1] : s \in Cut(c)}
      /\ Shortened(c.queues, cut.queues, at)
  BY <1>2 DEF CutInto
<1>4. \A x \in Fields \ {"offsets"} : e[x] = cut[x]
  BY <1>1, <1>3, NewEpochSame
<1>5. \A x \in Fields \ {"latest", "active", "preparingChange", "fromDelayed", "pendingTarget",
                         "state"} : d[x] = e[x]
  BY <1>2 DEF CutInto
<1> HIDE DEF e
<1>6. /\ d.state = "Delayed" /\ d.preparingChange = FALSE /\ d.fromDelayed = FALSE
      /\ d.committed = FALSE
      /\ d.queues = cut.queues /\ d.offsets = e.offsets /\ d.pending = c.pending
      /\ d.lastDts = c.lastDts /\ d.maxPts = c.maxPts /\ d.emitted = c.emitted
      /\ cut.pending = c.pending /\ cut.state = c.state /\ cut.committed = c.committed
      /\ e.lastDts = c.lastDts /\ e.maxPts = c.maxPts
  BY <1>1, <1>2, <1>3, <1>4, <1>5 DEF CutInto, Fields
<1>7. Shaped(cut)
  BY <1>1, <1>3, <1>6 DEF Shaped
<1>8. /\ DOMAIN d.offsets = {p.stream : p \in fronts} /\ \A p \in fronts : Clear(d, p)
  <2>1. DOMAIN e.offsets = {p.stream : p \in fronts} /\ \A p \in fronts : Clear(e, p)
    BY <1>1, <1>3, <1>7, NewEpochClear DEF e
  <2> QED BY <1>6, <2>1 DEF Clear
<1>9. ASSUME NEW s \in Streams
      PROVE  /\ d.queues[s] \in Seq(Packets) /\ PartOf(d.queues[s], c.queues[s])
             /\ DOMAIN d.queues[s] = 1..Len(d.queues[s]) /\ Len(d.queues[s]) \in Nat
             /\ \A i \in DOMAIN d.queues[s] :
                  d.queues[s][i] \in Packets /\ d.queues[s][i].stream = s
             /\ s \in Cut(c) <=> d.queues[s] # <<>>
  <2>1. /\ d.queues[s] \in Seq(Packets) /\ Len(d.queues[s]) \in Nat
        /\ DOMAIN d.queues[s] = 1..Len(d.queues[s])
        /\ \A i \in DOMAIN d.queues[s] :
             d.queues[s][i] \in Packets /\ d.queues[s][i].stream = s
    BY <1>1, ShapedQueue
  <2>2. c.queues[s] \in Seq(Packets) /\ Len(c.queues[s]) \in Nat
    BY <1>1, ShapedQueue
  <2>3. at[s] \in 1..(Len(c.queues[s]) + 1) /\ at[s] \in Int
        /\ d.queues[s] = SubSeq(c.queues[s], at[s], Len(c.queues[s]))
    BY <1>3, <1>6, <2>2 DEF Shortened
  <2>4. PartOf(d.queues[s], c.queues[s])
    BY <2>2, <2>3, Sections
  <2>5. Len(d.queues[s]) = Len(c.queues[s]) + 1 - at[s]
    BY <2>2, <2>3, SuffixOf
  <2>6. IF s \in Cut(c) THEN at[s] \in 1..Len(c.queues[s]) ELSE at[s] = Len(c.queues[s]) + 1
    BY <1>2 DEF CutInto
  <2>7. s \in Cut(c) <=> Len(d.queues[s]) # 0
    BY <2>2, <2>3, <2>5, <2>6
  <2> QED BY <2>1, <2>4, <2>7, EmptySeq
<1>10. Queued(d) = Cut(c) /\ Queued(d) \subseteq Queued(c)
  <2>1. Cut(c) \subseteq Streams /\ Cut(c) \subseteq Queued(c)
    BY DEF Cut, Queued
  <2> QED BY <1>9, <2>1 DEF Queued
<1>11. ASSUME NEW s \in Cut(c)
       PROVE  /\ s \in Streams /\ 1 \in DOMAIN d.queues[s]
              /\ d.queues[s][1] \in Packets /\ d.queues[s][1].stream = s
              /\ d.queues[s][1] \in fronts
  <2>1. s \in Streams
    BY DEF Cut, Queued
  <2>2. Len(d.queues[s]) # 0
    BY <1>9, <2>1, EmptySeq
  <2>3. 1 \in DOMAIN d.queues[s]
    BY <1>9, <2>1, <2>2
  <2> QED BY <1>3, <1>6, <1>9, <2>1, <2>3
<1>12. DOMAIN d.offsets = Cut(c)
  <2>1. {p.stream : p \in fronts} = Cut(c)
    BY <1>3, <1>6, <1>11
  <2> QED BY <1>8, <2>1
<1>13. \A s \in Streams : Rising(d.queues[s], top[s])
  BY <1>1, <1>9, SectionRising, ShapedQueue DEF Arranged
<1>14. Arranged(d, top)
  <2>1. PendingRising(d.pending, top)
    BY <1>6 DEF Arranged
  <2>2. OneEach(Queued(d)) /\ OneEach(DOMAIN d.offsets)
    BY <1>10, <1>12 DEF Arranged, OneEach
  <2>3. \A s \in DOMAIN d.offsets : s \in Streams /\ top[s].sent
    BY <1>11, <1>12, <1>13 DEF Rising
  <2>4. ~Passing(d) /\ Flags(d)
    BY <1>6 DEF Passing, Flags
  <2> QED BY <1>13, <2>1, <2>2, <2>3, <2>4 DEF Arranged
<1>15. InEpoch(d, top)
  <2>1. ASSUME NEW s \in DOMAIN d.offsets
        PROVE  /\ Follows(d, s, top[s])
               /\ \A i \in DOMAIN d.queues[s] : InFront(d, s, d.queues[s][i])
    <3> DEFINE p == d.queues[s][1]
    <3>1. /\ s \in Streams /\ 1 \in DOMAIN d.queues[s] /\ p \in Packets /\ p.stream = s
          /\ Clear(d, p)
      BY <1>8, <1>11, <1>12
    <3>2. p.dts <= top[s].dts /\ p.pts <= top[s].pts /\ top[s] \in Bound
      BY <1>13, <3>1 DEF Rising
    <3>3. \A i \in DOMAIN d.queues[s] : d.queues[s][i] = p \/ Precedes(p, d.queues[s][i])
      <4> SUFFICES ASSUME NEW i \in DOMAIN d.queues[s]
                   PROVE  d.queues[s][i] = p \/ Precedes(p, d.queues[s][i])
        OBVIOUS
      <4>1. i = 1 \/ 1 < i
        BY <1>9, <3>1
      <4> QED BY <1>13, <3>1, <4>1 DEF Rising
    <3> HIDE DEF p
    <3>4. /\ Follows(d, s, top[s])
          /\ \A q \in Packets : q = p \/ Precedes(p, q) => InFront(d, s, q)
      <4>1. Timed(d)
        BY <1>1 DEF Shaped
      <4> QED BY <3>1, <3>2, <4>1, ClearRest
    <3> QED BY <1>9, <3>1, <3>3, <3>4
  <2>2. DOMAIN d.pending = {}
    BY <1>1, <1>6, EmptySeq
  <2> QED BY <1>10, <1>12, <2>1, <2>2 DEF InEpoch
<1>16. \A packets : Horizons(c, packets) => Horizons(d, packets)
  BY <1>6 DEF Horizons
<1> QED BY <1>1, <1>14, <1>15, <1>16 DEF d

\* What goes live does so lane by lane in the order it was sent, in an epoch that puts all
\* of it behind the output.
LEMMA CommitOrdered ==
  ASSUME NEW c, NEW n, Sound(c, n), c.state = "Returning",
         NEW top \in [Streams -> Bound], Arranged(c, top)
  PROVE  LET d == [BuildPending(c) EXCEPT !.committed = TRUE, !.returnFromDelayed = FALSE]
         IN  /\ Shaped(d) /\ Arranged(d, top) /\ InEpoch(d, top)
             /\ \A packets : Horizons(c, packets) => Horizons(d, packets)
<1> DEFINE d == [BuildPending(c) EXCEPT !.committed = TRUE, !.returnFromDelayed = FALSE]
           first(s) == c.queues[s][Least(Goes(c, s))]
<1>1. Shaped(c) /\ Shaped(d)
  <2>1. Sound(d, n)
    BY CommitSound
  <2> HIDE DEF d
  <2> QED BY <2>1, SoundShaped
<1>2. PICK epoch, fronts, all : LiveInto(c, d, epoch, fronts, all)
  BY CommitParts
<1> HIDE DEF d
<1>3. /\ IsCore(epoch) /\ Timed(epoch) /\ \A x \in Fields \ {"offsets"} : epoch[x] = c[x]
      /\ fronts \in SUBSET Packets /\ IsFiniteSet(fronts)
      /\ fronts = {first(s) : s \in GoLanes(c)}
      /\ IF GoLanes(c) = {} THEN epoch.offsets = <<>>
         ELSE fronts # {} /\ epoch = NewEpoch(c, fronts, 0)
      /\ all \in Seq(Packets) /\ InLine(epoch, all)
      /\ \A i \in DOMAIN all : all[i] \in GoPackets(c)
  BY <1>2 DEF LiveInto
<1>4. /\ d.pending = all /\ d.queues = NoQueues /\ d.state = "Returning"
      /\ d.offsets = epoch.offsets /\ d.lastDts = c.lastDts /\ d.maxPts = c.maxPts
      /\ d.emitted = c.emitted /\ d.preparingChange = c.preparingChange
      /\ d.fromDelayed = c.fromDelayed
      /\ epoch.lastDts = c.lastDts /\ epoch.maxPts = c.maxPts
  BY <1>2, <1>3 DEF LiveInto, Fields
<1>5. \A s \in Streams : NoQueues[s] = <<>> /\ DOMAIN NoQueues[s] = {}
  BY EmptySeq DEF NoQueues
<1>6. Queued(d) = {}
  BY <1>4, <1>5 DEF Queued
<1>7. ASSUME NEW s \in GoLanes(c)
      PROVE  /\ s \in Streams /\ s \in Queued(c) /\ Rising(c.queues[s], top[s])
             /\ DOMAIN c.queues[s] \in SUBSET Int /\ Goes(c, s) \in SUBSET DOMAIN c.queues[s]
             /\ \A i \in DOMAIN c.queues[s] :
                  c.queues[s][i] \in Packets /\ c.queues[s][i].stream = s
             /\ Least(Goes(c, s)) \in DOMAIN c.queues[s]
             /\ \A i \in Goes(c, s) : Least(Goes(c, s)) <= i
             /\ first(s) \in Packets /\ first(s).stream = s
  <2>1. s \in Streams /\ Goes(c, s) # {} /\ Goes(c, s) \in SUBSET DOMAIN c.queues[s]
    BY DEF GoLanes, Goes
  <2>2. /\ DOMAIN c.queues[s] = 1..Len(c.queues[s]) /\ Len(c.queues[s]) \in Nat
        /\ \A i \in DOMAIN c.queues[s] :
             c.queues[s][i] \in Packets /\ c.queues[s][i].stream = s
    BY <1>1, <2>1, ShapedQueue
  <2>3. /\ Least(Goes(c, s)) \in DOMAIN c.queues[s]
        /\ \A i \in Goes(c, s) : Least(Goes(c, s)) <= i
    BY <1>2 DEF LiveInto
  <2>4. s \in Queued(c)
    BY <2>1, <2>2, EmptySeq DEF Queued
  <2>5. DOMAIN c.queues[s] \in SUBSET Int
    BY <2>2
  <2> QED BY <2>1, <2>2, <2>3, <2>4, <2>5 DEF Arranged
<1> HIDE DEF first
<1>8. ASSUME NEW i \in DOMAIN all
      PROVE  \E s \in GoLanes(c) : \E k \in Goes(c, s) :
               all[i] = c.queues[s][k] /\ all[i] \in Packets /\ all[i].stream = s
  <2>1. PICK s \in GoLanes(c) : all[i] \in {c.queues[s][k] : k \in Goes(c, s)}
    BY <1>3 DEF GoPackets
  <2>2. PICK k \in Goes(c, s) : all[i] = c.queues[s][k]
    BY <2>1
  <2>3. all[i] \in Packets /\ all[i].stream = s
    BY <1>7, <2>2
  <2> QED BY <2>2, <2>3
<1>9. PendingRising(all, top)
  <2>1. ASSUME NEW i \in DOMAIN all
        PROVE  LET b == top[all[i].stream]
               IN  b.sent /\ all[i].dts <= b.dts /\ all[i].pts <= b.pts
    <3>1. PICK s \in GoLanes(c) : \E k \in Goes(c, s) :
            all[i] = c.queues[s][k] /\ all[i] \in Packets /\ all[i].stream = s
      BY <1>8
    <3>2. PICK k \in Goes(c, s) : all[i] = c.queues[s][k] /\ all[i].stream = s
      BY <3>1
    <3>3. k \in DOMAIN c.queues[s]
      BY <1>7
    <3> QED BY <1>7, <3>2, <3>3 DEF Rising
  <2>2. ASSUME NEW i \in DOMAIN all, NEW j \in DOMAIN all, i < j, all[i].stream = all[j].stream
        PROVE  Precedes(all[i], all[j])
    <3>1. PICK s \in GoLanes(c) : \E k \in Goes(c, s) :
            all[i] = c.queues[s][k] /\ all[i] \in Packets /\ all[i].stream = s
      BY <1>8
    <3>2. PICK k \in Goes(c, s) :
            all[i] = c.queues[s][k] /\ all[i] \in Packets /\ all[i].stream = s
      BY <3>1
    <3>3. \E l \in Goes(c, s) : all[j] = c.queues[s][l] /\ all[j] \in Packets
      BY <1>8, <2>2, <3>2
    <3>4. PICK l \in Goes(c, s) : all[j] = c.queues[s][l] /\ all[j] \in Packets
      BY <3>3
    <3>5. k \in DOMAIN c.queues[s] /\ l \in DOMAIN c.queues[s] /\ k \in Int /\ l \in Int
      BY <1>7
    <3>6. /\ all[i].dts \in Int /\ all[j].dts \in Int
          /\ all[i].seq \in Nat /\ all[j].seq \in Nat
      BY <3>2, <3>4 DEF Packets
    <3>7. \/ all[i].dts < all[j].dts
          \/ all[i].dts = all[j].dts /\ all[i].seq < all[j].seq
      <4> DEFINE off == IF s \in DOMAIN epoch.offsets THEN epoch.offsets[s] ELSE 0
      <4>1. off \in Int
        BY <1>3 DEF Timed, IntValued
      <4>2. /\ OrderingDts(epoch, all[i]) = all[i].dts + off
            /\ OrderingDts(epoch, all[j]) = all[j].dts + off
        BY <2>2, <3>2 DEF OrderingDts
      <4> HIDE DEF off
      <4>3. \/ OrderingDts(epoch, all[i]) < OrderingDts(epoch, all[j])
            \/ OrderingDts(epoch, all[i]) = OrderingDts(epoch, all[j]) /\ all[i].seq < all[j].seq
        BY <1>3, <2>2 DEF InLine
      <4> QED BY <3>6, <4>1, <4>2, <4>3
    <3>8. k # l
      BY <3>2, <3>4, <3>6, <3>7
    <3>9. ~(l < k)
      <4> SUFFICES ASSUME l < k PROVE FALSE
        OBVIOUS
      <4>1. Precedes(c.queues[s][l], c.queues[s][k])
        BY <1>7, <3>5 DEF Rising
      <4>2. all[j].dts < all[i].dts
        BY <3>2, <3>4, <4>1 DEF Precedes
      <4> QED BY <3>6, <3>7, <4>2
    <3>10. k < l
      BY <3>5, <3>8, <3>9
    <3>11. Precedes(c.queues[s][k], c.queues[s][l])
      BY <1>7, <3>5, <3>10 DEF Rising
    <3> QED BY <3>2, <3>4, <3>11
  <2> QED BY <2>1, <2>2 DEF PendingRising
<1>10. DOMAIN d.offsets = GoLanes(c) /\ \A p \in fronts : Clear(d, p)
  <2>1. CASE GoLanes(c) = {}
    <3>1. DOMAIN d.offsets = {}
      BY <1>3, <1>4, <2>1, EmptySeq
    <3>2. fronts = {}
      BY <1>3, <2>1
    <3> QED BY <2>1, <3>1, <3>2
  <2>2. CASE GoLanes(c) # {}
    <3>1. 0 \in Int /\ epoch = NewEpoch(c, fronts, 0) /\ fronts # {}
      BY <1>3, <2>2
    <3>2. DOMAIN epoch.offsets = {p.stream : p \in fronts} /\ \A p \in fronts : Clear(epoch, p)
      BY <1>1, <1>3, <3>1, NewEpochClear
    <3>3. {p.stream : p \in fronts} = GoLanes(c)
      BY <1>3, <1>7
    <3> QED BY <1>4, <3>2, <3>3 DEF Clear
  <2> QED BY <2>1, <2>2
<1>11. ASSUME NEW s \in GoLanes(c)
       PROVE  /\ top[s].sent /\ Follows(d, s, top[s])
              /\ \A k \in Goes(c, s) : InFront(d, s, c.queues[s][k])
  <2> DEFINE p == first(s)
  <2>1. /\ p \in Packets /\ p.stream = s /\ Clear(d, p) /\ p.stream \in DOMAIN d.offsets
        /\ p = c.queues[s][Least(Goes(c, s))]
    BY <1>3, <1>7, <1>10 DEF first
  <2>2. top[s].sent /\ p.dts <= top[s].dts /\ p.pts <= top[s].pts /\ top[s] \in Bound
    BY <1>7, <2>1 DEF Rising
  <2>3. ASSUME NEW k \in Goes(c, s) PROVE c.queues[s][k] = p \/ Precedes(p, c.queues[s][k])
    <3> DEFINE m == Least(Goes(c, s))
    <3>1. m \in Int /\ k \in Int /\ m <= k /\ k \in DOMAIN c.queues[s] /\ m \in DOMAIN c.queues[s]
          /\ Rising(c.queues[s], top[s])
      BY <1>7
    <3> HIDE DEF m
    <3>2. k = m \/ m < k
      BY <3>1
    <3>3. c.queues[s][k] = c.queues[s][m] \/ Precedes(c.queues[s][m], c.queues[s][k])
      BY <3>1, <3>2 DEF Rising
    <3> QED BY <2>1, <3>3 DEF m
  <2> HIDE DEF p
  <2>4. /\ Follows(d, s, top[s])
        /\ \A q \in Packets : q = p \/ Precedes(p, q) => InFront(d, s, q)
    <3>1. Timed(d)
      BY <1>1 DEF Shaped
    <3> QED BY <2>1, <2>2, <3>1, ClearRest
  <2>5. \A k \in Goes(c, s) : c.queues[s][k] \in Packets
    BY <1>7
  <2> QED BY <2>2, <2>3, <2>4, <2>5
<1>12. Arranged(d, top)
  <2>1. \A s \in Streams : Rising(d.queues[s], top[s])
    BY <1>4, <1>5 DEF Rising
  <2>2. OneEach(Queued(d)) /\ OneEach(DOMAIN d.offsets)
    BY <1>6, <1>7, <1>10 DEF Arranged, OneEach
  <2>3. \A s \in DOMAIN d.offsets : s \in Streams /\ top[s].sent
    BY <1>7, <1>10, <1>11
  <2>4. Flags(d)
    BY <1>4 DEF Arranged, Flags
  <2> QED BY <1>4, <1>6, <1>9, <2>1, <2>2, <2>3, <2>4 DEF Arranged
<1>13. InEpoch(d, top)
  <2>1. ASSUME NEW s \in DOMAIN d.offsets
        PROVE  /\ Follows(d, s, top[s])
               /\ \A i \in DOMAIN d.queues[s] : InFront(d, s, d.queues[s][i])
    <3>1. DOMAIN d.queues[s] = {}
      BY <1>4, <1>5, <1>7, <1>10
    <3> QED BY <1>10, <1>11, <3>1
  <2>2. ASSUME NEW i \in DOMAIN d.pending
        PROVE  InFront(d, d.pending[i].stream, d.pending[i])
    <3>1. i \in DOMAIN all /\ d.pending[i] = all[i]
      BY <1>4
    <3>2. PICK s \in GoLanes(c) : \E k \in Goes(c, s) :
            all[i] = c.queues[s][k] /\ all[i] \in Packets /\ all[i].stream = s
      BY <1>8, <3>1
    <3> QED BY <1>11, <3>1, <3>2
  <2> QED BY <1>6, <2>1, <2>2 DEF InEpoch
<1>14. \A packets : Horizons(c, packets) => Horizons(d, packets)
  BY <1>4 DEF Horizons
<1> QED BY <1>1, <1>12, <1>13, <1>14 DEF d

\* How the history goes on, packet by packet.
ShowsOf(f, packets, state) ==
  /\ f[0] = shown
  /\ \A k \in 1..Len(packets) : f[k] = Marked(f[k - 1], packets[k], state)

\* What is shown after packets is just that.
LEMMA ShowsUnfolds ==
  ASSUME NEW S, NEW packets \in Seq(S), NEW state
  PROVE  \E f : ShowsOf(f, packets, state) /\ Shows(packets, state) = f[Len(packets)]
<1> DEFINE N == Len(packets)
           data == [packets |-> packets, state |-> state]
           Folded(iter) ==
             iter = [T \in SUBSET (1..N) |->
                       IF T = {} THEN shown
                       ELSE Marked(iter[T \ {Max(T)}], packets[Max(T)], state)]
           fold == CHOOSE iter : Folded(iter)
<1>1. N \in Nat /\ DOMAIN packets = 1..N
  BY LenProperties
<1>2. IsFiniteSet(1..N) /\ \A T \in SUBSET (1..N) : T # {} => Taken("shows", T) \in T
  <2> HIDE DEF N
  <2>1. 1 \in Int /\ N \in Int
    BY <1>1
  <2>2. IsFiniteSet(1..N)
    BY ONLY <2>1, FS_Interval
  <2> QED BY <1>1, <2>2, MaxOfPrefix DEF Taken
<1>3. Shows(packets, state) = fold[1..N]
  <2>1. Shows(packets, state) =
          (CHOOSE iter : iter = [T \in SUBSET DOMAIN packets |->
             IF T = {} THEN shown
             ELSE Marked(iter[T \ {Max(T)}], packets[Max(T)], state)])
          [DOMAIN packets]
    BY DEF Shows, Marked, FoldLeft, MapThenFoldSet
  <2> QED BY <1>1, <2>1
<1>4. Folded(fold)
  <2>1. PICK g : IsFold("shows", data, shown, g, 1..N)
    <3> HIDE DEF N, data
    <3> QED BY <1>2, FoldExists
  <2>2. data.packets = packets /\ data.state = state
    OBVIOUS
  <2> HIDE DEF N, data
  <2>3. Folded(g)
    BY <2>1, <2>2 DEF IsFold, Layer, Joined, Taken
  <2> QED BY <2>3
<1> HIDE DEF fold, N
<1>5. fold[{}] = shown
  BY <1>4
<1>6. ASSUME NEW k \in 1..N
      PROVE  fold[1..k] = Marked(fold[1..(k - 1)], packets[k], state)
  <2>1. k \in Nat /\ k > 0
    BY <1>1
  <2>2. (1..k) \ {Max(1..k)} = 1..(k - 1) /\ Max(1..k) = k
    BY <2>1, MaxOfPrefix
  <2>3. 1..k \in SUBSET (1..N) /\ 1..k # {}
    BY <1>1, <2>1
  <2>4. ASSUME NEW T \in SUBSET (1..N), T # {}
        PROVE  fold[T] = Marked(fold[T \ {Max(T)}], packets[Max(T)], state)
    BY <1>4, <2>4
  <2>5. fold[1..k] = Marked(fold[(1..k) \ {Max(1..k)}], packets[Max(1..k)], state)
    <3> HIDE DEF Folded
    <3> QED BY <2>3, <2>4
  <2> QED BY ONLY <2>2, <2>5
<1> DEFINE f == [k \in 0..N |-> fold[1..k]]
<1>7. f[0] = shown /\ f[N] = fold[1..N]
  <2>1. 1..0 = {} /\ 0 \in 0..N /\ N \in 0..N
    BY <1>1
  <2>2. f[0] = fold[1..0]
    BY <2>1
  <2> QED BY <1>5, <2>1, <2>2
<1>8. ASSUME NEW k \in 1..N PROVE f[k] = Marked(f[k - 1], packets[k], state)
  <2>1. k \in 0..N /\ k - 1 \in 0..N
    BY <1>1
  <2>2. f[k] = fold[1..k] /\ f[k - 1] = fold[1..(k - 1)]
    BY <2>1
  <2> HIDE DEF f
  <2> QED BY <1>6, <2>2
<1> HIDE DEF f
<1>9. ShowsOf(f, packets, state)
  BY <1>7, <1>8 DEF ShowsOf, N
<1>10. Shows(packets, state) = f[N]
  BY <1>3, <1>7
<1> QED BY <1>9, <1>10 DEF N

\* A history that goes on from what was shown with these packets, unless in error.
Marks(f, packets, state) ==
  /\ f \in [Timelines -> [seq : Int, dts : SUBSET Int, pts : SUBSET Int]]
  /\ \A t \in Timelines :
       /\ \E n \in Int : f[t].pts \subseteq {n}
       /\ \A d \in f[t].dts :
            \/ d \in shown[t].dts
            \/ state # "Error" /\ \E j \in DOMAIN packets :
                 Timeline(packets[j].stream) = t /\ packets[j].dts = d
       /\ \A d \in f[t].pts :
            \/ d \in shown[t].pts
            \/ state # "Error" /\ \E j \in DOMAIN packets :
                 Timeline(packets[j].stream) = t /\ packets[j].pts = d

\* The next packet marks it so.
LEMMA MarkedMarks ==
  ASSUME NEW f, NEW packets, NEW state, Marks(f, packets, state),
         NEW j \in DOMAIN packets, NEW p, p = packets[j],
         Timeline(p.stream) \in Timelines, p.seq \in Int, p.dts \in Int, p.pts \in Int
  PROVE  Marks(Marked(f, p, state), packets, state)
<1> DEFINE t == Timeline(p.stream)
           g == Marked(f, p, state)
           Entry == [seq : Int, dts : SUBSET Int, pts : SUBSET Int]
<1>1. /\ t \in Timelines /\ f \in [Timelines -> Entry] /\ f[t] \in Entry
  BY DEF Marks
<1>2. CASE state = "Error"
  <2> DEFINE e == [f[t] EXCEPT !.seq = p.seq]
  <2>1. e \in Entry /\ e.dts = f[t].dts /\ e.pts = f[t].pts
    BY <1>1
  <2>2. g = [f EXCEPT ![t] = e]
    BY <1>1, <1>2 DEF Marked
  <2> HIDE DEF e, g, t, Entry
  <2>3. g \in [Timelines -> Entry] /\ \A u \in Timelines : g[u].dts = f[u].dts /\ g[u].pts = f[u].pts
    BY <1>1, <2>1, <2>2
  <2>4. Marks(g, packets, state)
    BY <2>3 DEF Marks, Entry
  <2> QED BY <2>4 DEF g
<1>3. CASE state # "Error"
  <2> DEFINE S == f[t].pts \cup {p.pts}
             e == [seq |-> p.seq, dts |-> {p.dts}, pts |-> {Largest(S)}]
  <2>1. Largest(S) \in S /\ S \in SUBSET Int
    <3>1. PICK n \in Int : f[t].pts \subseteq {n}
      BY <1>1 DEF Marks
    <3>2. S \in SUBSET Int /\ S # {} /\ S \subseteq {n, p.pts}
      BY <1>1, <3>1
    <3>3. IsFiniteSet({n, p.pts})
      <4>1. IsFiniteSet({n})
        BY FS_Singleton
      <4>2. IsFiniteSet({n} \cup {p.pts})
        BY <4>1, FS_AddElement
      <4>3. {n, p.pts} = {n} \cup {p.pts}
        OBVIOUS
      <4> QED BY <4>2, <4>3
    <3> HIDE DEF S
    <3>4. IsFiniteSet(S)
      BY <3>2, <3>3, FS_Subset
    <3> QED BY <3>2, <3>4, LargestOf
  <2>2. \/ Largest(S) = p.pts
        \/ Largest(S) \in f[t].pts
    BY <2>1
  <2> DEFINE m == Largest(S)
  <2>3. m \in Int /\ (m = p.pts \/ m \in f[t].pts)
    BY <2>1, <2>2
  <2>4. g = [f EXCEPT ![t] = e]
    BY <1>1, <1>3 DEF Marked
  <2>5. e = [seq |-> p.seq, dts |-> {p.dts}, pts |-> {m}]
    OBVIOUS
  <2> HIDE DEF S, m, e, g
  <2>6. e \in Entry /\ e.dts = {p.dts} /\ e.pts = {m}
    BY <2>3, <2>5
  <2> HIDE DEF t, Entry
  <2>7. g \in [Timelines -> Entry] /\ g[t] = e /\ \A u \in Timelines : u # t => g[u] = f[u]
    BY <1>1, <2>4, <2>6
  <2>8. ASSUME NEW u \in Timelines
        PROVE  /\ \E n \in Int : g[u].pts \subseteq {n}
               /\ \A d \in g[u].dts :
                    \/ d \in shown[u].dts
                    \/ state # "Error" /\ \E i \in DOMAIN packets :
                         Timeline(packets[i].stream) = u /\ packets[i].dts = d
               /\ \A d \in g[u].pts :
                    \/ d \in shown[u].pts
                    \/ state # "Error" /\ \E i \in DOMAIN packets :
                         Timeline(packets[i].stream) = u /\ packets[i].pts = d
    <3>1. CASE u # t
      <4>1. g[u] = f[u]
        BY <2>7, <3>1
      <4> QED BY <4>1 DEF Marks
    <3>2. CASE u = t
      <4>1. g[u].dts = {p.dts} /\ g[u].pts = {m} /\ t \in Timelines
        BY <1>1, <2>6, <2>7, <3>2
      <4>2. \A d \in g[u].dts :
              \E i \in DOMAIN packets : Timeline(packets[i].stream) = u /\ packets[i].dts = d
        BY <3>2, <4>1 DEF t
      <4>3. \A d \in g[u].pts :
              \/ d \in shown[u].pts
              \/ state # "Error" /\ \E i \in DOMAIN packets :
                   Timeline(packets[i].stream) = u /\ packets[i].pts = d
        <5>1. CASE m = p.pts
          <6>1. Timeline(packets[j].stream) = u /\ packets[j].pts = m
            BY <3>2, <5>1 DEF t
          <6> QED BY <1>3, <4>1, <6>1
        <5>2. CASE m \in f[t].pts
          BY <3>2, <4>1, <5>2 DEF Marks
        <5> QED BY <2>3, <5>1, <5>2
      <4> QED BY <1>3, <2>3, <4>1, <4>2, <4>3
    <3> QED BY <3>1, <3>2
  <2>9. Marks(g, packets, state)
    BY <2>7, <2>8 DEF Marks, Entry
  <2> QED BY <2>9 DEF g
<1> QED BY <1>2, <1>3

\* After these packets the history has what they show.
LEMMA ShowsMarks ==
  ASSUME ShownOK, NEW packets \in Seq(Packets), NEW state
  PROVE  Marks(Shows(packets, state), packets, state)
<1> DEFINE N == Len(packets)
<1>1. PICK f : ShowsOf(f, packets, state) /\ Shows(packets, state) = f[N]
  BY ShowsUnfolds
<1>2. N \in Nat /\ DOMAIN packets = 1..N /\ \A k \in 1..N : packets[k] \in Packets
  BY LenProperties, ElementOfSeq
<1> DEFINE Bad == {k \in Nat : k <= N /\ ~Marks(f[k], packets, state)}
<1>3. Marks(f[0], packets, state)
  BY <1>1 DEF ShowsOf, ShownOK, Marks
<1>4. \A k \in 1..N : f[k] = Marked(f[k - 1], packets[k], state)
  BY <1>1 DEF ShowsOf
<1> HIDE DEF N
<1>5. Bad = {}
  <2> SUFFICES ASSUME Bad # {} PROVE FALSE
    OBVIOUS
  <2>1. PICK k \in Bad : \A m \in Bad : k <= m
    <3>1. Bad \in SUBSET Nat
      OBVIOUS
    <3> HIDE DEF Bad
    <3> QED BY <3>1, LeastNatural
  <2>2. k \in 1..N /\ k - 1 \in Nat /\ k - 1 <= N /\ ~(k <= k - 1)
    BY <1>2, <1>3
  <2>3. Marks(f[k - 1], packets, state)
    BY <2>1, <2>2
  <2>4. /\ packets[k] \in Packets /\ k \in DOMAIN packets
        /\ f[k] = Marked(f[k - 1], packets[k], state)
    BY <1>2, <1>4, <2>2
  <2>5. /\ Timeline(packets[k].stream) \in Timelines /\ packets[k].seq \in Int
        /\ packets[k].dts \in Int /\ packets[k].pts \in Int
    BY <2>4 DEF Packets, Timelines
  <2>6. Marks(f[k], packets, state)
    BY <2>3, <2>4, <2>5, MarkedMarks
  <2> QED BY <2>6
<1>6. Marks(f[N], packets, state)
  BY <1>2, <1>5
<1> QED BY <1>1, <1>6

----------------------------------------------------------------------------
(* The order over the steps.                                               *)

\* What a call has to keep for the invariant to hold after it: object d, what its stream has
\* sent, and the horizons before the packets that it has shown.
LEMMA OrderKept ==
  ASSUME ShownOK, SoundInv', NEW d, core' = d, NEW packets, NEW state,
         Marks(shown', packets, state), Horizons(d, <<>>),
         state # "Error" => Horizons(d, packets),
         NEW new, Top(last)' = new, Arranged(d, new), d.state = "Error" => loose'.epoch,
         Flowing(core)' /\ ~loose'.epoch => InEpoch(d, new)
  PROVE  OrderInv'
<1>1. Marks(shown', packets, state)
  OBVIOUS
<1>2. ShownOK'
  BY <1>1 DEF Marks, ShownOK
<1>3. Horizons(core, <<>>)'
  <2>1. ASSUME NEW t \in Timelines, NEW x \in shown'[t].dts
        PROVE  t \in DOMAIN d.lastDts /\ x <= d.lastDts[t]
    <3>1. CASE x \in shown[t].dts
      BY <3>1 DEF Horizons
    <3>2. CASE state # "Error" /\ \E j \in DOMAIN packets :
                 Timeline(packets[j].stream) = t /\ packets[j].dts = x
      BY <3>2 DEF Horizons
    <3> QED BY <1>1, <2>1, <3>1, <3>2 DEF Marks
  <2>2. ASSUME NEW t \in Timelines, NEW x \in shown'[t].pts
        PROVE  t \in DOMAIN d.maxPts /\ x <= d.maxPts[t]
    <3>1. CASE x \in shown[t].pts
      BY <3>1 DEF Horizons
    <3>2. CASE state # "Error" /\ \E j \in DOMAIN packets :
                 Timeline(packets[j].stream) = t /\ packets[j].pts = x
      BY <3>2 DEF Horizons
    <3> QED BY <1>1, <2>2, <3>1, <3>2 DEF Marks
  <2>3. DOMAIN <<>> = {} /\ \A t \in DOMAIN d.lastDts : \E e \in d.emitted : d.lastDts[t] <= e
    BY EmptySeq DEF Horizons
  <2> QED BY <2>1, <2>2, <2>3 DEF Horizons
<1>4. Arranged(core, Top(last))'
  BY DEF Arranged, Rising, PendingRising, OneEach, Queued, Passing, Flags
<1>5. InEpoch(d, new) => InEpoch(core, Top(last))'
  BY DEF InEpoch, Follows, InFront, Queued
<1>6. (core.state = "Error" => loose.epoch)'
  OBVIOUS
<1> QED BY <1>2, <1>3, <1>4, <1>5, <1>6 DEF OrderInv

\* What was shown is a history that goes on with nothing.
LEMMA UnmarkedShows ==
  ASSUME ShownOK
  PROVE  Marks(shown, <<>>, "Error")
BY DEF ShownOK, Marks

\* Nothing shown is nothing changed.
LEMMA NothingShown ==
  ASSUME NEW state
  PROVE  Shows(<<>>, state) = shown
<1>1. <<>> \in Seq(Packets) /\ Len(<<>>) = 0
  BY EmptySeq
<1>2. PICK f : ShowsOf(f, <<>>, state) /\ Shows(<<>>, state) = f[Len(<<>>)]
  BY <1>1, ShowsUnfolds
<1> QED BY <1>1, <1>2 DEF ShowsOf

\* A call that returns nothing shows nothing, and the epoch fits if it did before.
LEMMA QuietReturns ==
  ASSUME NEW d, NEW free, Returns(Quiet(d), free)
  PROVE  /\ core' = d /\ out' = <<>> /\ shown' = shown
         /\ d.state = "Error" => loose'.epoch
         /\ ~loose'.epoch => ~free.epoch
<1>1. core' = d /\ out' = <<>> /\ shown' = Shows(<<>>, d.state)
  BY DEF Returns, Quiet
<1>2. shown' = shown
  BY <1>1, NothingShown
<1>3. IF d.state = "Error" THEN loose'.epoch = TRUE
      ELSE loose'.epoch = (free.epoch \/ \E s \in core.active : Stalled(core, s))
  BY DEF Returns, Quiet
<1> QED BY <1>1, <1>2, <1>3

\* A call that has no more buffered than before, and goes on in the epoch if at all.
LEMMA MovedOrder ==
  ASSUME OrderInv, SoundInv', NEW d, core' = d, last' = last, shown' = shown,
         Less(core, d), Passing(d) => Queued(d) = {}, Flags(d),
         d.state = "Error" => loose'.epoch,
         Flowing(d) /\ ~loose'.epoch =>
           /\ Flowing(core) /\ ~loose.epoch
           /\ d.state # "Filling" => Queued(d) \subseteq DOMAIN d.offsets
  PROVE  OrderInv'
<1>1. /\ ShownOK /\ Arranged(core, Top(last)) /\ Horizons(core, <<>>)
      /\ Flowing(core) /\ ~loose.epoch => InEpoch(core, Top(last))
  BY DEF OrderInv
<1>2. Shaped(core) /\ Shaped(d)
  <2>1. Sound(core, last.count)
    BY DEF OrderInv, SoundInv
  <2>2. Sound(d, last.count)
    BY DEF SoundInv
  <2> QED BY <2>1, <2>2, SoundShaped
<1>3. Arranged(d, Top(last)) /\ Horizons(d, <<>>)
  BY <1>1, <1>2, LessOrdered
<1>4. Flowing(d) /\ ~loose'.epoch => InEpoch(d, Top(last))
  <2> SUFFICES ASSUME Flowing(d), ~loose'.epoch PROVE InEpoch(d, Top(last))
    OBVIOUS
  <2>1. /\ InEpoch(core, Top(last))
        /\ d.state # "Filling" => Queued(d) \subseteq DOMAIN d.offsets
    BY <1>1
  <2>2. DOMAIN core.offsets \subseteq Streams
    BY <1>1 DEF Arranged
  <2> QED BY <1>2, <2>1, <2>2, LessOrdered
<1>5. Flowing(core)' => Flowing(d)
  BY DEF Flowing, Covered
<1>6. Top(last)' = Top(last)
  BY DEF Top, Ahead
<1>7. Marks(shown', <<>>, "Error")
  BY <1>1, UnmarkedShows
<1> QED BY <1>1, <1>3, <1>4, <1>5, <1>6, <1>7, OrderKept

----------------------------------------------------------------------------
(* The order over the requests.                                            *)

\* The fields of the buffer and of the output.
Content == {"queues", "pending", "offsets", "lastDts", "maxPts", "emitted"}

\* What clearing leaves, in whatever state.
LEMMA ClearedLess ==
  ASSUME NEW c, Shaped(c), NEW d, \A x \in Content : d[x] = ClearAll(c)[x]
  PROVE  Less(c, d) /\ Queued(d) = {}
<1>1. Less(c, ClearAll(c)) /\ Queued(ClearAll(c)) = {}
  BY ClearedControl
<1>2. Alike(ClearAll(c), d)
  BY DEF Alike, Content
<1> QED BY <1>1, <1>2 DEF Less, Alike, Queued

\* What a call is about that leaves the buffer alone.
LEMMA AlikeOrder ==
  ASSUME OrderInv, SoundInv', NEW d, core' = d, last' = last, shown' = shown,
         \A x \in Content : d[x] = core[x],
         Passing(d) => Passing(core), Flags(d), d.state = "Error" => loose'.epoch,
         Flowing(d) /\ ~loose'.epoch =>
           /\ Flowing(core) /\ ~loose.epoch
           /\ core.state # "Filling" \/ d.state = "Filling"
              \/ Queued(core) \subseteq DOMAIN core.offsets
  PROVE  OrderInv'
<1>1. Shaped(core)
  BY SoundShaped DEF OrderInv, SoundInv
<1>2. Alike(core, d)
  BY DEF Alike, Content
<1>3. Less(core, d) /\ Queued(d) = Queued(core) /\ DOMAIN d.offsets = DOMAIN core.offsets
  BY <1>1, <1>2, AlikeLess DEF Alike, Queued
<1>4. Passing(d) => Queued(d) = {}
  BY <1>3 DEF OrderInv, Arranged
<1>5. Flowing(d) /\ ~loose'.epoch =>
        /\ Flowing(core) /\ ~loose.epoch
        /\ d.state # "Filling" => Queued(d) \subseteq DOMAIN d.offsets
  <2> SUFFICES ASSUME Flowing(d), ~loose'.epoch
               PROVE  /\ Flowing(core) /\ ~loose.epoch
                      /\ d.state # "Filling" => Queued(d) \subseteq DOMAIN d.offsets
    OBVIOUS
  <2>1. InEpoch(core, Top(last))
    BY DEF OrderInv
  <2>2. core.state # "Filling" => Queued(core) \subseteq DOMAIN core.offsets
    BY <2>1 DEF InEpoch
  <2> QED BY <1>3, <2>2
<1> QED BY <1>3, <1>4, <1>5, MovedOrder

\* And what one is about that clears it.
LEMMA ClearedOrder ==
  ASSUME OrderInv, SoundInv', NEW d, core' = d, last' = last, shown' = shown,
         \A x \in Content : d[x] = ClearAll(core)[x],
         Flags(d), d.state = "Error" => loose'.epoch,
         Flowing(d) /\ ~loose'.epoch => Flowing(core) /\ ~loose.epoch
  PROVE  OrderInv'
<1>1. Shaped(core)
  BY SoundShaped DEF OrderInv, SoundInv
<1>2. Less(core, d) /\ Queued(d) = {}
  BY <1>1, ClearedLess
<1> QED BY <1>2, MovedOrder

\* What the requests read of the object.
LEMMA OrderFacts ==
  ASSUME OrderInv
  PROVE  /\ IsCore(core) /\ Shaped(core) /\ Flags(core)
         /\ core.state \in {"Bypass", "Preparing", "Filling", "Delayed", "Error"}
            => core.committed = FALSE
         /\ core.committed => core.state = "Returning"
         /\ core.state = "Error" => loose.epoch
<1>1. Shaped(core)
  BY SoundShaped DEF OrderInv, SoundInv
<1>2. core.committed \in BOOLEAN /\ (core.committed => core.state = "Returning")
  BY DEF OrderInv, SoundInv, Sound, Held
<1>3. Flags(core)
  BY DEF OrderInv, Arranged
<1> QED BY <1>1, <1>2, <1>3 DEF Shaped, OrderInv

\* An activation is begun, and a return ended.
LEMMA ClearingOrder ==
  ASSUME OrderInv, SoundInv', RequestActivate \/ FinishReturn \/ Recover \/ ReportError
  PROVE  OrderInv'
<1>1. /\ IsCore(core) /\ Shaped(core) /\ (core.committed => core.state = "Returning")
      /\ core.state = "Error" => loose.epoch
  BY OrderFacts
<1> DEFINE e == ClearAll(core)
<1>2. /\ IsCore(e) /\ e.committed = FALSE /\ e.preparingChange = FALSE /\ e.fromDelayed = FALSE
  BY <1>1, ClearedControl DEF Shaped
<1>3. CASE RequestActivate
  <2>1. PICK delay \in Delays :
          Begun([Retarget(ClearAll(core), delay) EXCEPT !.previousTarget = 0, !.state = "Preparing"])
        /\ core.state = "Bypass"
    BY <1>3 DEF RequestActivate
  <2> DEFINE d == [Retarget(ClearAll(core), delay) EXCEPT !.previousTarget = 0, !.state = "Preparing"]
  <2>2. Returns(Quiet(d), loose) /\ last' = last
    BY <2>1 DEF Begun, Accepted
  <2>3. core' = d /\ shown' = shown /\ (~loose'.epoch => ~loose.epoch)
    BY <2>2, QuietReturns
  <2> HIDE DEF e
  <2>4. d = [[e EXCEPT !.target = delay, !.pendingTarget = delay]
               EXCEPT !.previousTarget = 0, !.state = "Preparing"]
    BY DEF e, Retarget
  <2> HIDE DEF d
  <2>5. /\ d.state = "Preparing"
        /\ \A x \in Fields \ {"target", "pendingTarget", "previousTarget", "state"} : d[x] = e[x]
    BY <1>2, <2>4 DEF IsCore, Fields
  <2>6. Flags(d) /\ \A x \in Content : d[x] = e[x]
    BY <1>2, <2>5 DEF Flags, Content, Fields
  <2>7. Flowing(core)
    BY <2>1 DEF Flowing
  <2> QED BY <2>2, <2>3, <2>5, <2>6, <2>7, ClearedOrder DEF e
<1>4. CASE FinishReturn \/ Recover
  <2>1. Accepted(Idle(core)) /\ (core.committed \/ core.state = "Error")
    BY <1>4 DEF FinishReturn, Recover
  <2>2. Returns(Quiet(Idle(core)), loose) /\ last' = last
    BY <2>1 DEF Accepted
  <2> DEFINE d == Idle(core)
  <2>3. core' = d /\ shown' = shown /\ (~loose'.epoch => ~loose.epoch)
    BY <2>2, QuietReturns
  <2> HIDE DEF e
  <2>4. d = [[e EXCEPT !.target = 0, !.pendingTarget = 0]
               EXCEPT !.previousTarget = 0, !.state = "Bypass"]
    BY DEF e, Retarget, Idle
  <2> HIDE DEF d
  <2>5. /\ d.state = "Bypass"
        /\ \A x \in Fields \ {"target", "pendingTarget", "previousTarget", "state"} : d[x] = e[x]
    BY <1>2, <2>4 DEF IsCore, Fields
  <2>6. Flags(d) /\ \A x \in Content : d[x] = e[x]
    BY <1>2, <2>5 DEF Flags, Content, Fields
  <2>7. ~loose'.epoch => Flowing(core)
    BY <1>1, <2>1, <2>3 DEF Flowing
  <2> QED BY <2>2, <2>3, <2>5, <2>6, <2>7, ClearedOrder DEF e
<1>5. CASE ReportError
  <2>1. Returns(Quiet(EnterError(core)), loose) /\ last' = last
    BY <1>5 DEF ReportError, Accepted
  <2> DEFINE d == EnterError(core)
  <2>2. core' = d /\ shown' = shown /\ (d.state = "Error" => loose'.epoch)
    BY <2>1, QuietReturns
  <2> HIDE DEF e
  <2>3. d = [e EXCEPT !.state = "Error"]
    BY DEF e, EnterError
  <2> HIDE DEF d
  <2>4. d.state = "Error" /\ \A x \in Fields \ {"state"} : d[x] = e[x]
    BY <1>2, <2>3 DEF IsCore, Fields
  <2>5. Flags(d) /\ ~Flowing(d) /\ \A x \in Content : d[x] = e[x]
    BY <1>2, <2>4 DEF Flags, Content, Fields, Flowing
  <2> QED BY <2>1, <2>2, <2>4, <2>5, ClearedOrder DEF e
<1> QED BY <1>3, <1>4, <1>5

\* What the object goes on to do with what it has buffered.
LEMMA ChangingOrder ==
  ASSUME OrderInv, SoundInv', ChangePreparation \/ ChangeFilling \/ ChangeDelayed
  PROVE  OrderInv'
<1>1. /\ IsCore(core) /\ Flags(core)
      /\ core.state \in {"Preparing", "Filling", "Delayed"} => core.committed = FALSE
  BY OrderFacts
<1>2. CASE ChangePreparation
  <2>1. PICK delay \in Delays :
          Begun([core EXCEPT !.pendingTarget = delay,
                             !.target = IF core.preparingChange THEN @ ELSE delay])
    BY <1>2 DEF ChangePreparation
  <2> DEFINE target == IF core.preparingChange THEN core.target ELSE delay
             d == [core EXCEPT !.pendingTarget = delay, !.target = target]
  <2>2. Returns(Quiet(d), loose) /\ last' = last /\ core.state = "Preparing"
    BY <1>2, <2>1 DEF Begun, Accepted, ChangePreparation
  <2>3. core' = d /\ shown' = shown /\ (~loose'.epoch => ~loose.epoch)
    BY <2>2, QuietReturns
  <2> HIDE DEF target
  <2>4. IsCore(d) /\ \A x \in Fields \ {"target", "pendingTarget"} : d[x] = core[x]
    BY <1>1 DEF IsCore, Fields
  <2> HIDE DEF d
  <2>5. Stays(core, d) /\ \A x \in Content : d[x] = core[x]
    BY <2>4 DEF Fields, Content, Stays
  <2>6. Passing(d) = Passing(core) /\ Flags(d) /\ Flowing(d) = Flowing(core)
    BY <1>1, <2>5, StaysControl
  <2> QED BY <2>2, <2>3, <2>5, <2>6, AlikeOrder DEF Stays
<1>3. CASE ChangeFilling
  <2>1. PICK delay \in Delays :
          Begun([Retarget(core, delay) EXCEPT
                   !.previousTarget = IF core.fromDelayed THEN @ ELSE core.target])
    BY <1>3 DEF ChangeFilling
  <2> DEFINE previous == IF core.fromDelayed THEN core.previousTarget ELSE core.target
             e == Retarget(core, delay)
             d == [e EXCEPT !.previousTarget = previous]
  <2>2. /\ IsCore(e) /\ \A x \in Fields \ {"target", "pendingTarget"} : e[x] = core[x]
    BY <1>1 DEF IsCore, Fields, Retarget
  <2>3. d = [Retarget(core, delay) EXCEPT
               !.previousTarget = IF core.fromDelayed THEN @ ELSE core.target]
    BY <2>2 DEF Fields
  <2>4. Returns(Quiet(d), loose) /\ last' = last /\ core.state = "Filling"
    BY <1>3, <2>1, <2>3 DEF Begun, Accepted, ChangeFilling
  <2>5. core' = d /\ shown' = shown /\ (~loose'.epoch => ~loose.epoch)
    BY <2>4, QuietReturns
  <2> HIDE DEF e, previous
  <2>6. \A x \in Fields \ {"previousTarget"} : d[x] = e[x]
    BY <2>2 DEF IsCore, Fields
  <2> HIDE DEF d
  <2>7. Stays(core, d) /\ \A x \in Content : d[x] = core[x]
    BY <2>2, <2>6 DEF Fields, Content, Stays
  <2>8. Passing(d) = Passing(core) /\ Flags(d) /\ Flowing(d) = Flowing(core)
    BY <1>1, <2>7, StaysControl
  <2> QED BY <2>4, <2>5, <2>7, <2>8, AlikeOrder DEF Stays
<1>4. CASE ChangeDelayed
  <2>1. PICK delay \in Delays :
          Begun([core EXCEPT !.previousTarget = core.target, !.pendingTarget = delay,
                             !.preparingChange = TRUE, !.fromDelayed = TRUE,
                             !.state = "Preparing"])
    BY <1>4 DEF ChangeDelayed
  <2> DEFINE d == [core EXCEPT !.previousTarget = core.target, !.pendingTarget = delay,
                               !.preparingChange = TRUE, !.fromDelayed = TRUE,
                               !.state = "Preparing"]
  <2>2. Returns(Quiet(d), loose) /\ last' = last /\ core.state = "Delayed"
    BY <1>4, <2>1 DEF Begun, Accepted, ChangeDelayed
  <2>3. core' = d /\ shown' = shown /\ (~loose'.epoch => ~loose.epoch)
    BY <2>2, QuietReturns
  <2>4. /\ d.preparingChange = TRUE /\ d.state = "Preparing"
        /\ \A x \in Fields \ {"previousTarget", "pendingTarget", "preparingChange",
                              "fromDelayed", "state"} : d[x] = core[x]
    BY <1>1 DEF IsCore, Fields
  <2> HIDE DEF d
  <2>5. d.committed = FALSE /\ \A x \in Content : d[x] = core[x]
    BY <1>1, <2>2, <2>4 DEF Fields, Content
  <2>6. ~Passing(d) /\ Flags(d) /\ Flowing(core)
    BY <2>2, <2>4, <2>5 DEF Passing, Flags, Flowing
  <2> QED BY <2>2, <2>3, <2>4, <2>5, <2>6, AlikeOrder
<1> QED BY <1>2, <1>3, <1>4

\* The filling is begun: a change goes on with what is queued, an activation starts afresh.
LEMMA FillingOrder ==
  ASSUME OrderInv, SoundInv', BeginFilling
  PROVE  OrderInv'
<1>1. /\ IsCore(core) /\ Flags(core) /\ Shaped(core)
      /\ core.state \in {"Preparing", "Filling", "Delayed"} => core.committed = FALSE
  BY OrderFacts
<1> DEFINE c == [core EXCEPT !.target = core.pendingTarget, !.state = "Filling"]
           e == [c EXCEPT !.preparingChange = FALSE]
           f == [ClearQueues(c) EXCEPT !.fromDelayed = FALSE]
           d == IF core.preparingChange THEN e ELSE f
<1>2. core.state = "Preparing" /\ Returns(Quiet(d), loose) /\ last' = last
  BY DEF BeginFilling, Accepted
<1>3. core' = d /\ shown' = shown /\ (~loose'.epoch => ~loose.epoch)
  BY <1>2, QuietReturns
<1>4. IsCore(c) /\ c.state = "Filling" /\ \A x \in Fields \ {"target", "state"} : c[x] = core[x]
  BY <1>1 DEF IsCore, Fields
<1> HIDE DEF c
<1>5. Flowing(core)
  BY <1>2 DEF Flowing
<1>6. CASE core.preparingChange
  <2>1. e.preparingChange = FALSE /\ \A x \in Fields \ {"preparingChange"} : e[x] = c[x]
    BY <1>4 DEF IsCore, Fields
  <2>2. d = e
    BY <1>6
  <2> HIDE DEF e, d
  <2>3. /\ e.committed = FALSE /\ e.state = "Filling" /\ \A x \in Content : e[x] = core[x]
    BY <1>1, <1>2, <1>4, <2>1 DEF Fields, Content
  <2>4. ~Passing(e) /\ Flags(e)
    BY <2>1, <2>3 DEF Passing, Flags
  <2> QED BY <1>2, <1>3, <1>5, <2>2, <2>3, <2>4, AlikeOrder
<1>7. CASE ~core.preparingChange
  <2> DEFINE g == ClearQueues(c)
  <2>1. /\ IsCore(g) /\ g.queues = NoQueues /\ g.pending = <<>>
        /\ \A x \in Fields \ {"queues", "pending", "buffered", "active", "latest", "seen"} :
             g[x] = c[x]
    BY <1>4, ClearedFields
  <2>2. d = [g EXCEPT !.fromDelayed = FALSE]
    BY <1>7
  <2> HIDE DEF g, d
  <2>3. d.fromDelayed = FALSE /\ \A x \in Fields \ {"fromDelayed"} : d[x] = g[x]
    BY <2>1, <2>2 DEF IsCore, Fields
  <2>4. /\ d.state = "Filling" /\ d.queues = NoQueues /\ d.pending = <<>>
        /\ d.preparingChange = core.preparingChange
        /\ d.offsets = core.offsets /\ d.lastDts = core.lastDts /\ d.maxPts = core.maxPts
        /\ d.emitted = core.emitted
    BY <1>4, <2>1, <2>3 DEF Fields
  <2>5. Flags(d) /\ ~Flowing(d)
    BY <1>7, <2>3, <2>4 DEF Flags, Flowing
  <2>6. Less(core, d)
    <3>1. \A s \in Streams : PartOf(<<>>, core.queues[s])
      BY <1>1, Sections DEF Shaped
    <3>2. PartOf(<<>>, core.pending)
      BY <1>1, Sections DEF Shaped
    <3>3. \A s \in Streams : d.queues[s] = <<>>
      BY <2>4 DEF NoQueues
    <3> QED BY <2>4, <3>1, <3>2, <3>3 DEF Less
  <2>7. Queued(d) = {}
    BY <2>4 DEF Queued, NoQueues
  <2> QED BY <1>2, <1>3, <2>4, <2>5, <2>6, <2>7, MovedOrder
<1> QED BY <1>6, <1>7

\* A change is cancelled: the delayed output goes on in its epoch, unless the cover has been
\* shown or a lane has come that has no place in it.
LEMMA CancelOrder ==
  ASSUME OrderInv, SoundInv', CancelPreparedChange \/ CancelFillingOfChange
  PROVE  OrderInv'
<1>1. /\ IsCore(core) /\ Flags(core)
      /\ core.state \in {"Preparing", "Filling", "Delayed"} => core.committed = FALSE
  BY OrderFacts
<1>2. ASSUME NEW e, IsCore(e), \A x \in Content \cup {"committed"} : e[x] = core[x],
             NEW free, Returns(Quiet(Uncommitted(e)), free), last' = last,
             core.state = "Preparing" \/ (core.state = "Filling" /\ core.fromDelayed),
             ~free.epoch =>
               /\ ~loose.epoch
               /\ core.state = "Filling" =>
                    Covered = {} /\ Queued(core) \subseteq DOMAIN core.offsets
      PROVE  OrderInv'
  <2> DEFINE d == Uncommitted(e)
  <2>1. core' = d /\ shown' = shown /\ (~loose'.epoch => ~free.epoch)
    BY <1>2, QuietReturns
  <2>2. /\ d.state = "Delayed" /\ d.preparingChange = FALSE /\ d.fromDelayed = FALSE
        /\ \A x \in Fields \ {"preparingChange", "fromDelayed", "state"} : d[x] = e[x]
    BY <1>2 DEF Uncommitted, IsCore, Fields
  <2> HIDE DEF d
  <2>3. d.committed = FALSE /\ \A x \in Content : d[x] = core[x]
    BY <1>1, <1>2, <2>2 DEF Fields, Content
  <2>4. ~Passing(d) /\ Flags(d)
    BY <2>2, <2>3 DEF Passing, Flags
  <2>5. ~loose'.epoch =>
          /\ Flowing(core) /\ ~loose.epoch
          /\ core.state # "Filling" \/ Queued(core) \subseteq DOMAIN core.offsets
    BY <1>2, <2>1 DEF Flowing
  <2> QED BY <1>2, <2>1, <2>2, <2>3, <2>4, <2>5, AlikeOrder
<1>3. CASE CancelPreparedChange
  <2> DEFINE e == [core EXCEPT !.pendingTarget = core.target]
  <2>1. Returns(Quiet(Uncommitted(e)), loose) /\ last' = last /\ core.state = "Preparing"
    BY <1>3 DEF CancelPreparedChange, Begun, Accepted
  <2>2. IsCore(e) /\ \A x \in Fields \ {"pendingTarget"} : e[x] = core[x]
    BY <1>1 DEF IsCore, Fields
  <2> HIDE DEF e
  <2>3. \A x \in Content \cup {"committed"} : e[x] = core[x]
    BY <2>2 DEF Fields, Content
  <2> QED BY <1>2, <2>1, <2>2, <2>3
<1>4. CASE CancelFillingOfChange
  <2> DEFINE e == Retarget(core, core.previousTarget)
  <2>1. /\ Returns(Quiet(Uncommitted(e)), Resumed) /\ last' = last
        /\ core.state = "Filling" /\ core.fromDelayed
    BY <1>4 DEF CancelFillingOfChange
  <2>2. IsCore(e) /\ \A x \in Fields \ {"target", "pendingTarget"} : e[x] = core[x]
    BY <1>1 DEF IsCore, Fields, Retarget
  <2> HIDE DEF e
  <2>3. \A x \in Content \cup {"committed"} : e[x] = core[x]
    BY <2>2 DEF Fields, Content
  <2>4. ~Resumed.epoch =>
          ~loose.epoch /\ Covered = {} /\ Queued(core) \subseteq DOMAIN core.offsets
    BY DEF Resumed
  <2> QED BY <1>2, <2>1, <2>2, <2>3, <2>4
<1> QED BY <1>3, <1>4

\* A return is begun: the delayed output goes on until it is committed.
LEMMA ReturningOrder ==
  ASSUME OrderInv, SoundInv', CancelActivation \/ RequestDeactivate
  PROVE  OrderInv'
<1>1. IsCore(core) /\ Flags(core)
  BY OrderFacts
<1>2. ASSUME NEW delayed, NEW free, Returns(Quiet(StartReturn(core, delayed)), free), last' = last,
             delayed /\ ~free.epoch =>
               /\ Flowing(core) /\ ~loose.epoch
               /\ core.state # "Filling" \/ Queued(core) \subseteq DOMAIN core.offsets
      PROVE  OrderInv'
  <2> DEFINE lanes == IF core.active # {} THEN core.active ELSE Queued(core)
             required == {s \in lanes : IsVideo(s)}
             d == [core EXCEPT !.state = "Returning", !.returnFromDelayed = delayed,
                          !.committed = FALSE, !.requestedAt = core.observed,
                          !.returnKeys = <<>>, !.returnRequired = required,
                          !.preparingChange = FALSE, !.fromDelayed = FALSE]
  <2>1. StartReturn(core, delayed) = d
    BY DEF StartReturn
  <2>2. core' = d /\ shown' = shown /\ (~loose'.epoch => ~free.epoch)
    BY <1>2, <2>1, QuietReturns
  <2> HIDE DEF lanes, required
  <2>3. /\ d.state = "Returning" /\ d.committed = FALSE /\ d.preparingChange = FALSE
        /\ d.fromDelayed = FALSE /\ d.returnFromDelayed = delayed
        /\ \A x \in Content : d[x] = core[x]
    BY <1>1 DEF IsCore, Fields, Content
  <2> HIDE DEF d
  <2>4. ~Passing(d) /\ Flags(d) /\ (Flowing(d) => delayed)
    BY <2>3 DEF Passing, Flags, Flowing
  <2> QED BY <1>2, <2>2, <2>3, <2>4, AlikeOrder
<1>3. CASE CancelActivation
  <2>1. Returns(Quiet(StartReturn(core, FALSE)), loose) /\ last' = last
    BY <1>3 DEF CancelActivation, Begun, Accepted
  <2> QED BY <1>2, <2>1
<1>4. CASE RequestDeactivate
  <2> DEFINE delayed == core.state = "Delayed" \/ core.preparingChange \/ core.fromDelayed
             free == IF core.fromDelayed THEN Resumed ELSE loose
  <2>1. /\ Returns(Quiet(StartReturn(core, delayed)), free) /\ last' = last
        /\ core.state \in {"Preparing", "Filling", "Delayed"}
    BY <1>4 DEF RequestDeactivate
  <2>2. ASSUME delayed, ~free.epoch
        PROVE  /\ Flowing(core) /\ ~loose.epoch
               /\ core.state # "Filling" \/ Queued(core) \subseteq DOMAIN core.offsets
    <3>1. CASE core.fromDelayed
      <4>1. ~loose.epoch /\ Covered = {} /\ Queued(core) \subseteq DOMAIN core.offsets
        BY <2>2, <3>1 DEF Resumed
      <4>2. Flowing(core)
        BY <1>1, <2>1, <3>1, <4>1 DEF Flowing
      <4> QED BY <4>1, <4>2
    <3>2. CASE ~core.fromDelayed
      <4>1. core.state = "Delayed" \/ core.state = "Preparing"
        BY <1>1, <2>2, <3>2 DEF Flags
      <4>2. ~loose.epoch
        BY <2>2, <3>2
      <4> QED BY <4>1, <4>2 DEF Flowing
    <3> QED BY <3>1, <3>2
  <2> HIDE DEF delayed, free
  <2> QED BY <1>2, <2>1, <2>2
<1> QED BY <1>3, <1>4

----------------------------------------------------------------------------
(* The order over the commits, and over what the host shows itself.        *)

\* What a stream has sent is bounded.
LEMMA TopTyped ==
  ASSUME NEW l, l.encoder \in Encoders, l.on \in [Streams -> [seq : Nat, dts : Int, frames : Nat]]
  PROVE  Top(l) \in [Streams -> Bound]
<1>1. ASSUME NEW s \in Streams
      PROVE  /\ l.on[s].seq \in Nat /\ l.on[s].dts \in Int
             /\ Ahead(l, s) \in {0, 1, 2}
  BY DEF Ahead
<1>2. ASSUME NEW s \in Streams
      PROVE  [sent |-> l.on[s].seq # 0, dts |-> l.on[s].dts,
              pts |-> l.on[s].dts + Ahead(l, s)] \in Bound
  <2>1. l.on[s].dts + Ahead(l, s) \in Int
    BY <1>1
  <2>2. (l.on[s].seq # 0) \in BOOLEAN
    OBVIOUS
  <2> QED BY <1>1, <2>1, <2>2 DEF Bound
<1> QED BY <1>2 DEF Top

\* A call that begins an epoch, or goes on in the one before.
LEMMA EpochOrder ==
  ASSUME OrderInv, SoundInv', NEW d, core' = d, last' = last, shown' = shown,
         Arranged(d, Top(last)), \A packets : Horizons(core, packets) => Horizons(d, packets),
         d.state = "Error" => loose'.epoch, InEpoch(d, Top(last))
  PROVE  OrderInv'
<1>1. ShownOK /\ Horizons(d, <<>>)
  BY DEF OrderInv
<1>2. Top(last)' = Top(last)
  BY DEF Top, Ahead
<1>3. Marks(shown', <<>>, "Error")
  BY <1>1, UnmarkedShows
<1> QED BY <1>1, <1>2, <1>3, OrderKept

\* The commits begin an epoch.
LEMMA CommitsOrder ==
  ASSUME OrderInv, SoundInv', CommitDelayed \/ CommitReturn
  PROVE  OrderInv'
<1>1. /\ Sound(core, last.count) /\ last.count \in Nat /\ Arranged(core, Top(last))
      /\ Top(last) \in [Streams -> Bound]
  BY TopTyped DEF OrderInv, SoundInv, LastOK
<1>2. CASE CommitDelayed
  <2> DEFINE d == ApplyCut(core)
  <2>1. core.state = "Filling" /\ CutReady(core) /\ last' = last
    BY <1>2 DEF CommitDelayed, Committed
  <2>2. \E free : Returns(Quiet(d), free)
    BY <1>2 DEF CommitDelayed, Committed
  <2>3. core' = d /\ shown' = shown /\ (d.state = "Error" => loose'.epoch)
    BY <2>2, QuietReturns
  <2>4. /\ Arranged(d, Top(last)) /\ InEpoch(d, Top(last))
        /\ \A packets : Horizons(core, packets) => Horizons(d, packets)
    BY <1>1, <2>1, ApplyCutOrdered
  <2> HIDE DEF d
  <2> QED BY <2>1, <2>3, <2>4, EpochOrder
<1>3. CASE CommitReturn
  <2> DEFINE d == [BuildPending(core) EXCEPT !.committed = TRUE, !.returnFromDelayed = FALSE]
  <2>1. core.state = "Returning" /\ last' = last
    BY <1>3 DEF CommitReturn, Committed
  <2>2. \E free : Returns(Quiet(d), free)
    BY <1>3 DEF CommitReturn, Committed
  <2>3. core' = d /\ shown' = shown /\ (d.state = "Error" => loose'.epoch)
    BY <2>2, QuietReturns
  <2>4. /\ Arranged(d, Top(last)) /\ InEpoch(d, Top(last))
        /\ \A packets : Horizons(core, packets) => Horizons(d, packets)
    BY <1>1, <2>1, CommitOrdered
  <2> HIDE DEF d
  <2> QED BY <2>1, <2>3, <2>4, EpochOrder
<1> QED BY <1>2, <1>3

\* The time goes on, and what is too old is pruned.
LEMMA TimeOrder ==
  ASSUME OrderInv, SoundInv', Refused \/ PruneNow
  PROVE  OrderInv'
<1>1. /\ IsCore(core) /\ Shaped(core) /\ Flags(core)
      /\ core.state = "Error" => loose.epoch
  BY OrderFacts
<1>2. CASE Refused
  <2> DEFINE d == [core EXCEPT !.observed = @ + 1]
  <2>1. core' = d /\ last' = last /\ shown' = shown /\ loose' = loose
    BY <1>2 DEF Refused
  <2>2. \A x \in Fields \ {"observed"} : d[x] = core[x]
    BY <1>1 DEF IsCore, Fields
  <2> HIDE DEF d
  <2>3. Stays(core, d) /\ \A x \in Content : d[x] = core[x]
    BY <2>2 DEF Fields, Content, Stays
  <2>4. Passing(d) = Passing(core) /\ Flags(d) /\ Flowing(d) = Flowing(core)
    BY <1>1, <2>3, StaysControl
  <2> QED BY <1>1, <2>1, <2>3, <2>4, AlikeOrder DEF Stays
<1>3. CASE PruneNow
  <2> DEFINE d == Prune(core)
  <2>1. Returns(Quiet(d), loose) /\ last' = last /\ core.state = "Returning"
    BY <1>3 DEF PruneNow
  <2>2. /\ core' = d /\ shown' = shown /\ (d.state = "Error" => loose'.epoch)
        /\ ~loose'.epoch => ~loose.epoch
    BY <2>1, QuietReturns
  <2>3. Shaped(d) /\ Less(core, d) /\ Stays(core, d) /\ d.offsets = core.offsets
    BY <1>1, PruneLess
  <2> HIDE DEF d
  <2>4. Passing(d) = Passing(core) /\ Flags(d) /\ Flowing(d) = Flowing(core)
    BY <1>1, <2>3, StaysControl
  <2>5. Queued(d) \subseteq Queued(core)
    BY <1>1, <2>3, LessOrdered
  <2>6. Passing(d) => Queued(d) = {}
    BY <2>4, <2>5 DEF OrderInv, Arranged
  <2>7. Flowing(d) /\ ~loose'.epoch => Queued(d) \subseteq DOMAIN d.offsets
    <3> SUFFICES ASSUME Flowing(d), ~loose'.epoch PROVE Queued(core) \subseteq DOMAIN core.offsets
      BY <2>3, <2>5
    <3>1. InEpoch(core, Top(last))
      BY <2>2, <2>4 DEF OrderInv
    <3> QED BY <2>1, <3>1 DEF InEpoch
  <2> QED BY <2>1, <2>2, <2>3, <2>4, <2>6, <2>7, MovedOrder
<1> QED BY <1>2, <1>3

\* A frame of the cover rises above the horizons; the lane has no place in the epoch then.
LEMMA CoverOrder ==
  ASSUME OrderInv, SoundInv', ObserveExternalOutput
  PROVE  OrderInv'
<1>1. /\ Shaped(core) /\ Timed(core) /\ core.observed \in Nat /\ core.state = "Filling"
      /\ ShownOK /\ Horizons(core, <<>>) /\ Arranged(core, Top(last))
  BY SoundShaped DEF OrderInv, SoundInv, Shaped, Timed, ObserveExternalOutput
<1> DEFINE p(s) == Packet(s, 0, 0, core.observed, 0, TRUE, core.observed)
           base(s) == NewOffset(core, p(s), 0)
           q(s) == [Shifted(p(s), base(s)) EXCEPT !.seq = Cover]
<1>2. PICK s \in Streams : /\ core' = NoteOutput(core, q(s)) /\ last' = last
                           /\ shown' = Shows(<<q(s)>>, "Filling")
  BY <1>1 DEF ObserveExternalOutput
<1>3. p(s) \in Packets /\ p(s).dts \in Int /\ p(s).pts \in Int
  BY <1>1 DEF Packet, Packets
<1> HIDE DEF p
<1>4. base(s) \in Int /\ \A e \in core.emitted : e <= p(s).dts + base(s)
  <2>1. 0 \in Int
    OBVIOUS
  <2> QED BY <1>1, <1>3, <2>1, NewOffsetFits
<1> HIDE DEF base
<1>5. /\ q(s).stream \in Streams /\ q(s).seq = Cover
      /\ q(s).dts = p(s).dts + base(s) /\ q(s).pts = p(s).pts + base(s)
  BY <1>3 DEF Shifted, Packets
<1> HIDE DEF q
<1>6. q(s).dts \in Int /\ q(s).pts \in Int /\ \A e \in core.emitted : e <= q(s).dts
  BY <1>3, <1>4, <1>5
<1> DEFINE d == NoteOutput(core, q(s))
           t == Timeline(q(s).stream)
<1>7. /\ Shaped(d) /\ Stays(core, d) /\ d.queues = core.queues /\ d.pending = core.pending
      /\ d.offsets = core.offsets /\ t \in DOMAIN d.lastDts /\ d.lastDts[t] = q(s).dts
      /\ t \in DOMAIN d.maxPts /\ d.maxPts[t] >= q(s).pts
  BY <1>1, <1>6, NotedFields
<1>8. Horizons(d, <<>>)
  <2>1. <<>> \in Seq(Packets)
    BY EmptySeq
  <2> QED BY <1>1, <1>6, <2>1, NotedHorizons
<1> HIDE DEF d
<1>9. t \in Timelines
  BY <1>5 DEF Timelines
<1>10. <<q(s)>> \in Seq({q(s)}) /\ Len(<<q(s)>>) = 1 /\ <<q(s)>>[1] = q(s)
       /\ DOMAIN <<q(s)>> = {1}
  OBVIOUS
<1> HIDE DEF t
<1>11. shown' = Marked(shown, q(s), "Filling")
  <2>1. PICK f : ShowsOf(f, <<q(s)>>, "Filling") /\ Shows(<<q(s)>>, "Filling") = f[1]
    BY <1>10, ShowsUnfolds
  <2>2. 1 \in 1..1 /\ 1 - 1 = 0
    OBVIOUS
  <2>3. f[1] = Marked(f[0], q(s), "Filling") /\ f[0] = shown
    BY <1>10, <2>1, <2>2 DEF ShowsOf
  <2> QED BY <1>2, <2>1, <2>3
<1>12. Marks(shown', <<q(s)>>, "Filling")
  <2>1. Marks(shown, <<q(s)>>, "Filling")
    BY <1>1 DEF ShownOK, Marks
  <2>2. 1 \in DOMAIN <<q(s)>> /\ q(s).seq \in Int
    BY <1>5, <1>10 DEF Cover
  <2> QED BY <1>6, <1>9, <1>10, <1>11, <2>1, <2>2, MarkedMarks DEF t
<1>13. Horizons(d, <<q(s)>>)
  <2>1. d.lastDts[t] \in Int /\ d.maxPts[t] \in Int
    BY <1>7 DEF Shaped, Timed, IntValued
  <2>2. q(s).dts <= d.lastDts[t] /\ q(s).pts <= d.maxPts[t]
    BY <1>6, <1>7, <2>1
  <2> QED BY <1>7, <1>8, <1>10, <2>2 DEF Horizons, t
<1>14. Arranged(d, Top(last))
  <2>1. Passing(d) = Passing(core) /\ Flags(d) = Flags(core)
    BY <1>7, StaysControl
  <2>2. Queued(d) = Queued(core)
    BY <1>7 DEF Queued
  <2> QED BY <1>1, <1>7, <2>1, <2>2 DEF Arranged
<1>15. ~Flowing(core)'
  <2>1. core'.state = "Filling"
    BY <1>1, <1>2, <1>7 DEF Stays, d
  <2>2. shown'[t].seq = Cover
    <3>1. shown \in [Timelines -> [seq : Int, dts : SUBSET Int, pts : SUBSET Int]]
      BY <1>1 DEF ShownOK
    <3> QED BY <1>5, <1>9, <1>11, <3>1 DEF Marked, t
  <2>3. Covered' # {}
    BY <1>9, <2>2 DEF Covered
  <2> QED BY <2>1, <2>3 DEF Flowing
<1>16. core' = d /\ d.state # "Error" /\ Top(last)' = Top(last)
  BY <1>1, <1>2, <1>7 DEF Stays, d, Top, Ahead
<1> QED BY <1>1, <1>8, <1>12, <1>13, <1>14, <1>15, <1>16, OrderKept

----------------------------------------------------------------------------
(* The order over the packets that come and go.                            *)

\* After the frame that follows a keyframe, no keyframe comes.
LEMMA NoKeyAfterTheFirst ==
  ASSUME NEW f \in Nat, NEW g \in Nat \ {0}, f % g = 0, (f - 1) % g = 1, g > 2
  PROVE  FALSE
<1> DEFINE a == f \div g
           b == (f - 1) \div g
<1>1. /\ a \in Int /\ b \in Int
      /\ f % g = f - g * a /\ (f - 1) % g = (f - 1) - g * b
  OBVIOUS
<1> HIDE DEF a, b
<1>2. g * a - g * b = 2
  <2>1. g * a \in Int /\ g * b \in Int
    BY <1>1
  <2> HIDE DEF a
  <2> QED BY <1>1, <2>1
<1>3. g * (a - b) = 2
  <2>1. g * (a - b) = g * a - g * b
    BY <1>1
  <2> QED BY <1>2, <2>1
<1>4. CASE a - b <= 0
  <2>1. g * (a - b) <= 0
    BY <1>1, <1>4
  <2> QED BY <1>3, <2>1
<1>5. CASE a - b >= 1
  <2>1. g * (a - b) >= g
    BY <1>1, <1>5
  <2> QED BY <1>3, <2>1
<1> QED BY <1>1, <1>4, <1>5

\* The packet that a stream sends next is one: its DTS increases, and a keyframe is presented
\* after all frames before it.
LEMMA NextComes ==
  ASSUME LastOK, NEW t \in Int, NEW s \in Streams, NEW p, p = NextPacket(t, s),
         InOrder(p), Sent(p)
  PROVE  Comes(p, Top(last), Top(last)')
<1> DEFINE frames == last.on[s].frames
           gop == last.encoder.gop
           phase == frames % gop
           lead == IF ~IsVideo(s) THEN 0
                   ELSE CASE phase = 0 -> 1 [] phase = 1 /\ gop > 2 -> 2 [] OTHER -> 0
           before == Ahead(last, s)
           late == Ahead(last, s)'
           top == Top(last)
           new == Top(last)'
<1>1. /\ p \in Packets /\ p.seq = last.count + 1 /\ p.stream = s /\ p.dts \in Int
      /\ p.pts \in Int
  BY NextPacketTyped DEF Packets
<1>2. /\ last.on[s].seq \in Nat /\ last.on[s].dts \in Int /\ frames \in Nat
      /\ gop \in Nat \ {0} /\ last.encoder.lag \in Nat
  BY PacketDelayAssumption DEF LastOK
<1>3. /\ p.pts = p.dts + lead /\ p.key = (~IsVideo(s) \/ phase = 0)
      /\ p.after = last.on[s].seq
  BY DEF NextPacket, Packet
<1>4. /\ last'.encoder = last.encoder
      /\ last'.on[s] = [seq |-> p.seq, dts |-> p.dts, frames |-> frames + 1]
      /\ \A q \in Streams : q # s => last'.on[q] = last.on[q]
  <2> DEFINE sent == [seq |-> p.seq, dts |-> p.dts, frames |-> frames + 1]
             on == [last.on EXCEPT ![s] = sent]
  <2>1. last = [encoder |-> last.encoder, count |-> last.count, on |-> last.on]
        /\ DOMAIN last.on = Streams
    BY DEF LastOK
  <2>2. last' = [last EXCEPT !.count = p.seq, !.on = on]
    BY <1>1, <2>1 DEF Sent
  <2> HIDE DEF sent
  <2>3. on[s] = sent /\ \A q \in Streams : q # s => on[q] = last.on[q]
    BY <2>1
  <2> HIDE DEF on
  <2>4. last'.encoder = last.encoder /\ last'.on = on
    BY <2>1, <2>2
  <2> QED BY <2>3, <2>4 DEF sent
<1>5. /\ late = IF ~IsVideo(s) THEN 0 ELSE IF phase = 1 /\ gop > 2 THEN 2 ELSE 1
      /\ before = IF ~IsVideo(s) THEN 0 ELSE IF (frames - 1) % gop = 1 /\ gop > 2 THEN 2 ELSE 1
  <2>1. last'.on[s].frames - 1 = frames
    BY <1>2, <1>4
  <2> QED BY <1>4, <2>1 DEF Ahead
<1>6. top \in [Streams -> Bound] /\ new \in [Streams -> Bound]
  <2>1. LastOK'
    BY <1>1, SentTyped
  <2>2. /\ last.encoder \in Encoders /\ last'.encoder \in Encoders
        /\ last.on \in [Streams -> [seq : Nat, dts : Int, frames : Nat]]
        /\ last'.on \in [Streams -> [seq : Nat, dts : Int, frames : Nat]]
    BY <2>1 DEF LastOK
  <2>3. Top(last) \in [Streams -> Bound] /\ Top(last') \in [Streams -> Bound]
    BY <2>2, TopTyped
  <2> QED BY <2>3 DEF Top, Ahead
<1>7. /\ top[s].sent => last.on[s].seq # 0
      /\ new[s].sent
      /\ top[s].dts = last.on[s].dts /\ top[s].pts = last.on[s].dts + before
      /\ new[s].dts = p.dts /\ new[s].pts = p.dts + late
  <2>1. p.seq # 0
    BY <1>1 DEF LastOK
  <2>2. new[s] = [sent |-> TRUE, dts |-> p.dts, pts |-> p.dts + late]
    <3>1. new[s] = [sent |-> p.seq # 0, dts |-> p.dts, pts |-> p.dts + late]
      BY <1>4 DEF Top
    <3>2. (p.seq # 0) = TRUE
      BY <2>1
    <3> HIDE DEF top, new, before, late
    <3> QED BY <3>1, <3>2
  <2>3. CASE last.on[s].seq # 0
    <3>1. top[s] = [sent |-> TRUE, dts |-> last.on[s].dts, pts |-> last.on[s].dts + before]
      BY <2>3 DEF Top
    <3> HIDE DEF top, new, before, late
    <3> QED BY <2>2, <2>3, <3>1
  <2>4. CASE last.on[s].seq = 0
    <3>1. top[s] = [sent |-> FALSE, dts |-> last.on[s].dts, pts |-> last.on[s].dts + before]
      BY <2>4 DEF Top
    <3> HIDE DEF top, new, before, late
    <3> QED BY <2>2, <2>4, <3>1
  <2> QED BY <2>3, <2>4
<1>8. \A q \in Streams : q # s => new[q] = top[q]
  BY <1>4 DEF Top, Ahead
<1>9. lead \in {0, 1, 2} /\ lead <= late /\ before \in {0, 1, 2} /\ late \in {0, 1, 2}
      /\ (late = 0 => before = 0)
  <2> HIDE DEF phase, gop
  <2>1. CASE ~IsVideo(s)
    BY <1>5, <2>1
  <2>2. CASE IsVideo(s) /\ phase = 0
    BY <1>5, <2>2
  <2>3. CASE IsVideo(s) /\ phase = 1 /\ gop > 2
    BY <1>5, <2>3
  <2>4. CASE IsVideo(s) /\ phase # 0 /\ ~(phase = 1 /\ gop > 2)
    BY <1>5, <2>4
  <2> QED BY <2>1, <2>2, <2>3, <2>4
<1>10. p.key => before <= lead
  <2> SUFFICES ASSUME p.key PROVE before <= lead
    OBVIOUS
  <2>1. CASE ~IsVideo(s)
    BY <1>5, <2>1
  <2>2. CASE IsVideo(s) /\ phase = 0
    <3>1. ~((frames - 1) % gop = 1 /\ gop > 2)
      BY <1>2, <2>2, NoKeyAfterTheFirst
    <3> HIDE DEF phase
    <3>2. before = 1 /\ lead = 1
      BY <1>5, <2>2, <3>1
    <3> QED BY <3>2
  <2> QED BY <1>3, <2>1, <2>2
<1>11. last.on[s].seq # 0 => last.on[s].dts < p.dts
  BY <1>1, <1>2, <1>3 DEF InOrder
<1> HIDE DEF lead, before, late, phase, frames, gop
<1>12. /\ top[s].sent => /\ top[s].dts < p.dts /\ top[s].pts <= new[s].pts
                         /\ p.key => top[s].pts < p.pts
  <2> SUFFICES ASSUME top[s].sent
               PROVE  /\ top[s].dts < p.dts /\ top[s].pts <= new[s].pts
                      /\ p.key => top[s].pts < p.pts
    OBVIOUS
  <2>1. last.on[s].dts < p.dts
    BY <1>7, <1>11
  <2>2. last.on[s].dts + before <= p.dts + late
    BY <1>1, <1>2, <1>9, <2>1
  <2>3. before <= lead => last.on[s].dts + before < p.dts + lead
    BY <1>1, <1>2, <1>9, <2>1
  <2> QED BY <1>3, <1>7, <1>10, <2>1, <2>2, <2>3
<1>13. new[s].sent /\ new[s].dts = p.dts /\ p.pts <= new[s].pts
  <2>1. p.dts + lead <= p.dts + late
    BY <1>1, <1>9
  <2> QED BY <1>3, <1>7, <2>1
<1> HIDE DEF top, new
<1>14. Comes(p, top, new)
  BY <1>1, <1>6, <1>8, <1>12, <1>13 DEF Comes
<1> QED BY <1>14 DEF top, new

\* What a call emits is in order, as the runs check it.
Emits ==
  core'.state # "Error" =>
    \A i \in DOMAIN out' :
      LET p == out'[i]
          lane == {Timeline(p.stream)}
      IN  /\ \A d \in DtsBefore(i, Timelines) : d <= p.dts
          /\ \/ loose.epoch
             \/ /\ \A d \in DtsBefore(i, lane) : d < p.dts
                /\ p.key => \A d \in PtsBefore(i, lane) : d < p.pts

\* A call that returns nothing emits nothing.
LEMMA SilentEmits ==
  ASSUME out' = <<>>
  PROVE  Emits
BY DEF Emits

\* Packets in order are what a call emits.
LEMMA OrderedEmits ==
  ASSUME NEW packets \in Seq(Packets), out' = packets,
         core'.state # "Error" => Ordered(packets) /\ (loose.epoch \/ LaneOrdered(packets))
  PROVE  Emits
<1> SUFFICES ASSUME core'.state # "Error", NEW i \in DOMAIN packets
             PROVE  LET p == packets[i]
                        lane == {Timeline(p.stream)}
                    IN  /\ \A d \in DtsBefore(i, Timelines) : d <= p.dts
                        /\ \/ loose.epoch
                           \/ /\ \A d \in DtsBefore(i, lane) : d < p.dts
                              /\ p.key => \A d \in PtsBefore(i, lane) : d < p.pts
  BY DEF Emits
<1> DEFINE p == packets[i]
           lane == {Timeline(p.stream)}
<1>1. Ordered(packets) /\ (loose.epoch \/ LaneOrdered(packets))
  OBVIOUS
<1>2. ASSUME NEW j \in 1..(i - 1) PROVE j \in DOMAIN packets /\ j < i
  <2>1. Len(packets) \in Nat /\ DOMAIN packets = 1..Len(packets)
    BY LenProperties
  <2> QED BY <2>1
<1>3. ASSUME NEW lanes
      PROVE  /\ \A d \in DtsBefore(i, lanes) :
                  \/ \E t \in lanes : d \in shown[t].dts
                  \/ \E j \in 1..(i - 1) : d = packets[j].dts /\ Timeline(packets[j].stream) \in lanes
             /\ \A d \in PtsBefore(i, lanes) :
                  \/ \E t \in lanes : d \in shown[t].pts
                  \/ \E j \in 1..(i - 1) : d = packets[j].pts /\ Timeline(packets[j].stream) \in lanes
  BY DEF DtsBefore, PtsBefore
<1>4. ASSUME NEW d \in DtsBefore(i, Timelines) PROVE d <= p.dts
  BY <1>1, <1>2, <1>3, <1>4 DEF Ordered
<1>5. ASSUME LaneOrdered(packets)
      PROVE  /\ \A d \in DtsBefore(i, lane) : d < p.dts
             /\ p.key => \A d \in PtsBefore(i, lane) : d < p.pts
  <2>1. ASSUME NEW j \in 1..(i - 1), Timeline(packets[j].stream) \in lane
        PROVE  Precedes(packets[j], p)
    BY <1>2, <1>5, <2>1 DEF LaneOrdered
  <2>2. /\ \A d \in shown[Timeline(p.stream)].dts : d < p.dts
        /\ p.key => \A d \in shown[Timeline(p.stream)].pts : d < p.pts
    BY <1>5 DEF LaneOrdered
  <2>3. ASSUME NEW d \in DtsBefore(i, lane) PROVE d < p.dts
    <3>1. CASE \E t \in lane : d \in shown[t].dts
      BY <2>2, <3>1
    <3>2. CASE \E j \in 1..(i - 1) : d = packets[j].dts /\ Timeline(packets[j].stream) \in lane
      BY <2>1, <3>2 DEF Precedes
    <3> QED BY <1>3, <2>3, <3>1, <3>2
  <2>4. ASSUME p.key, NEW d \in PtsBefore(i, lane) PROVE d < p.pts
    <3>1. CASE \E t \in lane : d \in shown[t].pts
      BY <2>2, <2>4, <3>1
    <3>2. CASE \E j \in 1..(i - 1) : d = packets[j].pts /\ Timeline(packets[j].stream) \in lane
      BY <2>1, <2>4, <3>2 DEF Precedes
    <3> QED BY <1>3, <2>4, <3>1, <3>2
  <2> QED BY <2>3, <2>4
<1> QED BY <1>1, <1>4, <1>5

\* A call that goes on from what was shown keeps the order, and emits in it.
LEMMA GoingOrder ==
  ASSUME OrderInv, SoundInv', NEW r, Returns(r, loose), NEW new, Top(last)' = new,
         Going(r.core, new, r.out, Flowing(core) /\ ~loose.epoch),
         r.core.state # "Error" => Stays(core, r.core),
         r.core.state # "Error" /\ Silent(core) => r.out = <<>>
  PROVE  OrderInv' /\ Emits
<1> DEFINE d == r.core
           packets == r.out
<1>1. core' = d /\ out' = packets /\ shown' = Shows(packets, d.state)
  BY DEF Returns
<1>2. /\ d.state = "Error" => loose'.epoch
      /\ d.state # "Error" /\ ~loose'.epoch => ~loose.epoch
  <2>1. IF d.state = "Error" THEN loose'.epoch = TRUE
        ELSE loose'.epoch = (loose.epoch \/ \E s \in core.active : Stalled(core, s))
    BY DEF Returns
  <2> QED BY <2>1
<1> HIDE DEF d, packets
<1>3. /\ Going(d, new, packets, Flowing(core) /\ ~loose.epoch)
      /\ d.state # "Error" => Stays(core, d)
      /\ d.state # "Error" /\ Silent(core) => packets = <<>>
  BY DEF d, packets
<1>4. ShownOK /\ packets \in Seq(Packets) /\ (core.state = "Error" => loose.epoch)
  BY <1>3 DEF OrderInv, Going
<1>5. Marks(shown', packets, d.state)
  BY <1>1, <1>4, ShowsMarks
<1>6. /\ Arranged(d, new) /\ Horizons(d, <<>>)
      /\ d.state # "Error" => Horizons(d, packets) /\ Ordered(packets)
      /\ d.state # "Error" /\ Flowing(core) /\ ~loose.epoch
         => InEpoch(d, new) /\ LaneOrdered(packets)
  BY <1>3 DEF Going
<1>7. Shaped(core)
  BY SoundShaped DEF OrderInv, SoundInv
<1>8. ~Flowing(core) /\ ~loose.epoch => Silent(core)
  BY <1>4, <1>7 DEF Flowing, Silent, Shaped, States
<1>9. Flowing(core)' => d.state # "Error" /\ Flowing(core)
  <2> SUFFICES ASSUME Flowing(core)' PROVE d.state # "Error" /\ Flowing(core)
    OBVIOUS
  <2>1. d.state # "Error"
    BY <1>1 DEF Flowing
  <2>2. CASE core.state = "Filling"
    <3>1. packets = <<>>
      BY <1>3, <2>1, <2>2 DEF Silent
    <3>2. shown' = shown
      BY <1>1, <3>1, NothingShown
    <3>3. Covered' = Covered
      BY <3>2 DEF Covered
    <3> QED BY <1>1, <1>3, <2>1, <3>3 DEF Flowing, Stays
  <2>3. CASE core.state # "Filling"
    BY <1>1, <1>3, <2>1, <2>3 DEF Flowing, Stays
  <2> QED BY <2>1, <2>2, <2>3
<1>10. OrderInv'
  BY <1>1, <1>2, <1>4, <1>5, <1>6, <1>9, OrderKept
<1>11. d.state # "Error" => Ordered(packets) /\ (loose.epoch \/ LaneOrdered(packets))
  <2> SUFFICES ASSUME d.state # "Error", ~loose.epoch PROVE LaneOrdered(packets)
    BY <1>6
  <2>1. CASE Flowing(core)
    BY <1>6, <2>1
  <2>2. CASE ~Flowing(core)
    <3>1. packets = <<>>
      BY <1>3, <1>8, <2>2
    <3> QED BY <3>1, NothingOrdered
  <2> QED BY <2>1, <2>2
<1>12. Emits
  BY <1>1, <1>4, <1>11, OrderedEmits
<1> QED BY <1>10, <1>12

\* It does so from the invariant.
LEMMA GoesOn ==
  ASSUME OrderInv
  PROVE  /\ ShownOK /\ last.count \in Nat /\ Sound(core, last.count) /\ Shaped(core)
         /\ Top(last) \in [Streams -> Bound]
         /\ Going(core, Top(last), <<>>, Flowing(core) /\ ~loose.epoch)
<1>1. ShownOK /\ LastOK /\ Sound(core, last.count)
  BY DEF OrderInv, SoundInv
<1>2. Shaped(core)
  BY <1>1, SoundShaped
<1>3. last.count \in Nat /\ Top(last) \in [Streams -> Bound]
  BY <1>1, TopTyped DEF LastOK
<1>4. <<>> \in Seq(Packets) /\ Ordered(<<>>) /\ LaneOrdered(<<>>)
  BY NothingOrdered
<1>5. /\ Arranged(core, Top(last)) /\ Horizons(core, <<>>)
      /\ Flowing(core) /\ ~loose.epoch => InEpoch(core, Top(last))
  BY DEF OrderInv
<1> QED BY <1>1, <1>2, <1>3, <1>4, <1>5 DEF Going

\* The calls that hand packets in and out.
LEMMA TrafficOrder ==
  ASSUME OrderInv, SoundInv', Push \/ PushStale \/ Poll
  PROVE  OrderInv' /\ Emits
<1> DEFINE flow == Flowing(core) /\ ~loose.epoch
           top == Top(last)
<1>1. /\ ShownOK /\ last.count \in Nat /\ Sound(core, last.count) /\ Shaped(core)
      /\ top \in [Streams -> Bound] /\ Going(core, top, <<>>, flow)
  BY GoesOn
<1>2. LastOK /\ core.observed \in Nat
  BY <1>1 DEF OrderInv, SoundInv, Sound, Timed
<1> HIDE DEF flow, top
<1>3. CASE Push
  <2>1. PICK s \in Streams :
          /\ InOrder(NextPacket(core.observed, s))
          /\ Returns(Pushed(core, NextPacket(core.observed, s)), loose)
          /\ Sent(NextPacket(core.observed, s))
    BY <1>3 DEF Push
  <2> DEFINE p == NextPacket(core.observed, s)
             r == Pushed(core, p)
             new == Top(last)'
  <2>2. core.observed \in Int
    BY <1>2
  <2>3. p.seq = last.count + 1
    BY <1>2, <2>2, NextPacketTyped
  <2>4. Comes(p, top, new)
    BY <1>2, <2>1, <2>2, NextComes DEF top
  <2>5. Returns(r, loose)
    BY <2>1
  <2> HIDE DEF p, new
  <2>6. /\ Going(r.core, new, r.out, flow)
        /\ r.core.state # "Error" => Stays(core, r.core)
        /\ r.core.state # "Error" /\ Silent(core) => r.out = <<>>
    BY <1>1, <2>3, <2>4, PushedGoing
  <2> HIDE DEF r
  <2> QED BY <2>5, <2>6, GoingOrder DEF flow, new
<1>4. CASE PushStale
  <2>1. PICK s \in Streams :
          /\ InOrder(NextPacket(core.observed - 1, s))
          /\ Returns(PassLive(EnterError(core), NextPacket(core.observed - 1, s)), loose)
          /\ Sent(NextPacket(core.observed - 1, s))
    BY <1>4 DEF PushStale
  <2> DEFINE p == NextPacket(core.observed - 1, s)
             c == EnterError(core)
             r == PassLive(c, p)
             new == Top(last)'
  <2>2. core.observed - 1 \in Int
    BY <1>2
  <2>3. Comes(p, top, new)
    BY <1>2, <2>1, <2>2, NextComes DEF top
  <2>4. Returns(r, loose)
    BY <2>1
  <2> HIDE DEF p, new
  <2>5. /\ Shaped(c) /\ Arranged(c, top) /\ c.state = "Error" /\ c.pending = <<>>
        /\ Horizons(c, <<>>)
    BY <1>1, ErrorOrdered DEF Going
  <2> HIDE DEF c
  <2>6. Going(c, top, <<>>, flow) /\ Passing(c) /\ c.state # "Filling"
    BY <2>5, NothingOrdered DEF Going, Passing
  <2>7. Going(r.core, new, <<>> \o r.out, flow) /\ r.core.state = "Error"
    BY <1>1, <2>3, <2>5, <2>6, PassGoing
  <2> HIDE DEF r
  <2>8. Going(r.core, new, r.out, flow)
    <3>1. PICK q : r.out = <<q>>
      BY DEF r, PassLive
    <3>2. <<>> \o r.out = r.out
      BY <3>1
    <3> QED BY <2>7, <3>2
  <2> QED BY <2>4, <2>7, <2>8, GoingOrder DEF flow, new
<1>5. CASE Poll
  <2> DEFINE r == Polled(core)
             new == Top(last)'
  <2>1. Returns(r, loose) /\ last' = last
    BY <1>5 DEF Poll
  <2>2. new = top
    BY <2>1 DEF top, Top, Ahead
  <2>3. /\ Going(r.core, top, r.out, flow)
        /\ r.core.state # "Error" => Stays(core, r.core)
        /\ r.core.state # "Error" /\ Silent(core) => r.out = <<>>
    BY <1>1, PolledGoing
  <2> HIDE DEF r, new
  <2>4. Going(r.core, new, r.out, flow)
    BY <2>2, <2>3
  <2> QED BY <2>1, <2>3, <2>4, GoingOrder DEF flow, new
<1> QED BY <1>3, <1>4, <1>5

\* Nothing was sent at first.
LEMMA OrderStart == Init => OrderInv
<1> SUFFICES ASSUME Init PROVE OrderInv
  OBVIOUS
<1>1. SoundInv
  BY SoundInit
<1>2. /\ core.queues = [s \in Streams |-> <<>>] /\ core.pending = <<>> /\ core.state = "Bypass"
      /\ core.offsets = <<>> /\ core.lastDts = <<>> /\ core.maxPts = <<>>
      /\ core.preparingChange = FALSE /\ core.fromDelayed = FALSE
  BY DEF Init, NewCore
<1>3. Queued(core) = {} /\ DOMAIN <<>> = {}
  BY <1>2 DEF Queued
<1>4. \A s \in Streams : DOMAIN core.queues[s] = {}
  BY <1>2, <1>3
<1>5. Arranged(core, Top(last))
  BY <1>2, <1>3, <1>4 DEF Arranged, Rising, PendingRising, OneEach, Flags
<1>6. InEpoch(core, Top(last))
  BY <1>2, <1>3 DEF InEpoch
<1>7. shown = [t \in Timelines |-> [seq |-> 0, dts |-> {}, pts |-> {}]]
  BY DEF Init
<1>8. ShownOK
  <2>1. [seq |-> 0, dts |-> {}, pts |-> {}] \in [seq : Int, dts : SUBSET Int, pts : SUBSET Int]
    OBVIOUS
  <2>2. \A t \in Timelines : shown[t].pts \subseteq {0}
    BY <1>7
  <2> QED BY <1>7, <2>1, <2>2 DEF ShownOK
<1>9. Horizons(core, <<>>)
  BY <1>2, <1>3, <1>7 DEF Horizons
<1> QED BY <1>1, <1>2, <1>5, <1>6, <1>8, <1>9 DEF OrderInv

\* Only packets that come and polls emit.
LEMMA OthersSilent ==
  ASSUME \/ Refused \/ PruneNow \/ ObserveExternalOutput
         \/ RequestActivate \/ BeginFilling \/ CommitDelayed
         \/ ChangePreparation \/ ChangeFilling \/ ChangeDelayed
         \/ CancelPreparedChange \/ CancelFillingOfChange \/ CancelActivation
         \/ RequestDeactivate \/ CommitReturn \/ FinishReturn
         \/ ReportError \/ Recover
  PROVE  out' = <<>>
<1>1. ASSUME NEW d, NEW free, Returns(Quiet(d), free) PROVE out' = <<>>
  BY <1>1 DEF Returns, Quiet
<1>2. \A d : Accepted(d) => out' = <<>>
  BY <1>1 DEF Accepted
<1>3. \A d : Begun(d) => out' = <<>>
  BY <1>2 DEF Begun
<1>4. \A d, lanes : Committed(d, lanes) => out' = <<>>
  BY <1>1 DEF Committed
<1> QED BY <1>1, <1>2, <1>3, <1>4
        DEF Refused, PruneNow, ObserveExternalOutput, RequestActivate, BeginFilling,
            CommitDelayed, ChangePreparation, ChangeFilling, ChangeDelayed,
            CancelPreparedChange, CancelFillingOfChange, CancelActivation,
            RequestDeactivate, CommitReturn, FinishReturn, ReportError, Recover

\* Every step keeps the order, and emits in it.
LEMMA OrderStep ==
  ASSUME OrderInv, [Next]_vars
  PROVE  OrderInv' /\ [Emits]_vars
<1>1. SoundInv'
  BY SoundStep DEF OrderInv
<1>2. CASE Push \/ PushStale \/ Poll
  BY <1>1, <1>2, TrafficOrder
<1>3. CASE \/ Refused \/ PruneNow \/ ObserveExternalOutput
           \/ RequestActivate \/ BeginFilling \/ CommitDelayed
           \/ ChangePreparation \/ ChangeFilling \/ ChangeDelayed
           \/ CancelPreparedChange \/ CancelFillingOfChange \/ CancelActivation
           \/ RequestDeactivate \/ CommitReturn \/ FinishReturn
           \/ ReportError \/ Recover
  <2>1. Emits
    BY <1>3, OthersSilent, SilentEmits
  <2>2. OrderInv'
    BY <1>1, <1>3, TimeOrder, CoverOrder, ClearingOrder, FillingOrder, CommitsOrder,
       ChangingOrder, CancelOrder, ReturningOrder
  <2> QED BY <2>1, <2>2
<1>4. CASE UNCHANGED vars
  <2>1. /\ core' = core /\ last' = last /\ shown' = shown /\ loose' = loose
    BY <1>4 DEF vars
  <2>2. ShownOK /\ Horizons(core, <<>>)
    BY DEF OrderInv
  <2>3. Marks(shown', <<>>, "Error")
    BY <2>1, <2>2, UnmarkedShows
  <2>4. Top(last)' = Top(last) /\ (Flowing(core)' => Flowing(core))
    BY <2>1 DEF Top, Ahead, Flowing, Covered
  <2>5. OrderInv'
    BY <1>1, <2>1, <2>2, <2>3, <2>4, OrderKept DEF OrderInv
  <2> QED BY <1>4, <2>5
<1> QED BY <1>2, <1>3, <1>4 DEF Next

\* Whatever is requested, cut, cancelled or committed, and whatever comes when: the packets
\* that push and poll return never go back in DTS, over all lanes; every lane's DTS increases;
\* and a keyframe is presented after all that its lane has shown. It is what
\* create_timestamp_offset_locked and begin_timestamp_epoch_locked promise, and
\* note_output_timestamp_locked enforces over all lanes alone.
THEOREM EmittedInOrder == Spec => OutputInOrder
<1>1. Init => OrderInv
  BY OrderStart
<1>2. OrderInv /\ [Next]_vars => OrderInv'
  BY OrderStep
<1>3. OrderInv /\ [Next]_vars => [Emits]_vars
  BY OrderStep
<1>4. Spec => [][Emits]_vars
  BY <1>1, <1>2, <1>3, PTL DEF Spec
<1> QED BY <1>4, PTL DEF OutputInOrder, Emits

=============================================================================
