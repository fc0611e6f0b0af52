---------------------------- MODULE IsaTopProofs ----------------------------
(* isa-top for any number of packets and endpoints: moving nodes keeps the     *)
(* list a list, and what is counted, displayed and lost adds up.               *)
EXTENDS IsaTop, FiniteSetTheorems, WellFoundedInduction, TLAPS

-----------------------------------------------------------------------------
(* Induction over the subsets of a finite set and over the natural numbers,    *)
(* for a set G of good ones.                                                   *)

(* Every set of natural numbers that is not empty has a least one.             *)
LEMMA LeastNat ==
    ASSUME NEW S, S \subseteq Nat, S # {}
    PROVE  \E n \in S : \A m \in S : n <= m
<1>1. PICK n \in S : \A m \in S : ~(<<m, n>> \in OpToRel(<, Nat))
    BY NatLessThanWellFounded, WFMin
<1>2. \A m \in S : ~(m < n)
    BY <1>1 DEF OpToRel
<1> QED
    BY <1>2

(* Induction up to N.                                                          *)
LEMMA UpTo ==
    ASSUME NEW N \in Nat, NEW G, 0 \in G, \A k \in 0 .. N - 1 : k \in G => k + 1 \in G
    PROVE  0 .. N \subseteq G
<1> DEFINE Bad == {k \in 0 .. N : k \notin G}
<1>1. SUFFICES ASSUME Bad # {} PROVE FALSE
    OBVIOUS
<1>2. Bad \subseteq Nat
    OBVIOUS
<1>3. PICK n \in Bad : \A m \in Bad : n <= m
    BY <1>1, <1>2, LeastNat
<1>4. n \in 0 .. N /\ n # 0 /\ n \notin G
    BY <1>3
<1>5. n - 1 \in 0 .. N - 1 /\ n - 1 \notin Bad /\ n - 1 \in 0 .. N
    BY <1>3, <1>4
<1>6. n - 1 \in G
    BY <1>5
<1>7. (n - 1) + 1 \in G
    BY <1>5, <1>6
<1> QED
    BY <1>4, <1>7

(* Induction over the subsets of a finite set.                                 *)
LEMMA SubsetInduction ==
    ASSUME NEW S, IsFiniteSet(S), NEW G,
           \A T \in SUBSET S : (\A x \in T : T \ {x} \in G) => T \in G
    PROVE  \A T \in SUBSET S : T \in G
<1> DEFINE Bad == {T \in SUBSET S : T \notin G}
           Sizes == {Cardinality(T) : T \in Bad}
<1>1. SUFFICES ASSUME Bad # {} PROVE FALSE
    OBVIOUS
<1>2. \A T \in SUBSET S : IsFiniteSet(T) /\ Cardinality(T) \in Nat
    BY FS_Subset, FS_CardinalityType
<1>3. Sizes \subseteq Nat /\ Sizes # {}
    BY <1>1, <1>2
<1>4. PICK n \in Sizes : \A m \in Sizes : n <= m
    BY <1>3, LeastNat
<1>5. PICK T \in Bad : n = Cardinality(T)
    BY <1>4
<1>6. T \in SUBSET S /\ T \notin G
    BY <1>5
<1>7. ASSUME NEW x \in T
      PROVE  T \ {x} \in G
    <2>1. Cardinality(T \ {x}) = Cardinality(T) - 1 /\ T \ {x} \in SUBSET S
        BY <1>2, <1>6, <1>7, FS_RemoveElement
    <2>2. SUFFICES ASSUME T \ {x} \in Bad PROVE FALSE
        BY <2>1
    <2>3. Cardinality(T \ {x}) \in Sizes
        BY <2>2
    <2>4. n <= Cardinality(T \ {x}) /\ n \in Nat
        BY <1>3, <1>4, <2>3
    <2> QED
        BY <1>5, <2>1, <2>4
<1> QED
    BY <1>6, <1>7

-----------------------------------------------------------------------------
(* Sums over finite sets *)

(* F gives the sum of g over every subset of S. *)
IsSum(F, g, S) ==
    /\ F \in [SUBSET S -> Int]
    /\ F[{}] = 0
    /\ \A T \in SUBSET S : \A x \in T : F[T] = g[x] + F[T \ {x}]

(* The recursion that SumFunctionOnSet chooses a function for has one.         *)
LEMMA SumExists ==
    ASSUME NEW S, IsFiniteSet(S), NEW g, \A x \in S : g[x] \in Int
    PROVE  \E F : IsSum(F, g, S)
<1> DEFINE G == {T \in SUBSET S : \E F : IsSum(F, g, T)}
<1>1. {} \in G
    <2> DEFINE F == [T \in SUBSET {} |-> 0]
    <2>1. IsSum(F, g, {})
        BY DEF IsSum
    <2> QED
        BY <2>1
<1>2. ASSUME NEW T \in SUBSET S, NEW y \in T, T \ {y} \in G
      PROVE  T \in G
    <2>1. PICK F : IsSum(F, g, T \ {y})
        BY <1>2
    <2>2. /\ F \in [SUBSET (T \ {y}) -> Int] /\ F[{}] = 0
          /\ \A U \in SUBSET (T \ {y}) : \A x \in U : F[U] = g[x] + F[U \ {x}]
        BY <2>1 DEF IsSum
    <2> DEFINE H == [U \in SUBSET T |-> IF y \in U THEN g[y] + F[U \ {y}] ELSE F[U]]
    <2>3. g[y] \in Int /\ \A x \in T : g[x] \in Int
        BY <1>2
    <2>4. H \in [SUBSET T -> Int]
        <3>1. ASSUME NEW U \in SUBSET T
              PROVE  (IF y \in U THEN g[y] + F[U \ {y}] ELSE F[U]) \in Int
            <4>1. CASE y \in U
                <5>1. U \ {y} \in SUBSET (T \ {y})
                    OBVIOUS
                <5>2. F[U \ {y}] \in Int
                    BY <2>2, <5>1
                <5> QED
                    BY <2>3, <4>1, <5>2
            <4>2. CASE y \notin U
                <5>1. U \in SUBSET (T \ {y})
                    BY <4>2
                <5> QED
                    BY <2>2, <4>2, <5>1
            <4> QED
                BY <4>1, <4>2
        <3> QED
            BY <3>1
    <2>5. H[{}] = 0
        BY <2>2
    <2>6. ASSUME NEW U \in SUBSET T, NEW x \in U
          PROVE  H[U] = g[x] + H[U \ {x}]
        <3> DEFINE V == U \ {y}
        <3>0. U \ {x} \in SUBSET T /\ V \in SUBSET (T \ {y}) /\ g[x] \in Int
            BY <2>3, <2>6
        <3>1. CASE y \notin U
            <4>1. U \in SUBSET (T \ {y}) /\ y \notin U \ {x}
                BY <3>1
            <4>2. H[U] = F[U] /\ H[U \ {x}] = F[U \ {x}]
                BY <3>0, <3>1, <4>1
            <4> QED
                BY <2>2, <2>6, <4>1, <4>2
        <3>2. CASE x = y
            <4>1. H[U] = g[y] + F[V] /\ H[V] = F[V]
                BY <3>0, <3>2, <2>6
            <4> QED
                BY <3>2, <4>1
        <3>3. CASE x # y /\ y \in U
            <4>1. x \in V /\ y \in U \ {x} /\ (U \ {x}) \ {y} = V \ {x}
                BY <2>6, <3>3
            <4>2. H[U] = g[y] + F[V] /\ H[U \ {x}] = g[y] + F[V \ {x}]
                BY <3>0, <3>3, <4>1
            <4>3. F[V] = g[x] + F[V \ {x}]
                BY <2>2, <3>0, <4>1
            <4>4. F[V \ {x}] \in Int
                BY <2>2, <3>0
            <4> QED
                BY <2>3, <3>0, <4>2, <4>3, <4>4
        <3> QED
            BY <3>1, <3>2, <3>3
    <2> HIDE DEF H
    <2>7. IsSum(H, g, T)
        BY <2>4, <2>5, <2>6 DEF IsSum
    <2> QED
        BY <2>7
<1>3. ASSUME NEW T \in SUBSET S, \A x \in T : T \ {x} \in G
      PROVE  T \in G
    BY <1>1, <1>2, <1>3
<1>4. S \in G
    BY <1>3, SubsetInduction
<1> QED
    BY <1>4

(* SumFunctionOnSet obeys that recursion.                                      *)
LEMMA SumIs ==
    ASSUME NEW S, IsFiniteSet(S), NEW g, \A x \in S : g[x] \in Int, NEW F, IsSum(F, g, S)
    PROVE  SumFunctionOnSet(g, S) = F[S]
<1> DEFINE Iterates(f) == f = [s \in SUBSET S |-> IF s = {} THEN 0
                                   ELSE g[CHOOSE x \in s : TRUE] + f[s \ {CHOOSE x \in s : TRUE}]]
<1>1. Iterates(F)
    <2>1. F = [s \in SUBSET S |-> F[s]] /\ F[{}] = 0
        BY DEF IsSum
    <2>2. ASSUME NEW s \in SUBSET S, s # {}
          PROVE  F[s] = g[CHOOSE x \in s : TRUE] + F[s \ {CHOOSE x \in s : TRUE}]
        <3>1. (CHOOSE x \in s : TRUE) \in s
            BY <2>2
        <3> QED
            BY <3>1 DEF IsSum
    <2> QED
        BY <2>1, <2>2
<1> DEFINE f == CHOOSE f : Iterates(f)
<1>2. Iterates(f)
    BY <1>1
<1>3. SumFunctionOnSet(g, S) = f[S]
    BY Zenon DEF SumFunctionOnSet, FoldFunctionOnSet, MapThenFoldSet
<1> HIDE DEF f
<1> DEFINE G == {T \in SUBSET S : f[T] = F[T]}
<1>4. {} \in G
    BY <1>2 DEF IsSum
<1>5. \A s \in SUBSET S : s # {} => f[s] = g[CHOOSE x \in s : TRUE] + f[s \ {CHOOSE x \in s : TRUE}]
    BY <1>2
<1>6. ASSUME NEW T \in SUBSET S, \A x \in T : T \ {x} \in G
      PROVE  T \in G
    <2>1. CASE T = {}
        BY <1>4, <2>1
    <2>2. CASE T # {}
        <3> DEFINE x == CHOOSE x \in T : TRUE
        <3>1. x \in T
            BY <2>2
        <3>2. f[T] = g[x] + f[T \ {x}]
            BY <1>5, <2>2
        <3> HIDE DEF x
        <3>3. T \ {x} \in G
            BY <1>6, <3>1
        <3>4. F[T] = g[x] + F[T \ {x}]
            BY <3>1 DEF IsSum
        <3> QED
            BY <3>2, <3>3, <3>4
    <2> QED
        BY <2>1, <2>2
<1>7. S \in G
    BY <1>6, SubsetInduction
<1> QED
    BY <1>3, <1>7

(* A sum of integers is an integer.                                            *)
LEMMA SumType ==
    ASSUME NEW S, IsFiniteSet(S), NEW g, \A x \in S : g[x] \in Int
    PROVE  SumFunctionOnSet(g, S) \in Int
<1>1. PICK F : IsSum(F, g, S)
    BY SumExists
<1>2. SumFunctionOnSet(g, S) = F[S]
    BY <1>1, SumIs
<1> QED
    BY <1>1, <1>2 DEF IsSum

(* The empty sum is 0.                                                         *)
LEMMA SumEmpty ==
    ASSUME NEW g
    PROVE  SumFunctionOnSet(g, {}) = 0
<1>1. IsFiniteSet({})
    BY FS_EmptySet
<1>2. PICK F : IsSum(F, g, {})
    BY <1>1, SumExists
<1>3. SumFunctionOnSet(g, {}) = F[{}]
    BY <1>1, <1>2, SumIs
<1> QED
    BY <1>2, <1>3 DEF IsSum

(* Any summand can be taken out.                                               *)
LEMMA SumWithout ==
    ASSUME NEW S, IsFiniteSet(S), NEW g, \A x \in S : g[x] \in Int, NEW x \in S
    PROVE  SumFunctionOnSet(g, S) = g[x] + SumFunctionOnSet(g, S \ {x})
<1>1. PICK F : IsSum(F, g, S)
    BY SumExists
<1>2. SumFunctionOnSet(g, S) = F[S]
    BY <1>1, SumIs
<1> DEFINE R == S \ {x}
           H == [T \in SUBSET R |-> F[T]]
<1>3. IsSum(H, g, R)
    <2>1. R \subseteq S
        OBVIOUS
    <2>2. /\ F \in [SUBSET S -> Int] /\ F[{}] = 0
          /\ \A T \in SUBSET S : \A y \in T : F[T] = g[y] + F[T \ {y}]
        BY <1>1 DEF IsSum
    <2> QED
        BY <2>1, <2>2 DEF IsSum
<1>4. IsFiniteSet(R) /\ \A y \in R : g[y] \in Int
    BY FS_Subset
<1>5. SumFunctionOnSet(g, R) = H[R]
    BY <1>3, <1>4, SumIs
<1>6. H[R] = F[R] /\ F[S] = g[x] + F[R]
    BY <1>1 DEF IsSum
<1> QED
    BY <1>2, <1>5, <1>6

(* A sum depends on its summands only.                                         *)
LEMMA SumSame ==
    ASSUME NEW S, IsFiniteSet(S), NEW g, NEW h, \A x \in S : g[x] \in Int /\ h[x] = g[x]
    PROVE  SumFunctionOnSet(g, S) = SumFunctionOnSet(h, S)
<1>1. PICK F : IsSum(F, g, S)
    BY SumExists
<1>2. IsSum(F, h, S)
    <2>1. \A T \in SUBSET S : \A x \in T : h[x] = g[x]
        OBVIOUS
    <2> QED
        BY <1>1, <2>1 DEF IsSum
<1>3. \A x \in S : g[x] \in Int
    OBVIOUS
<1>4. \A x \in S : h[x] \in Int
    OBVIOUS
<1> QED
    BY <1>1, <1>2, <1>3, <1>4, SumIs

(* A summand that grows makes the sum grow as much.                            *)
LEMMA SumUpdate ==
    ASSUME NEW S, IsFiniteSet(S), NEW g, NEW h, NEW y \in S, NEW d \in Int,
           \A x \in S : g[x] \in Int /\ h[x] = IF x = y THEN g[x] + d ELSE g[x]
    PROVE  SumFunctionOnSet(h, S) = SumFunctionOnSet(g, S) + d
<1> DEFINE R == S \ {y}
<1>1. IsFiniteSet(R) /\ (\A x \in R : g[x] \in Int /\ h[x] = g[x]) /\ h[y] = g[y] + d /\ g[y] \in Int
    BY FS_Subset
<1>2. (\A x \in S : g[x] \in Int) /\ (\A x \in S : h[x] \in Int)
    OBVIOUS
<1>3. SumFunctionOnSet(g, S) = g[y] + SumFunctionOnSet(g, R)
    BY <1>2, SumWithout
<1>4. SumFunctionOnSet(h, S) = h[y] + SumFunctionOnSet(h, R)
    BY <1>2, SumWithout
<1>5. SumFunctionOnSet(g, R) = SumFunctionOnSet(h, R) /\ SumFunctionOnSet(g, R) \in Int
    BY <1>1, SumSame, SumType
<1> QED
    BY <1>1, <1>3, <1>4, <1>5

(* One summand more.                                                           *)
LEMMA SumExtended ==
    ASSUME NEW S, IsFiniteSet(S), NEW g, NEW h, NEW y, y \notin S, h[y] \in Int,
           \A x \in S : g[x] \in Int /\ h[x] = g[x]
    PROVE  SumFunctionOnSet(h, S \cup {y}) = SumFunctionOnSet(g, S) + h[y]
<1> DEFINE R == S \cup {y}
<1>1. IsFiniteSet(R) /\ R \ {y} = S /\ y \in R
    BY FS_AddElement
<1>2. (\A x \in S : g[x] \in Int) /\ (\A x \in R : h[x] \in Int)
    OBVIOUS
<1>3. SumFunctionOnSet(h, R) = h[y] + SumFunctionOnSet(h, S)
    BY <1>1, <1>2, SumWithout
<1>4. SumFunctionOnSet(g, S) = SumFunctionOnSet(h, S) /\ SumFunctionOnSet(g, S) \in Int
    BY <1>2, SumSame, SumType
<1> QED
    BY <1>3, <1>4

(* Without negative summands a part is at most the whole, and at least 0.      *)
LEMMA SumOfPart ==
    ASSUME NEW S, IsFiniteSet(S), NEW g, \A x \in S : g[x] \in Nat, NEW R \in SUBSET S
    PROVE  0 <= SumFunctionOnSet(g, R) /\ SumFunctionOnSet(g, R) <= SumFunctionOnSet(g, S)
<1> DEFINE Z(T) == SumFunctionOnSet(g, T)
           G == {T \in SUBSET S : 0 <= Z(T) /\ Z(T \cap R) <= Z(T)}
<1>1. \A T \in SUBSET S : IsFiniteSet(T) /\ (\A x \in T : g[x] \in Int) /\ Z(T) \in Int
    BY FS_Subset, SumType
<1>2. ASSUME NEW T \in SUBSET S, \A x \in T : T \ {x} \in G
      PROVE  T \in G
    <2>1. CASE T = {}
        <3>1. Z(T) = 0 /\ T \cap R = T
            BY <2>1, SumEmpty
        <3> QED
            BY <3>1
    <2>2. CASE T # {}
        <3>1. PICK x \in T : TRUE
            BY <2>2
        <3>2. T \ {x} \in G /\ g[x] \in Nat
            BY <1>2, <3>1
        <3>3. Z(T) = g[x] + Z(T \ {x})
            BY <1>1, <3>1, SumWithout
        <3>4. 0 <= Z(T \ {x}) /\ Z((T \ {x}) \cap R) <= Z(T \ {x})
            BY <3>2
        <3>5. /\ Z(T \ {x}) \in Int /\ Z((T \ {x}) \cap R) \in Int /\ Z(T) \in Int
              /\ Z(T \cap R) \in Int
            BY <1>1
        <3>6. Z(T \cap R) <= g[x] + Z((T \ {x}) \cap R)
            <4>1. CASE x \in R
                <5>1. (T \cap R) \ {x} = (T \ {x}) \cap R /\ x \in T \cap R /\ T \cap R \in SUBSET S
                    BY <3>1, <4>1
                <5>2. Z(T \cap R) = g[x] + Z((T \cap R) \ {x})
                    BY <1>1, <5>1, SumWithout
                <5>3. Z(T \cap R) = g[x] + Z((T \ {x}) \cap R)
                    BY <5>1, <5>2
                <5> HIDE DEF Z
                <5> QED
                    BY <3>2, <3>5, <5>3
            <4>2. CASE x \notin R
                <5>1. T \cap R = (T \ {x}) \cap R
                    BY <4>2
                <5>2. Z(T \cap R) = Z((T \ {x}) \cap R)
                    BY <5>1
                <5> HIDE DEF Z
                <5> QED
                    BY <3>2, <3>5, <5>2
            <4> QED
                BY <4>1, <4>2
        <3> HIDE DEF Z
        <3>7. 0 <= Z(T) /\ Z(T \cap R) <= Z(T)
            BY <3>2, <3>3, <3>4, <3>5, <3>6
        <3> QED
            BY <3>7
    <2> QED
        BY <2>1, <2>2
<1>3. \A T \in SUBSET S : T \in G
    BY <1>2, SubsetInduction
<1>4. R \cap R = R /\ S \cap R = R
    OBVIOUS
<1> QED
    BY <1>3, <1>4

(* A part and the rest together are the whole.                                 *)
LEMMA SumApart ==
    ASSUME NEW S, IsFiniteSet(S), NEW g, \A x \in S : g[x] \in Int, NEW R \in SUBSET S
    PROVE  SumFunctionOnSet(g, S) = SumFunctionOnSet(g, R) + SumFunctionOnSet(g, S \ R)
<1> DEFINE Z(T) == SumFunctionOnSet(g, T)
           G == {T \in SUBSET S : Z(T) = Z(T \cap R) + Z(T \ R)}
<1>1. \A T \in SUBSET S : IsFiniteSet(T) /\ (\A x \in T : g[x] \in Int) /\ Z(T) \in Int
    BY FS_Subset, SumType
<1>2. ASSUME NEW T \in SUBSET S, \A x \in T : T \ {x} \in G
      PROVE  T \in G
    <2>1. CASE T = {}
        <3>1. T \cap R = T /\ T \ R = T
            BY <2>1
        <3>2. Z(T) = 0
            BY <2>1, SumEmpty
        <3>3. Z(T \cap R) = 0 /\ Z(T \ R) = 0
            BY <3>1, <3>2
        <3> HIDE DEF Z
        <3> QED
            BY <3>2, <3>3
    <2>2. CASE T # {}
        <3>1. PICK x \in T : TRUE
            BY <2>2
        <3>2. PICK U \in SUBSET S : U = T \ {x}
            OBVIOUS
        <3>3. Z(T) = g[x] + Z(U) /\ Z(U) = Z(U \cap R) + Z(U \ R)
            <4>1. Z(T) = g[x] + Z(U)
                BY <1>1, <3>1, <3>2, SumWithout
            <4> QED
                BY <1>2, <3>1, <3>2, <4>1
        <3>4. g[x] \in Int /\ Z(U \cap R) \in Int /\ Z(U \ R) \in Int
            BY <1>1, <3>1
        <3>5. CASE x \in R
            <4>1. (T \cap R) \ {x} = U \cap R /\ x \in T \cap R /\ T \cap R \in SUBSET S /\ T \ R = U \ R
                BY <3>1, <3>2, <3>5
            <4>2. Z(T \cap R) = g[x] + Z((T \cap R) \ {x})
                BY <1>1, <4>1, SumWithout
            <4>3. Z(T \cap R) = g[x] + Z(U \cap R) /\ Z(T \ R) = Z(U \ R)
                BY <4>1, <4>2
            <4> HIDE DEF Z
            <4> QED
                BY <3>3, <3>4, <4>3
        <3>6. CASE x \notin R
            <4>1. (T \ R) \ {x} = U \ R /\ x \in T \ R /\ T \ R \in SUBSET S /\ T \cap R = U \cap R
                BY <3>1, <3>2, <3>6
            <4>2. Z(T \ R) = g[x] + Z((T \ R) \ {x})
                BY <1>1, <4>1, SumWithout
            <4>3. Z(T \ R) = g[x] + Z(U \ R) /\ Z(T \cap R) = Z(U \cap R)
                BY <4>1, <4>2
            <4> HIDE DEF Z
            <4> QED
                BY <3>3, <3>4, <4>3
        <3> QED
            BY <3>5, <3>6
    <2> QED
        BY <2>1, <2>2
<1>3. \A T \in SUBSET S : T \in G
    BY <1>2, SubsetInduction
<1>4. S \in G /\ S \cap R = R
    BY <1>3
<1> QED
    BY <1>4

Nodes(s, k) == {s[i] : i \in 1..k}

(* h is g along the first k places of s, which has no repetition. *)
Along(k, s, g, h) ==
    \A i \in 1..k : /\ h[i] = g[s[i]] /\ g[s[i]] \in Int
                    /\ \A j \in 1..k : s[i] = s[j] => i = j

(* A sum over the nodes of a list is the sum along the list.                   *)
LEMMA SumAlong ==
    ASSUME NEW k \in Nat, NEW s, NEW g, NEW h, Along(k, s, g, h)
    PROVE  SumFunctionOnSet(h, 1 .. k) = SumFunctionOnSet(g, Nodes(s, k))
<1>0. /\ \A i, j \in 1 .. k : s[i] = s[j] => i = j
      /\ \A i \in 1 .. k : h[i] = g[s[i]]
      /\ \A i \in 1 .. k : g[s[i]] \in Int
    BY DEF Along
<1> DEFINE S == 1 .. k
           I(T) == {s[i] : i \in T}
           G == {T \in SUBSET S : /\ IsFiniteSet(I(T))
                                   /\ SumFunctionOnSet(h, T) = SumFunctionOnSet(g, I(T))}
<1>1. IsFiniteSet(S)
    BY FS_Interval
<1>2. ASSUME NEW T \in SUBSET S, \A x \in T : T \ {x} \in G
      PROVE  T \in G
    <2>1. CASE T = {}
        <3>1. I(T) = {}
            BY <2>1
        <3> QED
            BY <2>1, <3>1, SumEmpty, FS_EmptySet
    <2>2. CASE T # {}
        <3>1. PICK i \in T : TRUE
            BY <2>2
        <3>2. IsFiniteSet(T) /\ IsFiniteSet(I(T))
            <4>1. IsFiniteSet(T)
                BY <1>1, FS_Subset
            <4>2. IsFiniteSet(I(T \ {i}))
                BY <1>2, <3>1
            <4>3. I(T) = I(T \ {i}) \cup {s[i]}
                BY <3>1
            <4>4. IsFiniteSet(I(T \ {i}) \cup {s[i]})
                <5> HIDE DEF I
                <5> QED
                    BY <4>2, FS_AddElement
            <4> QED
                BY <4>1, <4>3, <4>4
        <3>3. (\A j \in T : h[j] \in Int) /\ (\A x \in I(T) : g[x] \in Int)
            BY <1>0
        <3>4. I(T) \ {s[i]} = I(T \ {i}) /\ s[i] \in I(T)
            <4>1. \A j \in T : s[j] = s[i] => j = i
                BY <1>0, <3>1
            <4> QED
                BY <3>1, <4>1
        <3>5. SumFunctionOnSet(h, T) = h[i] + SumFunctionOnSet(h, T \ {i})
            BY <3>1, <3>2, <3>3, SumWithout
        <3>6. SumFunctionOnSet(g, I(T)) = g[s[i]] + SumFunctionOnSet(g, I(T) \ {s[i]})
            BY <3>2, <3>3, <3>4, SumWithout
        <3>7. SumFunctionOnSet(h, T \ {i}) = SumFunctionOnSet(g, I(T \ {i}))
            BY <1>2, <3>1
        <3> HIDE DEF I
        <3>8. h[i] = g[s[i]]
            BY <1>0, <3>1
        <3>9. SumFunctionOnSet(h, T) = SumFunctionOnSet(g, I(T))
            BY <3>4, <3>5, <3>6, <3>7, <3>8
        <3> QED
            BY <3>2, <3>9
    <2> QED
        BY <2>1, <2>2
<1>3. \A T \in SUBSET S : (\A x \in T : T \ {x} \in G) => T \in G
    BY <1>2
<1> HIDE DEF G, S
<1>4. \A T \in SUBSET S : T \in G
    BY <1>1, <1>3, SubsetInduction
<1>5. S \in G
    BY <1>4
<1> QED
    BY <1>5 DEF G, S, Nodes

-----------------------------------------------------------------------------
(* The invariant *)

Ends == {NULL, Garbage}

(* From s[1] on, next leads through s to the end and prev leads back; p stands *)
(* before s[1]. No two of the nodes are of the same communication.             *)
Chain(h, s, k, p) ==
    /\ k \in 1..Len(h) /\ s \in [1..k -> DOMAIN h]
    /\ \A i, j \in 1..k : s[i] = s[j] => i = j
    /\ \A i \in 1..k - 1 : h[s[i]].next = s[i + 1] /\ h[s[i + 1]].prev = s[i]
    /\ h[s[k]].next \in Ends /\ h[s[1]].prev = p
    /\ \A i, j \in 1..k : i # j => ~compare_communications(h[s[i]], h[s[j]])

(* A node that is not in the list s, while it is moved. *)
Apart(h, s, k, n) ==
    /\ n \in DOMAIN h /\ k < Len(h)
    /\ \A i \in 1..k : s[i] # n /\ ~compare_communications(h[s[i]], h[n])
                                /\ ~compare_communications(h[n], h[s[i]])

Total(h, S) == SumFunctionOnSet(Bytes(h), S)
Flow(h, x, y) == SumFunctionOnSet(Sent(h, x, y), DOMAIN h)

(* Nothing is lost but what is counted in missed: it was displayed, or it is   *)
(* in the nodes S and these are going to be the list again, which the display  *)
(* thread has not replaced in the meantime.                                    *)
Settled == SumFunction(captured) <= shown + missed
Pending(S) == SumFunction(captured) <= (shown + missed) + Total(heap, S)
Kept(S, intact) == Settled \/ (display = "print" /\ intact /\ Pending(S))

(* With -c the list is never replaced and its K nodes S are all there are. *)
Complete(last, S, K, intact) ==
    cumulative => intact /\ heap[last].next = NULL /\ S = DOMAIN heap /\ K = Len(heap)

AtRest ==
    \/ head \in Ends /\ Settled /\ (cumulative => head = NULL /\ heap = <<>>)
    \/ \E k \in 1..Len(heap) : \E s \in [1..k -> DOMAIN heap] :
          /\ Chain(heap, s, k, NULL) /\ head = s[1]
          /\ Kept(Nodes(s, k), TRUE) /\ Complete(s[k], Nodes(s, k), k, TRUE)

Leaving ==
    \E k \in 1..Len(heap) : \E s \in [1..k -> DOMAIN heap] :
        /\ Chain(heap, s, k, NULL) /\ head \in {s[1]} \cup Ends
        /\ \E i \in 2..k : s[i] = node
        /\ Kept(Nodes(s, k), head = s[1])
        /\ Complete(s[k], Nodes(s, k), k, head = s[1])

(* The node that is moved, and the rest of the list. *)
Apiece(before, first) ==
    \E k \in 1..Len(heap) : \E s \in [1..k -> DOMAIN heap] :
        /\ Chain(heap, s, k, before) /\ Apart(heap, s, k, node)
        /\ first \in {s[1]} \cup Ends
        /\ Kept(Nodes(s, k) \cup {node}, first = s[1])
        /\ Complete(s[k], Nodes(s, k) \cup {node}, k + 1, first = s[1])

Moving ==
    /\ capture \in {"loop", "get_node", "first", "unlock"} => AtRest
    /\ capture = "move" => Leaving
    /\ capture = "link_prev" => Apiece(NULL, head)
    /\ capture = "link_next" => Apiece(node, head)
    /\ capture = "set_head" => Apiece(node, heap[node].next)

Phases ==
    /\ capture = "loop" => ~mutex
    /\ capture \in {"get_node", "first", "unlock", "move", "link_prev", "link_next", "set_head"} => mutex
    /\ capture \in {"get_node", "first"} => c_info \in Packets
    /\ capture = "first" => head \in Ends
    /\ cumulative => display = "print" /\ head # Garbage /\ capture # "crashed"

(* The nodes together, the leaked ones too, count what was captured. *)
Counted == \A x, y \in Endpoints : Flow(heap, x, y) = captured[<<x, y>>]

(* No row reports more than was captured in its direction. *)
NothingAdded == \A x, y \in Endpoints : BytesShown(x, y) <= captured[<<x, y>>]

RowType == [src : Endpoints, dst : Endpoints, rx : Nat, tx : Nat]

Histories ==
    /\ captured \in [Endpoints \X Endpoints -> Nat] /\ rows \in Seq(RowType)
    /\ Counted /\ OneRowPerPair /\ NothingAdded

IInv == TypeOK /\ Phases /\ Histories /\ Moving

-----------------------------------------------------------------------------
(* The list that next leads through *)

(* Any function that starts at the head and follows next is the one Pointers   *)
(* takes.                                                                      *)
LEMMA PointersIs ==
    ASSUME Len(heap) \in Nat, NEW a, a = [j \in 0 .. Len(heap) |-> a[j]], a[0] = head,
           \A j \in 1 .. Len(heap) :
               a[j] = IF a[j - 1] \in {NULL, Garbage} THEN a[j - 1] ELSE heap[a[j - 1]].next
    PROVE  Pointers = [j \in 1 .. Len(heap) + 1 |-> a[j - 1]]
<1> DEFINE Follows(f) == f = [j \in 0 .. Len(heap) |->
                                 IF j = 0 THEN head
                                 ELSE IF f[j - 1] \in {NULL, Garbage} THEN f[j - 1]
                                 ELSE heap[f[j - 1]].next]
           at == CHOOSE f : Follows(f)
           G == {j \in 0 .. Len(heap) : at[j] = a[j]}
<1>1. Follows(a)
    <2>1. \A j \in 0 .. Len(heap) :
             a[j] = IF j = 0 THEN head
                    ELSE IF a[j - 1] \in {NULL, Garbage} THEN a[j - 1] ELSE heap[a[j - 1]].next
        OBVIOUS
    <2> QED
        BY <2>1
<1>2. Follows(at)
    BY <1>1
<1>3. Pointers = [j \in 1 .. Len(heap) + 1 |-> at[j - 1]]
    BY Zenon DEF Pointers
<1> HIDE DEF at
<1>4. 0 \in G
    BY <1>2
<1>5. ASSUME NEW j \in 0 .. Len(heap) - 1, j \in G
      PROVE  j + 1 \in G
    <2>1. j + 1 \in 1 .. Len(heap) /\ (j + 1) - 1 = j /\ j + 1 \in 0 .. Len(heap) /\ j + 1 # 0
        OBVIOUS
    <2>2. at[j + 1] = IF at[j] \in {NULL, Garbage} THEN at[j] ELSE heap[at[j]].next
        BY <1>2, <2>1
    <2>3. a[j + 1] = IF a[j] \in {NULL, Garbage} THEN a[j] ELSE heap[a[j]].next
        BY <2>1
    <2> QED
        BY <1>5, <2>1, <2>2, <2>3
<1>6. 0 .. Len(heap) \subseteq G
    BY <1>4, <1>5, UpTo
<1>7. \A j \in 1 .. Len(heap) + 1 : at[j - 1] = a[j - 1]
    BY <1>6
<1> QED
    BY <1>3, <1>7

Node(L) == [src : Endpoints, dst : Endpoints, Rx : Nat, Tx : Nat,
            packets_sent_Rx : Nat, packets_sent_Tx : Nat, next : -1 .. L, prev : 0 .. L]

(* From the first node of a chain, List is that chain.                         *)
LEMMA ListOfChain ==
    ASSUME heap \in Seq(Node(Len(heap))), NEW k, NEW s, NEW p, Chain(heap, s, k, p), head = s[1]
    PROVE  List = s /\ Len(List) = k /\ DOMAIN List = 1 .. k
           /\ (HasGarbage <=> heap[s[k]].next = Garbage)
<1> DEFINE L == Len(heap)
           end == heap[s[k]].next
           a == [j \in 0 .. L |-> IF j < k THEN s[j + 1] ELSE end]
<1>1. L \in Nat /\ DOMAIN heap = 1 .. L /\ k \in 1 .. L /\ k \in Nat
    BY DEF Chain
<1>2. \A i \in 1 .. k : s[i] \in 1 .. L /\ s[i] \notin {NULL, Garbage}
    BY <1>1 DEF Chain, NULL, Garbage
<1>3. end \in {NULL, Garbage}
    BY DEF Chain, Ends
<1>4. \A i \in 1 .. k - 1 : heap[s[i]].next = s[i + 1]
    BY DEF Chain
<1> HIDE DEF L, end
<1>5. \A j \in 1 .. L : a[j] = IF a[j - 1] \in {NULL, Garbage} THEN a[j - 1] ELSE heap[a[j - 1]].next
    <2> SUFFICES ASSUME NEW j \in 1 .. L
                 PROVE  a[j] = IF a[j - 1] \in {NULL, Garbage} THEN a[j - 1] ELSE heap[a[j - 1]].next
        OBVIOUS
    <2>0. j \in 0 .. L /\ j - 1 \in 0 .. L
        BY <1>1
    <2>1. CASE j < k
        <3>1. a[j] = s[j + 1] /\ a[j - 1] = s[j] /\ j \in 1 .. k - 1
            BY <1>1, <2>0, <2>1
        <3> QED
            BY <1>1, <1>2, <1>4, <3>1
    <2>2. CASE j = k
        <3>1. a[j] = end /\ a[j - 1] = s[k]
            BY <1>1, <2>0, <2>2
        <3> QED
            BY <1>1, <1>2, <3>1 DEF end
    <2>3. CASE j > k
        <3>1. a[j] = end /\ a[j - 1] = end
            BY <1>1, <2>0, <2>3
        <3> QED
            BY <1>3, <3>1
    <2> QED
        BY <1>1, <2>1, <2>2, <2>3
<1>6. a[0] = head /\ a = [j \in 0 .. L |-> a[j]]
    BY <1>1
<1>7. Pointers = [j \in 1 .. L + 1 |-> a[j - 1]]
    <2> HIDE DEF a
    <2> QED
        BY <1>1, <1>5, <1>6, PointersIs DEF L
<1>8. \A j \in 1 .. L + 1 : Pointers[j] = IF j <= k THEN s[j] ELSE end
    BY <1>1, <1>7
<1>9. DOMAIN Pointers = 1 .. L + 1 /\ Len(Pointers) = L + 1
    BY <1>1, <1>7
<1> HIDE DEF a
<1>10. {j \in DOMAIN Pointers : Pointers[j] \notin {NULL, Garbage}} = 1 .. k
    BY <1>1, <1>2, <1>3, <1>8, <1>9
<1>11. Cardinality(1 .. k) = k
    BY <1>1, FS_Interval
<1>12. List = SubSeq(Pointers, 1, k)
    BY <1>10, <1>11, Zenon DEF List
<1>13. Pointers[L + 1] = end
    BY <1>1, <1>8
<1>14. List = [j \in 1 .. k |-> Pointers[j]]
    BY <1>1, <1>7, <1>12
<1>15. s = [j \in 1 .. k |-> s[j]]
    BY DEF Chain
<1>16. List = s
    BY <1>1, <1>8, <1>14, <1>15
<1>17. Len(s) = k
    BY <1>1, <1>15
<1> QED
    BY <1>9, <1>13, <1>14, <1>16, <1>17 DEF HasGarbage, end

(* A head that is NULL or Garbage gives the empty list.                        *)
LEMMA ListOfEnds ==
    ASSUME heap \in Seq(Node(Len(heap))), head \in Ends
    PROVE  List = <<>> /\ (HasGarbage <=> head = Garbage)
<1> DEFINE L == Len(heap)
           a == [j \in 0 .. L |-> head]
<1>1. L \in Nat
    OBVIOUS
<1> HIDE DEF L
<1>2. a[0] = head /\ a = [j \in 0 .. L |-> a[j]]
    BY <1>1
<1>3. \A j \in 1 .. L : a[j] = IF a[j - 1] \in {NULL, Garbage} THEN a[j - 1] ELSE heap[a[j - 1]].next
    BY <1>1 DEF Ends
<1>4. Pointers = [j \in 1 .. L + 1 |-> a[j - 1]]
    <2> HIDE DEF a
    <2> QED
        BY <1>1, <1>2, <1>3, PointersIs DEF L
<1>5. DOMAIN Pointers = 1 .. L + 1 /\ Len(Pointers) = L + 1 /\ \A j \in 1 .. L + 1 : Pointers[j] = head
    BY <1>1, <1>4
<1>6. {j \in DOMAIN Pointers : Pointers[j] \notin {NULL, Garbage}} = {}
    BY <1>5 DEF Ends
<1>7. List = SubSeq(Pointers, 1, 0)
    BY <1>6, FS_EmptySet, Zenon DEF List
<1>8. List = <<>>
    BY <1>1, <1>4, <1>7
<1> QED
    BY <1>1, <1>5, <1>8 DEF HasGarbage

(* f iterates the function st on D from d. *)
IsIter(f, N, D, d, st) ==
    f \in [0 .. N -> D] /\ f[0] = d /\ \A j \in 1 .. N : f[j] = st[f[j - 1]]

(* Repeating a step on a set that it does not leave.                           *)
LEMMA IterExists ==
    ASSUME NEW N \in Nat, NEW D, NEW d \in D, NEW st \in [D -> D]
    PROVE  \E f : IsIter(f, N, D, d, st)
<1> DEFINE Iter(n) == \E f \in [0 .. n -> D] : f[0] = d /\ \A j \in 1 .. n : f[j] = st[f[j - 1]]
           G == {n \in 0 .. N : Iter(n)}
<1>1. 0 \in G
    <2> DEFINE f == [j \in 0 .. 0 |-> d]
    <2>1. f \in [0 .. 0 -> D] /\ f[0] = d /\ \A j \in 1 .. 0 : f[j] = st[f[j - 1]]
        OBVIOUS
    <2>2. Iter(0)
        BY <2>1
    <2> QED
        BY <2>2
<1>2. ASSUME NEW n \in 0 .. N - 1, n \in G
      PROVE  n + 1 \in G
    <2>1. PICK f \in [0 .. n -> D] : f[0] = d /\ \A j \in 1 .. n : f[j] = st[f[j - 1]]
        BY <1>2
    <2> DEFINE g == [j \in 0 .. n + 1 |-> IF j = n + 1 THEN st[f[n]] ELSE f[j]]
    <2>2. g \in [0 .. n + 1 -> D] /\ g[0] = d
        BY <2>1
    <2>3. \A j \in 1 .. n + 1 : g[j] = st[g[j - 1]]
        BY <2>1
    <2> HIDE DEF g
    <2>4. Iter(n + 1)
        BY <2>2, <2>3
    <2> QED
        BY <2>4
<1> HIDE DEF Iter
<1>3. 0 .. N \subseteq G
    BY <1>1, <1>2, UpTo
<1>4. N \in G
    BY <1>3
<1>5. Iter(N)
    BY <1>4
<1> QED
    BY <1>5 DEF Iter, IsIter

(* Going back from a node of the list leads to an earlier one or to NULL. *)
LEMMA PlaceBefore ==
    ASSUME NEW h, Len(h) \in Nat, NEW k, NEW s, Chain(h, s, k, NULL), NEW i \in 1 .. k
    PROVE  Place(h, s[i]) = NULL \/ \E j \in 1 .. i - 1 : Place(h, s[i]) = s[j]
<1> DEFINE D == {NULL} \cup {s[j] : j \in 1 .. i - 1}
           L == Len(h)
           n == s[i]
           low(x) == get_nodes_order(h, x) < get_nodes_order(h, n)
           step(x) == IF x = NULL THEN NULL ELSE IF low(x) THEN h[x].prev ELSE x
           st == [x \in D |-> step(x)]
           Goes(f) == f = [j \in 0 .. L |->
                             IF j = 0 THEN h[n].prev
                             ELSE IF f[j - 1] = NULL THEN NULL
                             ELSE IF get_nodes_order(h, f[j - 1]) < get_nodes_order(h, n)
                                  THEN h[f[j - 1]].prev
                             ELSE f[j - 1]]
           back == CHOOSE f : Goes(f)
<1>1. k \in Nat /\ i \in Nat /\ i <= k
    BY DEF Chain
<1>2. \A j \in 1 .. i : h[s[j]].prev \in {NULL} \cup {s[m] : m \in 1 .. j - 1}
    <2> SUFFICES ASSUME NEW j \in 1 .. i
                 PROVE  h[s[j]].prev \in {NULL} \cup {s[m] : m \in 1 .. j - 1}
        OBVIOUS
    <2>1. CASE j = 1
        BY <2>1 DEF Chain
    <2>2. CASE j # 1
        <3>1. j - 1 \in 1 .. k - 1 /\ (j - 1) + 1 = j /\ j - 1 \in 1 .. j - 1
            BY <1>1, <2>2
        <3>2. h[s[(j - 1) + 1]].prev = s[j - 1]
            BY <3>1 DEF Chain
        <3> QED
            BY <3>1, <3>2
    <2> QED
        BY <2>1, <2>2
<1>3. h[n].prev \in D
    BY <1>1, <1>2
<1>4. \A x \in D : x # NULL => h[x].prev \in D
    <2> SUFFICES ASSUME NEW j \in 1 .. i - 1
                 PROVE  h[s[j]].prev \in D
        OBVIOUS
    <2>1. h[s[j]].prev \in {NULL} \cup {s[m] : m \in 1 .. j - 1}
        BY <1>1, <1>2
    <2>2. 1 .. j - 1 \subseteq 1 .. i - 1
        BY <1>1
    <2> QED
        BY <2>1, <2>2
<1>5. NULL \in D
    OBVIOUS
<1> HIDE DEF D
<1>6. \A x \in D : step(x) \in D
    BY <1>4, <1>5
<1> HIDE DEF step
<1>7. st \in [D -> D]
    BY <1>6
<1> HIDE DEF st
<1> DEFINE d == h[n].prev
<1>30. PICK f : IsIter(f, L, D, d, st)
    <2>1. L \in Nat /\ d \in D
        BY <1>3
    <2> HIDE DEF L, d
    <2> QED
        BY <1>7, <2>1, IterExists
<1>8. f \in [0 .. L -> D] /\ f[0] = d /\ \A j \in 1 .. L : f[j] = st[f[j - 1]]
    BY <1>30 DEF IsIter
<1>9. Goes(f)
    <2>1. \A j \in 1 .. L : f[j] = step(f[j - 1])
        <3> SUFFICES ASSUME NEW j \in 1 .. L
                     PROVE  f[j] = step(f[j - 1])
            OBVIOUS
        <3>1. f[j - 1] \in D
            BY <1>8
        <3> QED
            BY <1>8, <3>1 DEF st
    <2>2. f = [j \in 0 .. L |-> f[j]]
        BY <1>8
    <2>3. \A j \in 0 .. L : f[j] = IF j = 0 THEN h[n].prev ELSE step(f[j - 1])
        BY <1>8, <2>1
    <2>4. f = [j \in 0 .. L |-> IF j = 0 THEN h[n].prev ELSE step(f[j - 1])]
        BY <2>2, <2>3
    <2> QED
        BY <2>4, Zenon DEF step
<1>10. Goes(back)
    BY <1>9
<1>11. Place(h, n) = back[L]
    BY Zenon DEF Place
<1> HIDE DEF back
<1>12. \A j \in 0 .. L : back[j] = IF j = 0 THEN h[n].prev ELSE step(back[j - 1])
    BY <1>10 DEF step
<1> DEFINE G == {j \in 0 .. L : back[j] \in D}
<1>13. 0 \in G
    BY <1>3, <1>12
<1>14. ASSUME NEW j \in 0 .. L - 1, j \in G
       PROVE  j + 1 \in G
    <2>1. j + 1 \in 0 .. L /\ j + 1 # 0 /\ (j + 1) - 1 = j
        OBVIOUS
    <2>2. back[j + 1] = step(back[j])
        BY <1>12, <2>1
    <2> QED
        BY <1>6, <1>14, <2>1, <2>2
<1>15. 0 .. L \subseteq G
    BY <1>13, <1>14, UpTo
<1>16. back[L] \in D
    BY <1>15
<1> QED
    BY <1>11, <1>16 DEF D

-----------------------------------------------------------------------------
(* What moving a node does to the chain *)

(* g is h but for counters and pointers. *)
Alike(h, g) ==
    /\ Len(h) \in Nat /\ DOMAIN h = 1 .. Len(h) /\ Len(g) = Len(h) /\ DOMAIN g = DOMAIN h
    /\ \A m \in DOMAIN h : g[m].src = h[m].src /\ g[m].dst = h[m].dst

(* compare_communications reads the two endpoints only.                        *)
LEMMA AlikeCompare ==
    ASSUME NEW h, NEW g, Alike(h, g), NEW x \in DOMAIN h, NEW y \in DOMAIN h
    PROVE  compare_communications(g[x], g[y]) <=> compare_communications(h[x], h[y])
BY DEF Alike, compare_communications

(* The pointers along the chain are kept but for prev of its first node. *)
LEMMA ChainSame ==
    ASSUME NEW h, NEW g, Alike(h, g), NEW k, NEW s, NEW p, NEW q, Chain(h, s, k, p), g[s[1]].prev = q,
           \A i \in 1 .. k : g[s[i]].next = h[s[i]].next /\ (i # 1 => g[s[i]].prev = h[s[i]].prev)
    PROVE  Chain(g, s, k, q)
<1>1. /\ k \in 1 .. Len(h) /\ s \in [1 .. k -> DOMAIN h] /\ Len(h) \in Nat
      /\ Len(g) = Len(h) /\ DOMAIN g = DOMAIN h
    BY DEF Chain, Alike
<1>2. \A i, j \in 1 .. k : compare_communications(g[s[i]], g[s[j]])
                             <=> compare_communications(h[s[i]], h[s[j]])
    BY <1>1, AlikeCompare
<1>3. \A i \in 1 .. k - 1 : h[s[i]].next = s[i + 1] /\ h[s[i + 1]].prev = s[i]
    BY DEF Chain
<1>4. \A i \in 1 .. k - 1 : i \in 1 .. k /\ i + 1 \in 1 .. k /\ i + 1 # 1
    BY <1>1
<1>5. \A i \in 1 .. k - 1 : g[s[i]].next = s[i + 1] /\ g[s[i + 1]].prev = s[i]
    BY <1>3, <1>4
<1>6. g[s[k]].next \in Ends
    BY <1>1 DEF Chain
<1> QED
    BY <1>1, <1>2, <1>5, <1>6 DEF Chain

(* So does being apart from a list.                                            *)
LEMMA ApartSame ==
    ASSUME NEW h, NEW g, Alike(h, g), NEW k, NEW s, NEW p, Chain(h, s, k, p), NEW n, Apart(h, s, k, n)
    PROVE  Apart(g, s, k, n)
<1>1. /\ s \in [1 .. k -> DOMAIN h] /\ Len(g) = Len(h) /\ DOMAIN g = DOMAIN h /\ n \in DOMAIN h
      /\ k < Len(g)
    BY DEF Chain, Alike, Apart
<1>2. \A i \in 1 .. k : /\ compare_communications(g[s[i]], g[n]) <=> compare_communications(h[s[i]], h[n])
                        /\ compare_communications(g[n], g[s[i]]) <=> compare_communications(h[n], h[s[i]])
    BY <1>1, AlikeCompare
<1> QED
    BY <1>1, <1>2 DEF Apart

(* g is h with the node n taken out. *)
Unlinked(h, g, n) ==
    \A m \in DOMAIN h : /\ g[m].prev = IF m = h[n].next THEN h[n].prev ELSE h[m].prev
                        /\ g[m].next = IF m = h[n].prev THEN h[n].next ELSE h[m].next

(* g is h with the node n put behind p. *)
Linked(h, g, p, n) ==
    \A m \in DOMAIN h :
        /\ g[m].prev = IF m = n THEN p ELSE IF m = h[p].next THEN n ELSE h[m].prev
        /\ g[m].next = IF m = p THEN n ELSE IF m = n THEN h[p].next ELSE h[m].next

(* t is the chain of g that is left of s without its i-th node. *)
Shorter(h, g, s, k, i, t) ==
    /\ Chain(g, t, k - 1, NULL) /\ Apart(g, t, k - 1, s[i])
    /\ \A m \in 1 .. i - 1 : t[m] = s[m]
    /\ Nodes(t, k - 1) \cup {s[i]} = Nodes(s, k) /\ g[t[k - 1]].next = h[s[k]].next

(* t is the chain of g that s becomes with n and that starts with f. *)
Longer(h, g, s, k, n, f, t) ==
    /\ Chain(g, t, k + 1, NULL) /\ t[1] = f
    /\ Nodes(t, k + 1) = Nodes(s, k) \cup {n} /\ g[t[k + 1]].next = h[s[k]].next

Without(s, k, i) == [j \in 1 .. k - 1 |-> IF j < i THEN s[j] ELSE s[j + 1]]

(* Taking out a node that is not the first leaves a chain of the others.       *)
LEMMA ChainWithout ==
    ASSUME NEW h, NEW g, Alike(h, g), NEW k, NEW s, Chain(h, s, k, NULL), NEW i \in 2 .. k,
           Unlinked(h, g, s[i])
    PROVE  Shorter(h, g, s, k, i, Without(s, k, i))
<1>0. \A m \in DOMAIN h :
         /\ g[m].prev = IF m = h[s[i]].next THEN h[s[i]].prev ELSE h[m].prev
         /\ g[m].next = IF m = h[s[i]].prev THEN h[s[i]].next ELSE h[m].next
    BY DEF Unlinked
<1> DEFINE t == Without(s, k, i)
           n == s[i]
<1>1. /\ k \in 1 .. Len(h) /\ s \in [1 .. k -> DOMAIN h] /\ Len(h) \in Nat
      /\ DOMAIN h = 1 .. Len(h) /\ Len(g) = Len(h) /\ DOMAIN g = DOMAIN h
      /\ k - 1 \in 1 .. Len(h) /\ k \in Nat /\ i \in Nat /\ 2 <= i /\ i <= k /\ k - 1 < Len(h)
    BY DEF Chain, Alike
<1>2. \A a, b \in 1 .. k : s[a] = s[b] => a = b
    BY DEF Chain
<1>3. \A j \in 1 .. k - 1 : t[j] = IF j < i THEN s[j] ELSE s[j + 1]
    BY DEF Without
<1>4. t \in [1 .. k - 1 -> DOMAIN h]
    BY <1>1 DEF Without
<1>5. \A j \in 1 .. k - 1 : h[s[j]].next = s[j + 1] /\ h[s[j + 1]].prev = s[j]
    BY DEF Chain
<1>6. h[s[k]].next \in Ends /\ h[s[1]].prev = NULL /\ \A m \in DOMAIN h : m \notin Ends
    BY <1>1 DEF Chain, Ends, NULL, Garbage
<1>7. h[n].prev = s[i - 1]
    BY <1>1, <1>5
<1>8. \A a, b \in 1 .. k : a # b => ~compare_communications(h[s[a]], h[s[b]])
    BY DEF Chain
<1>9. \A a, b \in 1 .. k : a # b => ~compare_communications(g[s[a]], g[s[b]])
    BY <1>1, <1>8, AlikeCompare
<1>10. \A j \in 1 .. k - 1 : \E a \in 1 .. k : t[j] = s[a] /\ a = IF j < i THEN j ELSE j + 1
    BY <1>1, <1>3
<1>11. \A a, b \in 1 .. k - 1 : t[a] = t[b] => a = b
    <2> SUFFICES ASSUME NEW a \in 1 .. k - 1, NEW b \in 1 .. k - 1, t[a] = t[b]
                 PROVE  a = b
        OBVIOUS
    <2>1. PICK x \in 1 .. k : t[a] = s[x] /\ x = IF a < i THEN a ELSE a + 1
        BY <1>10
    <2>2. PICK y \in 1 .. k : t[b] = s[y] /\ y = IF b < i THEN b ELSE b + 1
        BY <1>10
    <2>3. x = y
        BY <1>2, <2>1, <2>2
    <2> QED
        BY <1>1, <2>1, <2>2, <2>3
<1>12. \A a, b \in 1 .. k - 1 : a # b => ~compare_communications(g[t[a]], g[t[b]])
    <2> SUFFICES ASSUME NEW a \in 1 .. k - 1, NEW b \in 1 .. k - 1, a # b
                 PROVE  ~compare_communications(g[t[a]], g[t[b]])
        OBVIOUS
    <2>1. PICK x \in 1 .. k : t[a] = s[x] /\ x = IF a < i THEN a ELSE a + 1
        BY <1>10
    <2>2. PICK y \in 1 .. k : t[b] = s[y] /\ y = IF b < i THEN b ELSE b + 1
        BY <1>10
    <2>3. x # y
        BY <1>1, <2>1, <2>2
    <2> QED
        BY <1>9, <2>1, <2>2, <2>3
<1>13. \A j \in 1 .. k - 1 : t[j] # n /\ ~compare_communications(g[t[j]], g[n])
                                      /\ ~compare_communications(g[n], g[t[j]])
    <2> SUFFICES ASSUME NEW j \in 1 .. k - 1
                 PROVE  t[j] # n /\ ~compare_communications(g[t[j]], g[n])
                                 /\ ~compare_communications(g[n], g[t[j]])
        OBVIOUS
    <2>1. PICK x \in 1 .. k : t[j] = s[x] /\ x = IF j < i THEN j ELSE j + 1
        BY <1>10
    <2>2. x # i /\ i \in 1 .. k
        BY <1>1, <2>1
    <2> QED
        BY <1>2, <1>9, <2>1, <2>2
<1>14. ASSUME NEW j \in 1 .. k - 2
       PROVE  g[t[j]].next = t[j + 1] /\ g[t[j + 1]].prev = t[j]
    <2>0. j \in 1 .. k - 1 /\ j + 1 \in 1 .. k - 1 /\ j + 2 \in 1 .. k /\ j \in Nat
        BY <1>1
    <2>1. CASE j + 1 < i
        <3>1. t[j] = s[j] /\ t[j + 1] = s[j + 1]
            BY <1>1, <1>3, <2>0, <2>1
        <3>2. s[j] # s[i - 1] /\ i - 1 \in 1 .. k /\ j \in 1 .. k /\ j + 1 \in 1 .. k
            BY <1>1, <1>2, <2>0, <2>1
        <3>3. s[j + 1] # h[n].next
            <4>1. CASE i = k
                BY <1>1, <1>6, <3>2, <4>1
            <4>2. CASE i # k
                <5>0. i \in 1 .. k - 1 /\ i + 1 \in 1 .. k
                    BY <1>1, <4>2
                <5>1. h[n].next = s[i + 1] /\ i + 1 \in 1 .. k
                    BY <1>5, <5>0
                <5> QED
                    BY <1>1, <1>2, <2>0, <2>1, <3>2, <5>1
            <4> QED
                BY <4>1, <4>2
        <3>4. s[j] \in DOMAIN h /\ s[j + 1] \in DOMAIN h
            BY <1>1, <3>2
        <3>5. g[s[j]].next = h[s[j]].next /\ g[s[j + 1]].prev = h[s[j + 1]].prev
            BY <1>0, <1>7, <3>2, <3>3, <3>4
        <3> QED
            BY <1>5, <2>0, <3>1, <3>5
    <2>2. CASE j + 1 = i
        <3>1. t[j] = s[i - 1] /\ t[j + 1] = s[i + 1] /\ i + 1 \in 1 .. k /\ i - 1 \in 1 .. k
            <4>1. j = i - 1 /\ j < i /\ ~(j + 1 < i) /\ (j + 1) + 1 = i + 1 /\ i + 1 \in 1 .. k /\ i - 1 \in 1 .. k
                BY <1>1, <2>0, <2>2
            <4> QED
                BY <1>3, <2>0, <4>1
        <3>2. h[n].next = s[i + 1]
            BY <1>1, <1>5, <2>0, <2>2
        <3>3. s[i - 1] \in DOMAIN h /\ s[i + 1] \in DOMAIN h
            BY <1>1, <3>1
        <3> QED
            BY <1>0, <1>7, <3>1, <3>2, <3>3
    <2>3. CASE j + 1 > i
        <3>1. t[j] = s[j + 1] /\ t[j + 1] = s[j + 2] /\ j + 1 \in 1 .. k /\ j + 1 \in 1 .. k - 1
            <4>1. ~(j < i) /\ ~(j + 1 < i) /\ (j + 1) + 1 = j + 2 /\ j + 1 \in 1 .. k
                BY <1>1, <2>0, <2>3
            <4> QED
                BY <1>3, <2>0, <4>1
        <3>2. s[j + 1] # s[i - 1]
            <4>1. i - 1 \in 1 .. k /\ i - 1 # j + 1
                BY <1>1, <2>3
            <4> QED
                BY <1>2, <3>1, <4>1
        <3>3. h[n].next = s[i + 1] /\ i + 1 \in 1 .. k /\ i + 1 # j + 2
            BY <1>1, <1>5, <2>0, <2>3
        <3>4. s[j + 2] # h[n].next
            BY <1>2, <2>0, <3>3
        <3>5. s[j + 1] \in DOMAIN h /\ s[j + 2] \in DOMAIN h
            BY <1>1, <2>0, <3>1
        <3>6. h[s[j + 1]].next = s[j + 2] /\ h[s[j + 2]].prev = s[j + 1]
            <4>1. (j + 1) + 1 = j + 2
                BY <2>0
            <4> QED
                BY <1>5, <3>1, <4>1
        <3>7. g[s[j + 1]].next = h[s[j + 1]].next /\ g[s[j + 2]].prev = h[s[j + 2]].prev
            BY <1>0, <1>7, <3>2, <3>4, <3>5
        <3> QED
            BY <3>1, <3>6, <3>7
    <2> QED
        BY <1>1, <2>0, <2>1, <2>2, <2>3
<1>15. g[t[1]].prev = NULL /\ t[1] = s[1]
    <2>1. t[1] = s[1] /\ s[1] \in DOMAIN h
        BY <1>1, <1>3
    <2>2. s[1] # h[n].next
        <3>1. CASE i = k
            BY <1>6, <2>1, <3>1
        <3>2. CASE i # k
            <4>1. h[n].next = s[i + 1] /\ i + 1 \in 1 .. k /\ 1 \in 1 .. k /\ i + 1 # 1
                BY <1>1, <1>5, <3>2
            <4> QED
                BY <1>2, <4>1
        <3> QED
            BY <3>1, <3>2
    <2> QED
        BY <1>0, <1>6, <2>1, <2>2
<1>16. g[t[k - 1]].next = h[s[k]].next
    <2>1. CASE i = k
        <3>1. t[k - 1] = s[k - 1] /\ s[k - 1] \in DOMAIN h
            BY <1>1, <1>3, <2>1
        <3> QED
            BY <1>0, <1>7, <2>1, <3>1
    <2>2. CASE i # k
        <3>1. t[k - 1] = s[k] /\ s[k] \in DOMAIN h
            BY <1>1, <1>3, <2>2
        <3>2. k \in 1 .. k /\ i - 1 \in 1 .. k /\ i - 1 # k
            BY <1>1
        <3>3. s[k] # s[i - 1]
            BY <1>2, <3>2
        <3> QED
            BY <1>0, <1>7, <3>1, <3>3
    <2> QED
        BY <2>1, <2>2
<1>17. Nodes(t, k - 1) \cup {n} = Nodes(s, k)
    <2>1. Nodes(t, k - 1) \cup {n} \subseteq Nodes(s, k)
        <3>1. \A j \in 1 .. k - 1 : t[j] \in Nodes(s, k)
            BY <1>10 DEF Nodes
        <3>2. n \in Nodes(s, k)
            BY <1>1 DEF Nodes
        <3> HIDE DEF t
        <3> QED
            BY <3>1, <3>2 DEF Nodes
    <2>2. ASSUME NEW a \in 1 .. k
          PROVE  s[a] \in Nodes(t, k - 1) \cup {n}
        <3>1. CASE a < i
            <4>1. a \in 1 .. k - 1 /\ t[a] = s[a]
                BY <1>1, <1>3, <3>1
            <4> QED
                BY <4>1 DEF Nodes
        <3>2. CASE a > i
            <4>1. a - 1 \in 1 .. k - 1 /\ t[a - 1] = s[a]
                BY <1>1, <1>3, <3>2
            <4> QED
                BY <4>1 DEF Nodes
        <3> QED
            BY <1>1, <3>1, <3>2
    <2> QED
        BY <2>1, <2>2 DEF Nodes
<1>18. s[i] \in DOMAIN g
    BY <1>1
<1> HIDE DEF t
<1>19. Chain(g, t, k - 1, NULL)
    <2>1. (k - 1) - 1 = k - 2
        BY <1>1
    <2>2. g[t[k - 1]].next \in Ends
        BY <1>6, <1>16
    <2> QED
        BY <1>1, <1>4, <1>11, <1>12, <1>14, <1>15, <2>1, <2>2 DEF Chain
<1>20. Apart(g, t, k - 1, n)
    BY <1>1, <1>13, <1>18 DEF Apart
<1>21. \A m \in 1 .. i - 1 : t[m] = s[m]
    BY <1>1, <1>3
<1> QED
    BY <1>16, <1>17, <1>19, <1>20, <1>21 DEF t, Shorter

(* The chain with n behind its j-th node, or before the first. *)
With(s, k, j, n) == [m \in 1 .. k + 1 |-> IF m <= j THEN s[m] ELSE IF m = j + 1 THEN n ELSE s[m - 1]]

(* The part of Chain that is not about pointers. *)
Distinct(h, s, k) ==
    /\ k \in 1 .. Len(h) /\ s \in [1 .. k -> DOMAIN h]
    /\ \A i, j \in 1 .. k : s[i] = s[j] => i = j
    /\ \A i, j \in 1 .. k : i # j => ~compare_communications(h[s[i]], h[s[j]])

(* The chain with one more node, pointers aside.                               *)
LEMMA WithNodes ==
    ASSUME NEW h, NEW g, Alike(h, g), NEW k, NEW s, NEW p, Chain(h, s, k, p), NEW n, Apart(h, s, k, n),
           NEW j \in 0 .. k
    PROVE  /\ Distinct(g, With(s, k, j, n), k + 1)
           /\ Nodes(With(s, k, j, n), k + 1) = Nodes(s, k) \cup {n}
<1> DEFINE t == With(s, k, j, n)
<1>1. /\ k \in 1 .. Len(h) /\ s \in [1 .. k -> DOMAIN h] /\ Len(h) \in Nat /\ n \in DOMAIN h
      /\ DOMAIN h = 1 .. Len(h) /\ Len(g) = Len(h) /\ DOMAIN g = DOMAIN h
      /\ k \in Nat /\ j \in Nat /\ j <= k /\ k < Len(h)
    BY DEF Chain, Alike, Apart
<1>2. \A a, b \in 1 .. k : s[a] = s[b] => a = b
    BY DEF Chain
<1>3. \A m \in 1 .. k + 1 : t[m] = IF m <= j THEN s[m] ELSE IF m = j + 1 THEN n ELSE s[m - 1]
    BY DEF With
<1>4. t \in [1 .. k + 1 -> DOMAIN g]
    BY <1>1 DEF With
<1>5. \A a, b \in 1 .. k : a # b => ~compare_communications(h[s[a]], h[s[b]])
    BY DEF Chain
<1>6. \A a, b \in 1 .. k : a # b => ~compare_communications(g[s[a]], g[s[b]])
    BY <1>1, <1>5, AlikeCompare
<1>7. \A a \in 1 .. k : s[a] # n /\ ~compare_communications(g[s[a]], g[n])
                                 /\ ~compare_communications(g[n], g[s[a]])
    BY <1>1, AlikeCompare DEF Apart
<1> HIDE DEF t
<1>8. \A m \in 1 .. k + 1 :
         \/ m = j + 1 /\ t[m] = n
         \/ m # j + 1 /\ \E a \in 1 .. k : t[m] = s[a] /\ a = IF m <= j THEN m ELSE m - 1
    BY <1>1, <1>3
<1>9. ASSUME NEW a \in 1 .. k + 1, NEW b \in 1 .. k + 1, a # b
      PROVE  t[a] # t[b] /\ ~compare_communications(g[t[a]], g[t[b]])
    <2>1. CASE a = j + 1
        <3>1. PICK y \in 1 .. k : t[b] = s[y]
            BY <1>8, <1>9, <2>1
        <3> QED
            BY <1>7, <1>8, <2>1, <3>1
    <2>2. CASE b = j + 1
        <3>1. PICK x \in 1 .. k : t[a] = s[x]
            BY <1>8, <1>9, <2>2
        <3> QED
            BY <1>7, <1>8, <2>2, <3>1
    <2>3. CASE a # j + 1 /\ b # j + 1
        <3>1. PICK x \in 1 .. k : t[a] = s[x] /\ x = IF a <= j THEN a ELSE a - 1
            BY <1>8, <2>3
        <3>2. PICK y \in 1 .. k : t[b] = s[y] /\ y = IF b <= j THEN b ELSE b - 1
            BY <1>8, <2>3
        <3>3. x # y
            BY <1>1, <1>9, <2>3, <3>1, <3>2
        <3> QED
            BY <1>2, <1>6, <3>1, <3>2, <3>3
    <2> QED
        BY <2>1, <2>2, <2>3
<1>10. Nodes(t, k + 1) = Nodes(s, k) \cup {n}
    <2>1. Nodes(t, k + 1) \subseteq Nodes(s, k) \cup {n}
        BY <1>8 DEF Nodes
    <2>2. ASSUME NEW a \in 1 .. k
          PROVE  s[a] \in Nodes(t, k + 1)
        <3>1. CASE a <= j
            <4>1. a \in 1 .. k + 1 /\ t[a] = s[a]
                BY <1>1, <1>3, <3>1
            <4> QED
                BY <4>1 DEF Nodes
        <3>2. CASE a > j
            <4>1. a + 1 \in 1 .. k + 1 /\ ~(a + 1 <= j) /\ a + 1 # j + 1 /\ (a + 1) - 1 = a
                BY <1>1, <3>2
            <4>2. t[a + 1] = s[a]
                BY <1>3, <4>1
            <4> QED
                BY <4>1, <4>2 DEF Nodes
        <3> QED
            BY <1>1, <3>1, <3>2
    <2>3. n \in Nodes(t, k + 1)
        <3>1. j + 1 \in 1 .. k + 1
            BY <1>1
        <3> QED
            BY <1>8, <3>1 DEF Nodes
    <2> QED
        BY <2>1, <2>2, <2>3 DEF Nodes
<1>11. k + 1 \in 1 .. Len(g)
    BY <1>1
<1>12. Distinct(g, t, k + 1)
    BY <1>4, <1>9, <1>11 DEF Distinct
<1> QED
    BY <1>10, <1>12 DEF t

(* The node that SetHead puts in front.                                        *)
LEMMA ChainFirst ==
    ASSUME NEW h, NEW g, Alike(h, g), NEW k, NEW s, NEW n, Chain(h, s, k, n), Apart(h, s, k, n),
           h[n].next = s[1],
           \A m \in DOMAIN h : /\ g[m].prev = IF m = n THEN NULL ELSE h[m].prev
                               /\ g[m].next = h[m].next
    PROVE  Longer(h, g, s, k, n, n, With(s, k, 0, n))
<1> DEFINE t == With(s, k, 0, n)
<1>1. /\ k \in 1 .. Len(h) /\ s \in [1 .. k -> DOMAIN h] /\ Len(h) \in Nat /\ n \in DOMAIN h
      /\ k \in Nat /\ 0 \in 0 .. k
    BY DEF Chain, Alike, Apart
<1>2. Distinct(g, t, k + 1) /\ Nodes(t, k + 1) = Nodes(s, k) \cup {n}
    BY <1>1, WithNodes
<1>3. t[1] = n /\ \A m \in 2 .. k + 1 : t[m] = s[m - 1]
    BY <1>1 DEF With
<1> HIDE DEF t
<1>4. \A a \in 1 .. k : s[a] # n /\ s[a] \in DOMAIN h
    BY <1>1 DEF Apart
<1>5. ASSUME NEW a \in 1 .. (k + 1) - 1
      PROVE  g[t[a]].next = t[a + 1] /\ g[t[a + 1]].prev = t[a]
    <2>1. CASE a = 1
        <3>1. t[a] = n /\ t[a + 1] = s[1] /\ 1 \in 1 .. k
            <4>1. a + 1 = 2 /\ 2 \in 2 .. k + 1 /\ 2 - 1 = 1 /\ 1 \in 1 .. k
                BY <1>1, <2>1
            <4> QED
                BY <1>3, <2>1, <4>1
        <3> QED
            BY <1>1, <1>4, <3>1 DEF Chain
    <2>2. CASE a # 1
        <3>1. a - 1 \in 1 .. k - 1 /\ (a - 1) + 1 = a /\ a \in 1 .. k /\ a \in 2 .. k + 1
              /\ a + 1 \in 2 .. k + 1 /\ (a + 1) - 1 = a /\ a - 1 \in 1 .. k
            BY <1>1, <2>2
        <3>2. t[a] = s[a - 1] /\ t[a + 1] = s[a]
            BY <1>3, <3>1
        <3>3. h[s[a - 1]].next = s[a] /\ h[s[a]].prev = s[a - 1]
            BY <3>1 DEF Chain
        <3> QED
            BY <1>4, <3>1, <3>2, <3>3
    <2> QED
        BY <2>1, <2>2
<1>6. t[k + 1] = s[k] /\ k \in 1 .. k
    <2>1. k + 1 \in 2 .. k + 1 /\ (k + 1) - 1 = k
        BY <1>1
    <2> QED
        BY <1>1, <1>3, <2>1
<1>7. g[t[k + 1]].next = h[s[k]].next /\ h[s[k]].next \in Ends
    BY <1>4, <1>6 DEF Chain
<1>8. g[t[1]].prev = NULL
    BY <1>1, <1>3
<1>9. Chain(g, t, k + 1, NULL)
    BY <1>2, <1>5, <1>7, <1>8 DEF Chain, Distinct
<1> QED
    BY <1>2, <1>3, <1>7, <1>9 DEF t, Longer

(* A node put behind the j-th one.                                             *)
LEMMA ChainWith ==
    ASSUME NEW h, NEW g, Alike(h, g), NEW k, NEW s, NEW n, Chain(h, s, k, NULL), Apart(h, s, k, n),
           NEW j \in 1 .. k, Linked(h, g, s[j], n)
    PROVE  Longer(h, g, s, k, n, s[1], With(s, k, j, n))
<1>0. \A m \in DOMAIN h :
         /\ g[m].prev = IF m = n THEN s[j] ELSE IF m = h[s[j]].next THEN n ELSE h[m].prev
         /\ g[m].next = IF m = s[j] THEN n ELSE IF m = n THEN h[s[j]].next ELSE h[m].next
    BY DEF Linked
<1> DEFINE t == With(s, k, j, n)
<1>1. /\ k \in 1 .. Len(h) /\ s \in [1 .. k -> DOMAIN h] /\ Len(h) \in Nat /\ n \in DOMAIN h
      /\ k \in Nat /\ j \in Nat /\ j \in 0 .. k /\ 1 <= j /\ j <= k /\ DOMAIN h = 1 .. Len(h)
    BY DEF Chain, Alike, Apart
<1>2. Distinct(g, t, k + 1) /\ Nodes(t, k + 1) = Nodes(s, k) \cup {n}
    BY <1>1, WithNodes
<1>3. \A m \in 1 .. k + 1 : t[m] = IF m <= j THEN s[m] ELSE IF m = j + 1 THEN n ELSE s[m - 1]
    BY DEF With
<1> HIDE DEF t
<1>4. \A a \in 1 .. k : s[a] # n /\ s[a] \in DOMAIN h
    BY <1>1 DEF Apart
<1>5. \A a, b \in 1 .. k : s[a] = s[b] => a = b
    BY DEF Chain
<1>6. \A a \in 1 .. k - 1 : h[s[a]].next = s[a + 1] /\ h[s[a + 1]].prev = s[a]
    BY DEF Chain
<1>7. h[s[k]].next \in Ends /\ h[s[1]].prev = NULL /\ \A m \in DOMAIN h : m \notin Ends
    BY <1>1 DEF Chain, Ends, NULL, Garbage
<1>8. t[j + 1] = n /\ t[j] = s[j] /\ t[1] = s[1]
    BY <1>1, <1>3
<1>9. \A m \in 1 .. k : s[m] = h[s[j]].next => m = j + 1
    <2> SUFFICES ASSUME NEW m \in 1 .. k, s[m] = h[s[j]].next
                 PROVE  m = j + 1
        OBVIOUS
    <2>1. j # k
        BY <1>4, <1>7
    <2>2. j \in 1 .. k - 1 /\ j + 1 \in 1 .. k
        BY <1>1, <2>1
    <2> QED
        BY <1>5, <1>6, <2>2
<1>10. ASSUME NEW a \in 1 .. (k + 1) - 1
       PROVE  g[t[a]].next = t[a + 1] /\ g[t[a + 1]].prev = t[a]
    <2>0. a \in 1 .. k /\ a \in 1 .. k + 1 /\ a + 1 \in 1 .. k + 1 /\ a \in Nat
        BY <1>1
    <2>1. CASE a < j
        <3>1. a \in 1 .. k - 1 /\ a <= j /\ a + 1 <= j /\ a # j /\ a + 1 # j + 1 /\ a + 1 \in 1 .. k /\ j \in 1 .. k
            BY <1>1, <2>0, <2>1
        <3>2. t[a] = s[a] /\ t[a + 1] = s[a + 1]
            BY <1>3, <2>0, <3>1
        <3>3. s[a] # s[j] /\ s[a + 1] # h[s[j]].next
            BY <1>5, <1>9, <2>0, <3>1
        <3>4. g[s[a]].next = h[s[a]].next /\ g[s[a + 1]].prev = h[s[a + 1]].prev
            BY <1>0, <1>4, <2>0, <3>1, <3>3
        <3> QED
            BY <1>6, <3>1, <3>2, <3>4
    <2>2. CASE a = j
        BY <1>0, <1>1, <1>4, <1>8, <2>0, <2>2
    <2>3. CASE a = j + 1
        <3>1. j \in 1 .. k - 1 /\ ~(a + 1 <= j) /\ a + 1 # j + 1 /\ (a + 1) - 1 = j + 1 /\ j + 1 \in 1 .. k
            BY <1>1, <2>0, <2>3
        <3>2. t[a] = n /\ t[a + 1] = s[j + 1]
            BY <1>3, <1>8, <2>0, <2>3, <3>1
        <3>3. h[s[j]].next = s[j + 1]
            BY <1>6, <3>1
        <3>4. g[s[j + 1]].prev = n
            BY <1>0, <1>4, <3>1, <3>3
        <3>5. g[n].next = s[j + 1]
            BY <1>0, <1>1, <1>4, <3>3
        <3> QED
            BY <3>2, <3>4, <3>5
    <2>4. CASE a > j + 1
        <3>1. /\ a - 1 \in 1 .. k - 1 /\ a - 1 \in 1 .. k /\ ~(a <= j) /\ a # j + 1 /\ ~(a + 1 <= j)
              /\ a + 1 # j + 1 /\ (a + 1) - 1 = a /\ a - 1 # j /\ (a - 1) + 1 = a /\ j \in 1 .. k
            BY <1>1, <2>0, <2>4
        <3>2. t[a] = s[a - 1] /\ t[a + 1] = s[a]
            BY <1>3, <2>0, <3>1
        <3>3. s[a - 1] # s[j] /\ s[a] # h[s[j]].next
            BY <1>5, <1>9, <2>0, <3>1
        <3>4. g[s[a - 1]].next = h[s[a - 1]].next /\ g[s[a]].prev = h[s[a]].prev
            BY <1>0, <1>4, <2>0, <3>1, <3>3
        <3>5. h[s[a - 1]].next = s[a] /\ h[s[a]].prev = s[a - 1]
            BY <1>6, <3>1
        <3> QED
            BY <3>2, <3>4, <3>5
    <2> QED
        BY <1>1, <2>0, <2>1, <2>2, <2>3, <2>4
<1>11. g[t[k + 1]].next = h[s[k]].next
    <2>1. CASE j = k
        BY <1>0, <1>1, <1>4, <1>8, <2>1
    <2>2. CASE j # k
        <3>1. k + 1 \in 1 .. k + 1 /\ ~(k + 1 <= j) /\ k + 1 # j + 1 /\ (k + 1) - 1 = k /\ k \in 1 .. k /\ j \in 1 .. k
            BY <1>1, <2>2
        <3>2. t[k + 1] = s[k] /\ s[k] # s[j]
            BY <1>3, <1>5, <2>2, <3>1
        <3> QED
            BY <1>0, <1>4, <3>1, <3>2
    <2> QED
        BY <2>1, <2>2
<1>12. g[t[1]].prev = NULL
    <2>1. 1 \in 1 .. k /\ 1 # j + 1
        BY <1>1
    <2>2. s[1] # h[s[j]].next
        BY <1>9, <2>1
    <2> QED
        BY <1>0, <1>4, <1>7, <1>8, <2>1, <2>2
<1>13. Chain(g, t, k + 1, NULL)
    BY <1>2, <1>7, <1>10, <1>11, <1>12 DEF Chain, Distinct
<1> QED
    BY <1>2, <1>8, <1>11, <1>13 DEF t, Longer

-----------------------------------------------------------------------------
(* What the operations write *)

Typed(h) == h \in Seq(Node(Len(h)))

(* Counters of g are those of h. *)
Counts(h, g) ==
    \A m \in DOMAIN h : /\ g[m].Rx = h[m].Rx /\ g[m].Tx = h[m].Tx
                        /\ g[m].packets_sent_Rx = h[m].packets_sent_Rx
                        /\ g[m].packets_sent_Tx = h[m].packets_sent_Tx

(* The fields of a node of a well-typed heap.                                  *)
LEMMA TypedNode ==
    ASSUME NEW h, Typed(h)
    PROVE  /\ Len(h) \in Nat /\ DOMAIN h = 1 .. Len(h) /\ h \in [1 .. Len(h) -> Node(Len(h))]
           /\ \A m \in DOMAIN h : h[m] \in Node(Len(h))
           /\ \A m \in DOMAIN h : h[m].next \in -1 .. Len(h) /\ h[m].prev \in 0 .. Len(h)
           /\ \A m \in DOMAIN h : h[m].Rx \in Nat /\ h[m].Tx \in Nat
           /\ \A m \in DOMAIN h : h[m].src \in Endpoints /\ h[m].dst \in Endpoints
<1>1. Len(h) \in Nat /\ DOMAIN h = 1 .. Len(h) /\ h \in [1 .. Len(h) -> Node(Len(h))]
    BY DEF Typed
<1>2. \A m \in DOMAIN h : h[m] \in Node(Len(h))
    BY <1>1
<1> QED
    BY <1>1, <1>2 DEF Node

(* A function of nodes is a well-typed heap.                                   *)
LEMMA TypedBack ==
    ASSUME NEW L \in Nat, NEW h \in [1 .. L -> Node(L)]
    PROVE  Len(h) = L /\ Typed(h)
<1>1. Len(h) = L /\ h \in Seq(Node(L))
    OBVIOUS
<1> QED
    BY <1>1 DEF Typed

(* Unlink changes prev and next only.                                          *)
LEMMA UnlinkFields ==
    ASSUME NEW h, Typed(h), NEW n \in DOMAIN h
    PROVE  /\ Alike(h, Unlink(h, n)) /\ Typed(Unlink(h, n)) /\ Counts(h, Unlink(h, n))
           /\ Unlinked(h, Unlink(h, n), n)
<1> DEFINE g == Unlink(h, n)
           L == Len(h)
<1>1. /\ L \in Nat /\ DOMAIN h = 1 .. L /\ h[n].next \in -1 .. L /\ h[n].prev \in 0 .. L
      /\ \A m \in 1 .. L : h[m] \in Node(L)
    BY TypedNode
<1>2. DOMAIN g = 1 .. L
    BY <1>1 DEF Unlink
<1>3. ASSUME NEW m \in DOMAIN h
      PROVE  /\ g[m] \in Node(L)
             /\ g[m].src = h[m].src /\ g[m].dst = h[m].dst
             /\ g[m].Rx = h[m].Rx /\ g[m].Tx = h[m].Tx
             /\ g[m].packets_sent_Rx = h[m].packets_sent_Rx
             /\ g[m].packets_sent_Tx = h[m].packets_sent_Tx
             /\ g[m].prev = IF m = h[n].next THEN h[n].prev ELSE h[m].prev
             /\ g[m].next = IF m = h[n].prev THEN h[n].next ELSE h[m].next
    <2> DEFINE pr == IF m = h[n].next THEN h[n].prev ELSE h[m].prev
               nx == IF m = h[n].prev THEN h[n].next ELSE h[m].next
    <2>1. g[m] = [h[m] EXCEPT !.prev = pr, !.next = nx]
        BY DEF Unlink
    <2>2. h[m] \in Node(L)
        BY <1>1
    <2>3. pr \in 0 .. L /\ nx \in -1 .. L
        BY <1>1, <2>2 DEF Node
    <2> HIDE DEF pr, nx, g, L
    <2>4. g[m].prev = pr /\ g[m].next = nx /\ g[m] \in Node(L)
        BY <2>1, <2>2, <2>3 DEF Node
    <2>5. /\ g[m].src = h[m].src /\ g[m].dst = h[m].dst
          /\ g[m].Rx = h[m].Rx /\ g[m].Tx = h[m].Tx
          /\ g[m].packets_sent_Rx = h[m].packets_sent_Rx
          /\ g[m].packets_sent_Tx = h[m].packets_sent_Tx
        BY <2>1, <2>2 DEF Node
    <2> QED
        BY <2>4, <2>5 DEF pr, nx
<1>4. g \in [1 .. L -> Node(L)]
    <2>1. g = [m \in 1 .. L |-> g[m]]
        BY <1>1, <1>2 DEF Unlink
    <2> QED
        BY <1>1, <1>3, <2>1
<1>5. Len(g) = L /\ Typed(g)
    <2> HIDE DEF g, L
    <2> QED
        BY <1>1, <1>4, TypedBack
<1> QED
    BY <1>1, <1>2, <1>3, <1>5 DEF Alike, Counts, Unlinked

(* InsertAfter changes prev and next only.                                     *)
LEMMA InsertFields ==
    ASSUME NEW h, Typed(h), NEW p \in DOMAIN h, NEW n \in DOMAIN h
    PROVE  /\ Alike(h, InsertAfter(h, p, n)) /\ Typed(InsertAfter(h, p, n))
           /\ Counts(h, InsertAfter(h, p, n)) /\ Linked(h, InsertAfter(h, p, n), p, n)
<1> DEFINE g == InsertAfter(h, p, n)
           L == Len(h)
<1>1. /\ L \in Nat /\ DOMAIN h = 1 .. L /\ h[p].next \in -1 .. L
      /\ \A m \in 1 .. L : h[m] \in Node(L)
    BY TypedNode
<1>2. DOMAIN g = 1 .. L
    BY <1>1 DEF InsertAfter
<1>3. ASSUME NEW m \in DOMAIN h
      PROVE  /\ g[m] \in Node(L)
             /\ g[m].src = h[m].src /\ g[m].dst = h[m].dst
             /\ g[m].Rx = h[m].Rx /\ g[m].Tx = h[m].Tx
             /\ g[m].packets_sent_Rx = h[m].packets_sent_Rx
             /\ g[m].packets_sent_Tx = h[m].packets_sent_Tx
             /\ g[m].prev = IF m = n THEN p ELSE IF m = h[p].next THEN n ELSE h[m].prev
             /\ g[m].next = IF m = p THEN n ELSE IF m = n THEN h[p].next ELSE h[m].next
    <2> DEFINE pr == IF m = n THEN p ELSE IF m = h[p].next THEN n ELSE h[m].prev
               nx == IF m = p THEN n ELSE IF m = n THEN h[p].next ELSE h[m].next
    <2>1. g[m] = [h[m] EXCEPT !.prev = pr, !.next = nx]
        BY DEF InsertAfter
    <2>2. h[m] \in Node(L) /\ n \in 0 .. L /\ n \in -1 .. L /\ p \in 0 .. L
        BY <1>1
    <2>3. pr \in 0 .. L /\ nx \in -1 .. L
        BY <1>1, <2>2 DEF Node
    <2> HIDE DEF pr, nx, g, L
    <2>4. g[m].prev = pr /\ g[m].next = nx /\ g[m] \in Node(L)
        BY <2>1, <2>2, <2>3 DEF Node
    <2>5. /\ g[m].src = h[m].src /\ g[m].dst = h[m].dst
          /\ g[m].Rx = h[m].Rx /\ g[m].Tx = h[m].Tx
          /\ g[m].packets_sent_Rx = h[m].packets_sent_Rx
          /\ g[m].packets_sent_Tx = h[m].packets_sent_Tx
        BY <2>1, <2>2 DEF Node
    <2> QED
        BY <2>4, <2>5 DEF pr, nx
<1>4. g \in [1 .. L -> Node(L)]
    <2>1. g = [m \in 1 .. L |-> g[m]]
        BY <1>1, <1>2 DEF InsertAfter
    <2> QED
        BY <1>1, <1>3, <2>1
<1>5. Len(g) = L /\ Typed(g)
    <2> HIDE DEF g, L
    <2> QED
        BY <1>1, <1>4, TypedBack
<1> QED
    BY <1>1, <1>2, <1>3, <1>5 DEF Alike, Counts, Linked

(* LinkPrev, LinkNext and SetHead write one pointer. *)
PrevSet(h, g, n, x) == g = [h EXCEPT ![n].prev = x]
NextSet(h, g, n, x) == g = [h EXCEPT ![n].next = x]

OnlyPrev(h, g, n, x) ==
    \A m \in DOMAIN h : g[m].prev = (IF m = n THEN x ELSE h[m].prev) /\ g[m].next = h[m].next
OnlyNext(h, g, n, x) ==
    \A m \in DOMAIN h : g[m].next = (IF m = n THEN x ELSE h[m].next) /\ g[m].prev = h[m].prev

(* Assigning one prev.                                                         *)
LEMMA SetPrev ==
    ASSUME NEW h, Typed(h), NEW n \in DOMAIN h, NEW x \in 0 .. Len(h), NEW g, PrevSet(h, g, n, x)
    PROVE  Alike(h, g) /\ Typed(g) /\ Counts(h, g) /\ OnlyPrev(h, g, n, x)
<1> DEFINE L == Len(h)
<1>1. L \in Nat /\ DOMAIN h = 1 .. L /\ h \in [1 .. L -> Node(L)]
    BY TypedNode
<1>2. /\ g \in [1 .. L -> Node(L)]
      /\ \A m \in DOMAIN h : /\ g[m].prev = IF m = n THEN x ELSE h[m].prev
                             /\ g[m].next = h[m].next
                             /\ g[m].src = h[m].src /\ g[m].dst = h[m].dst
                             /\ g[m].Rx = h[m].Rx /\ g[m].Tx = h[m].Tx
                             /\ g[m].packets_sent_Rx = h[m].packets_sent_Rx
                             /\ g[m].packets_sent_Tx = h[m].packets_sent_Tx
    BY <1>1 DEF Node, PrevSet
<1>3. Len(g) = L /\ Typed(g) /\ DOMAIN g = 1 .. L
    BY <1>1, <1>2, TypedBack
<1> QED
    BY <1>1, <1>2, <1>3 DEF Alike, Counts, OnlyPrev

(* Assigning one next.                                                         *)
LEMMA SetNext ==
    ASSUME NEW h, Typed(h), NEW n \in DOMAIN h, NEW x \in -1 .. Len(h), NEW g, NextSet(h, g, n, x)
    PROVE  Alike(h, g) /\ Typed(g) /\ Counts(h, g) /\ OnlyNext(h, g, n, x)
<1> DEFINE L == Len(h)
<1>1. L \in Nat /\ DOMAIN h = 1 .. L /\ h \in [1 .. L -> Node(L)]
    BY TypedNode
<1>2. /\ g \in [1 .. L -> Node(L)]
      /\ \A m \in DOMAIN h : /\ g[m].next = IF m = n THEN x ELSE h[m].next
                             /\ g[m].prev = h[m].prev
                             /\ g[m].src = h[m].src /\ g[m].dst = h[m].dst
                             /\ g[m].Rx = h[m].Rx /\ g[m].Tx = h[m].Tx
                             /\ g[m].packets_sent_Rx = h[m].packets_sent_Rx
                             /\ g[m].packets_sent_Tx = h[m].packets_sent_Tx
    BY <1>1 DEF Node, NextSet
<1>3. Len(g) = L /\ Typed(g) /\ DOMAIN g = 1 .. L
    BY <1>1, <1>2, TypedBack
<1> QED
    BY <1>1, <1>2, <1>3 DEF Alike, Counts, OnlyNext

(* A sequence is the function of its elements.                                 *)
LEMMA SeqIsFunction ==
    ASSUME NEW N, NEW q \in Seq(N)
    PROVE  q = [m \in 1 .. Len(q) |-> q[m]]
OBVIOUS

(* The fields of a captured packet.                                            *)
LEMMA PacketFields ==
    ASSUME c_info \in Packets
    PROVE  c_info.src \in Endpoints /\ c_info.dst \in Endpoints /\ c_info.len \in Nat
BY ArgumentsAssumption DEF Packets

(* add_communications changes one counter of one node, the one of the          *)
(* direction of the packet.                                                    *)
LEMMA AddFields ==
    ASSUME Typed(heap), NEW n \in DOMAIN heap, c_info \in Packets,
           compare_communications(c_info, heap[n])
    PROVE  /\ Alike(heap, Add(n)) /\ Typed(Add(n))
           /\ \A m \in DOMAIN heap : /\ Add(n)[m].next = heap[m].next
                                     /\ Add(n)[m].prev = heap[m].prev
           /\ \A m \in DOMAIN heap :
                 Add(n)[m].Rx + Add(n)[m].Tx
                   = IF m = n THEN (heap[m].Rx + heap[m].Tx) + c_info.len ELSE heap[m].Rx + heap[m].Tx
           /\ \A x, y \in Endpoints : \A m \in DOMAIN heap :
                 Sent(Add(n), x, y)[m]
                   = IF m = n /\ x = c_info.src /\ y = c_info.dst
                     THEN Sent(heap, x, y)[m] + c_info.len ELSE Sent(heap, x, y)[m]
<1> DEFINE L == Len(heap)
           g == Add(n)
           c == c_info
<1>1. /\ L \in Nat /\ DOMAIN heap = 1 .. L /\ heap \in [1 .. L -> Node(L)]
      /\ \A m \in DOMAIN heap : heap[m].Rx \in Nat /\ heap[m].Tx \in Nat
    BY TypedNode
<1>2. c.src \in Endpoints /\ c.dst \in Endpoints /\ c.len \in Nat
    BY PacketFields
<1>3. /\ g \in [1 .. L -> Node(L)]
      /\ \A m \in DOMAIN heap : /\ g[m].next = heap[m].next /\ g[m].prev = heap[m].prev
                                /\ g[m].src = heap[m].src /\ g[m].dst = heap[m].dst
                                /\ g[m].Tx = IF m = n /\ heap[n].src = c.src
                                             THEN heap[m].Tx + c.len ELSE heap[m].Tx
                                /\ g[m].Rx = IF m = n /\ heap[n].src # c.src
                                             THEN heap[m].Rx + c.len ELSE heap[m].Rx
    <2>1. CASE heap[n].src = c.src
        <3>1. g = [heap EXCEPT ![n].Tx = @ + c.len, ![n].packets_sent_Tx = @ + 1]
            BY <2>1 DEF Add
        <3>2. heap[n] \in Node(L)
            BY <1>1
        <3>3. /\ DOMAIN g = 1 .. L /\ g = [m \in 1 .. L |-> g[m]]
              /\ \A m \in 1 .. L : m # n => g[m] = heap[m]
              /\ g[n] = [heap[n] EXCEPT !.Tx = heap[n].Tx + c.len,
                                       !.packets_sent_Tx = heap[n].packets_sent_Tx + 1]
            BY <1>1, <3>1, <3>2 DEF Node
        <3> HIDE DEF g, L, c
        <3>4. /\ g[n].next = heap[n].next /\ g[n].prev = heap[n].prev
              /\ g[n].src = heap[n].src /\ g[n].dst = heap[n].dst
              /\ g[n].Tx = heap[n].Tx + c.len /\ g[n].Rx = heap[n].Rx
            BY <3>2, <3>3 DEF Node
        <3>5. g[n] \in Node(L)
            <4> DEFINE a == heap[n].Tx + c.len
                       b == heap[n].packets_sent_Tx + 1
            <4>1. a \in Nat /\ b \in Nat
                BY <1>2, <3>2 DEF Node
            <4>2. g[n] = [heap[n] EXCEPT !.Tx = a, !.packets_sent_Tx = b]
                BY <3>3
            <4> HIDE DEF a, b
            <4> QED
                BY <3>2, <4>1, <4>2 DEF Node
        <3>6. g \in [1 .. L -> Node(L)]
            BY <1>1, <3>3, <3>5
        <3> QED
            BY <1>1, <2>1, <3>3, <3>4, <3>6
    <2>2. CASE heap[n].src # c.src
        <3>1. g = [heap EXCEPT ![n].Rx = @ + c.len, ![n].packets_sent_Rx = @ + 1]
            BY <2>2 DEF Add
        <3>2. heap[n] \in Node(L)
            BY <1>1
        <3>3. /\ DOMAIN g = 1 .. L /\ g = [m \in 1 .. L |-> g[m]]
              /\ \A m \in 1 .. L : m # n => g[m] = heap[m]
              /\ g[n] = [heap[n] EXCEPT !.Rx = heap[n].Rx + c.len,
                                       !.packets_sent_Rx = heap[n].packets_sent_Rx + 1]
            BY <1>1, <3>1, <3>2 DEF Node
        <3> HIDE DEF g, L, c
        <3>4. /\ g[n].next = heap[n].next /\ g[n].prev = heap[n].prev
              /\ g[n].src = heap[n].src /\ g[n].dst = heap[n].dst
              /\ g[n].Rx = heap[n].Rx + c.len /\ g[n].Tx = heap[n].Tx
            BY <3>2, <3>3 DEF Node
        <3>5. g[n] \in Node(L)
            <4> DEFINE a == heap[n].Rx + c.len
                       b == heap[n].packets_sent_Rx + 1
            <4>1. a \in Nat /\ b \in Nat
                BY <1>2, <3>2 DEF Node
            <4>2. g[n] = [heap[n] EXCEPT !.Rx = a, !.packets_sent_Rx = b]
                BY <3>3
            <4> HIDE DEF a, b
            <4> QED
                BY <3>2, <4>1, <4>2 DEF Node
        <3>6. g \in [1 .. L -> Node(L)]
            BY <1>1, <3>3, <3>5
        <3> QED
            BY <1>1, <2>2, <3>3, <3>4, <3>6
    <2> QED
        BY <2>1, <2>2
<1> HIDE DEF L, g, c
<1>4. Len(g) = L /\ Typed(g) /\ DOMAIN g = 1 .. L
    BY <1>1, <1>3, TypedBack
<1>5. Alike(heap, g)
    BY <1>1, <1>3, <1>4 DEF Alike, L
<1>6. \A m \in DOMAIN heap :
         g[m].Rx + g[m].Tx = IF m = n THEN (heap[m].Rx + heap[m].Tx) + c.len ELSE heap[m].Rx + heap[m].Tx
    BY <1>1, <1>2, <1>3
<1>7. ASSUME NEW x \in Endpoints, NEW y \in Endpoints, NEW m \in DOMAIN heap
      PROVE  Sent(g, x, y)[m] = IF m = n /\ x = c.src /\ y = c.dst
                                THEN Sent(heap, x, y)[m] + c.len ELSE Sent(heap, x, y)[m]
    <2>1. \/ c.src = heap[n].src /\ c.dst = heap[n].dst
          \/ c.src = heap[n].dst /\ c.dst = heap[n].src
        BY DEF compare_communications, c
    <2>2. Sent(heap, x, y)[m]
            = (IF heap[m].src = x /\ heap[m].dst = y THEN heap[m].Tx ELSE 0)
            + (IF heap[m].src = y /\ heap[m].dst = x THEN heap[m].Rx ELSE 0)
        BY DEF Sent
    <2>3. Sent(g, x, y)[m]
            = (IF heap[m].src = x /\ heap[m].dst = y THEN g[m].Tx ELSE 0)
            + (IF heap[m].src = y /\ heap[m].dst = x THEN g[m].Rx ELSE 0)
        BY <1>1, <1>3, <1>4 DEF Sent
    <2> QED
        BY <1>1, <1>2, <1>3, <2>1, <2>2, <2>3
<1> QED
    BY <1>3, <1>4, <1>5, <1>6, <1>7 DEF g, c

(* NewNode at the end of the heap. *)
LEMMA NewFields ==
    ASSUME Typed(heap), c_info \in Packets
    PROVE  LET h == Append(heap, NewNode(c_info))
               L == Len(heap)
           IN /\ Typed(h) /\ Len(h) = L + 1 /\ DOMAIN h = 1 .. L + 1
              /\ \A m \in 1 .. L : h[m] = heap[m]
              /\ h[L + 1] = NewNode(c_info)
              /\ h[L + 1].next = NULL /\ h[L + 1].prev = NULL
              /\ h[L + 1].src = c_info.src /\ h[L + 1].dst = c_info.dst
              /\ h[L + 1].Rx = 0 /\ h[L + 1].Tx = c_info.len
<1> DEFINE h == Append(heap, NewNode(c_info))
           L == Len(heap)
<1>1. L \in Nat /\ DOMAIN heap = 1 .. L /\ heap \in [1 .. L -> Node(L)]
    BY TypedNode
<1>2. c_info.src \in Endpoints /\ c_info.dst \in Endpoints /\ c_info.len \in Nat
    BY PacketFields
<1>3. NewNode(c_info) \in Node(L + 1)
    BY <1>1, <1>2 DEF NewNode, Node, NULL
<1>4. \A m \in 1 .. L : heap[m] \in Node(L + 1)
    <2> SUFFICES ASSUME NEW m \in 1 .. L
                 PROVE  heap[m] \in Node(L + 1)
        OBVIOUS
    <2>1. heap[m] \in Node(L)
        BY <1>1
    <2>2. -1 .. L \subseteq -1 .. L + 1 /\ 0 .. L \subseteq 0 .. L + 1
        BY <1>1
    <2> QED
        BY <2>1, <2>2 DEF Node
<1>5. heap \in Seq(Node(L)) /\ Len(heap) = L
    BY DEF Typed
<1>6. h = [m \in 1 .. L + 1 |-> IF m = L + 1 THEN NewNode(c_info) ELSE heap[m]]
    <2> DEFINE new == NewNode(c_info)
               N == Node(L + 1)
    <2>1. heap \in Seq(N) /\ new \in N
        BY <1>1, <1>3, <1>4
    <2> HIDE DEF new, N
    <2>2. Append(heap, new) = [m \in 1 .. L + 1 |-> IF m = L + 1 THEN new ELSE heap[m]]
        <3>1. Append(heap, new) \in Seq(N) /\ Len(Append(heap, new)) = L + 1
            BY <1>1, <2>1
        <3>2. Append(heap, new)[L + 1] = new
            BY <1>1, <2>1
        <3>3. \A m \in 1 .. L : Append(heap, new)[m] = heap[m]
            BY <1>1, <2>1
        <3>4. Append(heap, new) = [m \in 1 .. L + 1 |-> Append(heap, new)[m]]
            BY <3>1, SeqIsFunction, Zenon
        <3> QED
            BY <1>1, <3>2, <3>3, <3>4
    <2> QED
        BY <2>2 DEF new
<1> HIDE DEF h, L
<1>7. /\ \A m \in 1 .. L : h[m] = heap[m]
      /\ h[L + 1] = NewNode(c_info) /\ DOMAIN h = 1 .. L + 1
    BY <1>1, <1>6
<1>8. h \in [1 .. L + 1 -> Node(L + 1)]
    BY <1>1, <1>3, <1>4, <1>6
<1>9. Len(h) = L + 1 /\ Typed(h)
    BY <1>1, <1>8, TypedBack
<1>10. /\ h[L + 1].next = NULL /\ h[L + 1].prev = NULL
       /\ h[L + 1].src = c_info.src /\ h[L + 1].dst = c_info.dst
       /\ h[L + 1].Rx = 0 /\ h[L + 1].Tx = c_info.len
    BY <1>7 DEF NewNode
<1> QED
    BY <1>7, <1>9, <1>10 DEF h, L

-----------------------------------------------------------------------------
(* What the nodes and the histories count *)

(* What the sums over the heap add up are natural numbers.                     *)
LEMMA CounterTypes ==
    ASSUME NEW h, Typed(h)
    PROVE  /\ IsFiniteSet(DOMAIN h) /\ \A S \in SUBSET DOMAIN h : IsFiniteSet(S)
           /\ \A m \in DOMAIN h : Bytes(h)[m] = h[m].Rx + h[m].Tx /\ Bytes(h)[m] \in Nat
           /\ \A x, y : \A m \in DOMAIN h :
                 /\ Sent(h, x, y)[m] = (IF h[m].src = x /\ h[m].dst = y THEN h[m].Tx ELSE 0)
                                     + (IF h[m].src = y /\ h[m].dst = x THEN h[m].Rx ELSE 0)
                 /\ Sent(h, x, y)[m] \in Nat
<1>1. /\ Len(h) \in Nat /\ DOMAIN h = 1 .. Len(h)
      /\ \A m \in DOMAIN h : h[m].Rx \in Nat /\ h[m].Tx \in Nat
    BY TypedNode
<1>2. IsFiniteSet(DOMAIN h)
    BY <1>1, FS_Interval
<1>3. \A S \in SUBSET DOMAIN h : IsFiniteSet(S)
    BY <1>2, FS_Subset
<1>4. \A m \in DOMAIN h : Bytes(h)[m] = h[m].Rx + h[m].Tx /\ Bytes(h)[m] \in Nat
    BY <1>1 DEF Bytes
<1>5. \A x, y : \A m \in DOMAIN h :
         /\ Sent(h, x, y)[m] = (IF h[m].src = x /\ h[m].dst = y THEN h[m].Tx ELSE 0)
                             + (IF h[m].src = y /\ h[m].dst = x THEN h[m].Rx ELSE 0)
         /\ Sent(h, x, y)[m] \in Nat
    BY <1>1 DEF Sent
<1> QED
    BY <1>2, <1>3, <1>4, <1>5

(* A total is a natural number.                                                *)
LEMMA TotalType ==
    ASSUME NEW h, Typed(h), NEW S \in SUBSET DOMAIN h
    PROVE  Total(h, S) \in Nat
<1>1. IsFiniteSet(S) /\ \A m \in S : Bytes(h)[m] \in Nat
    BY CounterTypes
<1>2. Total(h, S) \in Int
    BY <1>1, SumType DEF Total
<1>3. 0 <= Total(h, S)
    BY <1>1, SumOfPart DEF Total
<1> QED
    BY <1>2, <1>3

(* Moving nodes changes no sum.                                                *)
LEMMA SameCounts ==
    ASSUME NEW h, NEW g, Typed(h), Typed(g), Alike(h, g), Counts(h, g)
    PROVE  /\ \A S \in SUBSET DOMAIN h : Total(g, S) = Total(h, S)
           /\ \A x, y : Flow(g, x, y) = Flow(h, x, y)
<1>1. DOMAIN g = DOMAIN h
    BY DEF Alike
<1>2. ASSUME NEW S \in SUBSET DOMAIN h
      PROVE  Total(g, S) = Total(h, S)
    <2>1. IsFiniteSet(S) /\ \A m \in S : Bytes(h)[m] \in Int /\ Bytes(g)[m] = Bytes(h)[m]
        BY <1>1, CounterTypes DEF Counts
    <2> QED
        BY <2>1, SumSame DEF Total
<1>3. ASSUME NEW x, NEW y
      PROVE  Flow(g, x, y) = Flow(h, x, y)
    <2> DEFINE D == DOMAIN h
    <2>1. ASSUME NEW m \in D
          PROVE  Sent(h, x, y)[m] \in Int /\ Sent(g, x, y)[m] = Sent(h, x, y)[m]
        BY <1>1, CounterTypes DEF Counts, Alike
    <2>2. IsFiniteSet(D)
        BY CounterTypes
    <2> HIDE DEF D
    <2>3. SumFunctionOnSet(Sent(g, x, y), D) = SumFunctionOnSet(Sent(h, x, y), D)
        BY <2>1, <2>2, SumSame
    <2> QED
        BY <1>1, <2>3 DEF Flow, D
<1> QED
    BY <1>2, <1>3

(* g counts c_info besides what h counts. *)
Adds(h, g) ==
    \A x, y \in Endpoints :
        Flow(g, x, y) = Flow(h, x, y) + (IF x = c_info.src /\ y = c_info.dst THEN c_info.len ELSE 0)

(* add_communications counts the packet once, in its direction.                *)
LEMMA AddCounts ==
    ASSUME Typed(heap), NEW n \in DOMAIN heap, c_info \in Packets,
           compare_communications(c_info, heap[n])
    PROVE  /\ Adds(heap, Add(n))
           /\ \A S \in SUBSET DOMAIN heap : n \in S => Total(Add(n), S) = Total(heap, S) + c_info.len
<1> DEFINE g == Add(n)
           len == c_info.len
<1>1. /\ Alike(heap, g) /\ Typed(g) /\ DOMAIN g = DOMAIN heap
      /\ \A m \in DOMAIN heap :
            g[m].Rx + g[m].Tx
              = IF m = n THEN (heap[m].Rx + heap[m].Tx) + len ELSE heap[m].Rx + heap[m].Tx
      /\ \A x, y \in Endpoints : \A m \in DOMAIN heap :
            Sent(g, x, y)[m] = IF m = n /\ x = c_info.src /\ y = c_info.dst
                               THEN Sent(heap, x, y)[m] + len ELSE Sent(heap, x, y)[m]
    BY AddFields DEF Alike
<1>2. len \in Nat /\ len \in Int /\ 0 \in Int
    BY PacketFields
<1> HIDE DEF g, len
<1>3. ASSUME NEW S \in SUBSET DOMAIN heap, n \in S
      PROVE  Total(g, S) = Total(heap, S) + len
    <2>1. \A m \in S : Bytes(heap)[m] \in Int
                       /\ Bytes(g)[m] = IF m = n THEN Bytes(heap)[m] + len ELSE Bytes(heap)[m]
        BY <1>1, CounterTypes
    <2>2. IsFiniteSet(S)
        BY CounterTypes
    <2> QED
        BY <1>2, <1>3, <2>1, <2>2, SumUpdate DEF Total
<1>4. ASSUME NEW x \in Endpoints, NEW y \in Endpoints
      PROVE  Flow(g, x, y) = Flow(heap, x, y) + (IF x = c_info.src /\ y = c_info.dst THEN len ELSE 0)
    <2> DEFINE d == IF x = c_info.src /\ y = c_info.dst THEN len ELSE 0
               D == DOMAIN heap
               f == Sent(heap, x, y)
               e == Sent(g, x, y)
    <2>1. d \in Int
        BY <1>2
    <2>2. IsFiniteSet(D) /\ n \in D /\ \A m \in D : f[m] \in Int
        BY CounterTypes
    <2>3. \A m \in D : e[m] = IF m = n THEN f[m] + d ELSE f[m]
        <3> SUFFICES ASSUME NEW m \in D
                     PROVE  e[m] = IF m = n THEN f[m] + d ELSE f[m]
            OBVIOUS
        <3>1. f[m] \in Int /\ e[m] = IF m = n /\ x = c_info.src /\ y = c_info.dst THEN f[m] + len ELSE f[m]
            BY <1>1, <2>2
        <3> HIDE DEF f, e
        <3> QED
            BY <1>2, <3>1
    <2> HIDE DEF d, D, e, f
    <2>4. \A m \in D : f[m] \in Int /\ e[m] = IF m = n THEN f[m] + d ELSE f[m]
        BY <2>2, <2>3
    <2>5. SumFunctionOnSet(e, D) = SumFunctionOnSet(f, D) + d
        BY <2>1, <2>2, <2>4, SumUpdate
    <2> QED
        BY <1>1, <2>5 DEF Flow, D, e, f, d
<1> QED
    BY <1>3, <1>4 DEF Adds, g, len

(* So does a new node.                                                         *)
LEMMA NewCounts ==
    ASSUME Typed(heap), c_info \in Packets
    PROVE  /\ Adds(heap, Append(heap, NewNode(c_info)))
           /\ \A S \in SUBSET DOMAIN heap :
                 Total(Append(heap, NewNode(c_info)), S \cup {Len(heap) + 1}) = Total(heap, S) + c_info.len
<1> DEFINE h == Append(heap, NewNode(c_info))
           new == Len(heap) + 1
           c == c_info
<1>1. /\ Typed(h) /\ DOMAIN h = 1 .. new /\ \A m \in 1 .. Len(heap) : h[m] = heap[m]
      /\ h[new].src = c.src /\ h[new].dst = c.dst /\ h[new].Rx = 0 /\ h[new].Tx = c.len
    BY NewFields
<1>2. c.len \in Nat /\ c.src \in Endpoints /\ c.dst \in Endpoints
    BY PacketFields
<1>3. Len(heap) \in Nat /\ DOMAIN heap = 1 .. Len(heap)
    BY TypedNode
<1>4. new \notin DOMAIN heap /\ new \in DOMAIN h /\ DOMAIN h = DOMAIN heap \cup {new}
    BY <1>1, <1>3
<1>5. \A m \in DOMAIN heap : h[m] = heap[m] /\ m \in DOMAIN h
    BY <1>1, <1>3, <1>4
<1> HIDE DEF h, new, c
<1>6. ASSUME NEW S \in SUBSET DOMAIN heap
      PROVE  Total(h, S \cup {new}) = Total(heap, S) + c.len
    <2> DEFINE f == Bytes(heap)
               e == Bytes(h)
    <2>1. ASSUME NEW m \in S
          PROVE  f[m] \in Int /\ e[m] = f[m]
        <3>1. f[m] = heap[m].Rx + heap[m].Tx /\ f[m] \in Nat
            BY CounterTypes
        <3>2. e[m] = h[m].Rx + h[m].Tx /\ h[m] = heap[m]
            BY <1>1, <1>5, CounterTypes
        <3> QED
            BY <3>1, <3>2
    <2>2. IsFiniteSet(S) /\ new \notin S
        BY <1>4, CounterTypes
    <2>3. e[new] = c.len /\ e[new] \in Int
        BY <1>1, <1>2, <1>4, CounterTypes
    <2> HIDE DEF f, e
    <2>4. SumFunctionOnSet(e, S \cup {new}) = SumFunctionOnSet(f, S) + e[new]
        <3> DEFINE T == S
        <3>1. \A m \in T : f[m] \in Int /\ e[m] = f[m]
            BY <2>1
        <3>2. e[new] \in Int /\ IsFiniteSet(T) /\ new \notin T
            BY <2>2, <2>3
        <3> HIDE DEF T
        <3>3. SumFunctionOnSet(e, T \cup {new}) = SumFunctionOnSet(f, T) + e[new]
            BY <3>1, <3>2, SumExtended
        <3> QED
            BY <3>3 DEF T
    <2> QED
        BY <2>3, <2>4 DEF Total, e, f
<1>7. ASSUME NEW x \in Endpoints, NEW y \in Endpoints
      PROVE  Flow(h, x, y) = Flow(heap, x, y) + (IF x = c.src /\ y = c.dst THEN c.len ELSE 0)
    <2> DEFINE D == DOMAIN heap
               f == Sent(heap, x, y)
               e == Sent(h, x, y)
    <2>1. ASSUME NEW m \in D
          PROVE  f[m] \in Int /\ e[m] = f[m]
        <3>1. f[m] = (IF heap[m].src = x /\ heap[m].dst = y THEN heap[m].Tx ELSE 0)
                   + (IF heap[m].src = y /\ heap[m].dst = x THEN heap[m].Rx ELSE 0) /\ f[m] \in Nat
            BY CounterTypes
        <3>2. e[m] = (IF h[m].src = x /\ h[m].dst = y THEN h[m].Tx ELSE 0)
                   + (IF h[m].src = y /\ h[m].dst = x THEN h[m].Rx ELSE 0)
            <4>1. Typed(h) /\ m \in DOMAIN h
                BY <1>1, <1>5
            <4> QED
                BY ONLY <4>1, CounterTypes DEF e
        <3>3. h[m] = heap[m]
            BY <1>5
        <3> QED
            BY <3>1, <3>2, <3>3
    <2>2. IsFiniteSet(D) /\ new \notin D
        BY <1>4, CounterTypes
    <2>3. e[new] = (IF x = c.src /\ y = c.dst THEN c.len ELSE 0) /\ e[new] \in Int
        <3>1. e[new] = (IF h[new].src = x /\ h[new].dst = y THEN h[new].Tx ELSE 0)
                     + (IF h[new].src = y /\ h[new].dst = x THEN h[new].Rx ELSE 0)
            BY <1>1, <1>4, CounterTypes
        <3> QED
            BY <1>1, <1>2, <3>1
    <2> HIDE DEF D, f, e
    <2>4. SumFunctionOnSet(e, D \cup {new}) = SumFunctionOnSet(f, D) + e[new]
        BY <2>1, <2>2, <2>3, SumExtended
    <2> QED
        BY <1>4, <2>3, <2>4 DEF Flow, D, e, f
<1> QED
    BY <1>6, <1>7 DEF Adds, h, new, c

(* So does the history captured.                                               *)
LEMMA CapturedSum ==
    ASSUME captured \in [Endpoints \X Endpoints -> Nat], c_info \in Packets, Inserted
    PROVE  /\ captured' \in [Endpoints \X Endpoints -> Nat]
           /\ SumFunction(captured') = SumFunction(captured) + c_info.len
           /\ SumFunction(captured) \in Int /\ SumFunction(captured') \in Int
           /\ \A x, y \in Endpoints :
                 captured'[<<x, y>>] = captured[<<x, y>>]
                    + (IF x = c_info.src /\ y = c_info.dst THEN c_info.len ELSE 0)
<1> DEFINE D == Endpoints \X Endpoints
           at == <<c_info.src, c_info.dst>>
           len == c_info.len
<1>1. len \in Nat /\ at \in D
    BY PacketFields
<1>2. captured' = [captured EXCEPT ![at] = captured[at] + len]
    BY DEF Inserted
<1>3. IsFiniteSet(D)
    BY ArgumentsAssumption, FS_Product
<1>4. \A x, y \in Endpoints : <<x, y>> \in D /\ (<<x, y>> = at <=> x = c_info.src /\ y = c_info.dst)
    OBVIOUS
<1> HIDE DEF D, at, len
<1>5. captured \in [D -> Nat]
    BY DEF D
<1>6. /\ captured' \in [D -> Nat] /\ DOMAIN captured = D /\ DOMAIN captured' = D
      /\ \A z \in D : captured[z] \in Int /\ captured'[z] = IF z = at THEN captured[z] + len ELSE captured[z]
    BY <1>1, <1>2, <1>5
<1>7. SumFunctionOnSet(captured', D) = SumFunctionOnSet(captured, D) + len
    <2> DEFINE f == captured
               e == captured'
    <2>1. \A z \in D : f[z] \in Int /\ e[z] = IF z = at THEN f[z] + len ELSE f[z]
        BY <1>6
    <2>2. len \in Int
        BY <1>1
    <2> HIDE DEF f, e
    <2>3. SumFunctionOnSet(e, D) = SumFunctionOnSet(f, D) + len
        BY <1>1, <1>3, <2>1, <2>2, SumUpdate
    <2> QED
        BY <2>3 DEF e, f
<1>8. SumFunctionOnSet(captured, D) \in Int /\ SumFunctionOnSet(captured', D) \in Int
    BY <1>1, <1>3, <1>6, <1>7, SumType
<1>9. \A x, y \in Endpoints :
         captured'[<<x, y>>] = captured[<<x, y>>]
            + (IF x = c_info.src /\ y = c_info.dst THEN len ELSE 0)
    <2> SUFFICES ASSUME NEW x \in Endpoints, NEW y \in Endpoints
                 PROVE  captured'[<<x, y>>] = captured[<<x, y>>]
                          + (IF x = c_info.src /\ y = c_info.dst THEN len ELSE 0)
        OBVIOUS
    <2>1. captured[<<x, y>>] \in Int /\ captured'[<<x, y>>]
             = IF x = c_info.src /\ y = c_info.dst THEN captured[<<x, y>>] + len ELSE captured[<<x, y>>]
        BY <1>4, <1>6
    <2> QED
        BY <1>1, <2>1
<1>10. captured' \in [Endpoints \X Endpoints -> Nat]
    BY <1>6 DEF D
<1>11. SumFunction(captured) = SumFunctionOnSet(captured, D)
       /\ SumFunction(captured') = SumFunctionOnSet(captured', D)
    BY <1>6 DEF SumFunction
<1> QED
    BY <1>7, <1>8, <1>9, <1>10, <1>11 DEF len

-----------------------------------------------------------------------------
(* The histories over a step *)

(* The sums that Settled and Pending compare are numbers.                      *)
LEMMA SumsAreNumbers ==
    ASSUME TypeOK, Histories
    PROVE  /\ Typed(heap) /\ SumFunction(captured) \in Int /\ shown \in Nat /\ missed \in Nat
           /\ \A x, y \in Endpoints : captured[<<x, y>>] \in Nat /\ BytesShown(x, y) \in Int
<1>1. Typed(heap) /\ shown \in Nat /\ missed \in Nat
    BY DEF TypeOK, Typed, Node
<1>2. captured \in [Endpoints \X Endpoints -> Nat] /\ rows \in Seq(RowType)
    BY DEF Histories
<1>3. IsFiniteSet(Endpoints \X Endpoints)
    BY ArgumentsAssumption, FS_Product
<1>4. SumFunction(captured) \in Int
    <2> DEFINE D == Endpoints \X Endpoints
    <2>1. captured \in [D -> Nat] /\ IsFiniteSet(D)
        BY <1>2, <1>3
    <2> HIDE DEF D
    <2>2. DOMAIN captured = D /\ \A z \in D : captured[z] \in Int
        BY <2>1
    <2> QED
        BY <2>1, <2>2, SumType DEF SumFunction
<1>5. ASSUME NEW x \in Endpoints, NEW y \in Endpoints
      PROVE  captured[<<x, y>>] \in Nat /\ BytesShown(x, y) \in Int
    <2> DEFINE f == [i \in DOMAIN rows |->
                       (IF rows[i].src = x /\ rows[i].dst = y THEN rows[i].tx ELSE 0)
                     + (IF rows[i].src = y /\ rows[i].dst = x THEN rows[i].rx ELSE 0)]
               D == DOMAIN rows
    <2>1. D = 1 .. Len(rows) /\ Len(rows) \in Nat
        BY <1>2
    <2>2. IsFiniteSet(D)
        BY <2>1, FS_Interval
    <2>3. \A i \in D : rows[i] \in RowType
        BY <1>2, <2>1
    <2>4. \A i \in D : rows[i].tx \in Int /\ rows[i].rx \in Int
        BY <2>3 DEF RowType
    <2>5. DOMAIN f = D /\ \A i \in D : f[i] \in Int
        BY <2>4
    <2>6. BytesShown(x, y) = SumFunctionOnSet(f, DOMAIN f)
        BY Zenon DEF BytesShown, SumFunction
    <2> HIDE DEF f, D
    <2>7. BytesShown(x, y) \in Int
        BY <2>2, <2>5, <2>6, SumType
    <2> QED
        BY <1>2, <2>7
<1> QED
    BY <1>1, <1>4, <1>5

(* Steps that count nothing.                                                   *)
LEMMA HistoriesSame ==
    ASSUME Histories, UNCHANGED <<captured, rows>>,
           \A x, y : Flow(heap', x, y) = Flow(heap, x, y)
    PROVE  Histories'
<1>1. Counted'
    BY DEF Histories, Counted, Flow
<1>2. OneRowPerPair'
    BY DEF Histories, OneRowPerPair
<1>3. NothingAdded'
    BY DEF Histories, NothingAdded, BytesShown
<1> QED
    BY <1>1, <1>2, <1>3 DEF Histories

(* Steps that count a packet.                                                  *)
LEMMA HistoriesInserted ==
    ASSUME TypeOK, Histories, c_info \in Packets, Inserted, Adds(heap, heap'), UNCHANGED rows
    PROVE  Histories'
<1>1. /\ captured' \in [Endpoints \X Endpoints -> Nat]
      /\ \A x, y \in Endpoints :
            captured'[<<x, y>>] = captured[<<x, y>>]
               + (IF x = c_info.src /\ y = c_info.dst THEN c_info.len ELSE 0)
    BY CapturedSum DEF Histories
<1>2. c_info.len \in Nat
    BY PacketFields
<1>3. \A x, y \in Endpoints : captured[<<x, y>>] \in Nat /\ BytesShown(x, y) \in Int
    BY SumsAreNumbers
<1>4. Counted'
    <2>1. \A x, y \in Endpoints : Flow(heap', x, y) = captured'[<<x, y>>]
        <3> SUFFICES ASSUME NEW x \in Endpoints, NEW y \in Endpoints
                     PROVE  Flow(heap', x, y) = captured'[<<x, y>>]
            OBVIOUS
        <3>1. Flow(heap, x, y) = captured[<<x, y>>]
            BY DEF Histories, Counted
        <3>2. Flow(heap', x, y) = Flow(heap, x, y)
                 + (IF x = c_info.src /\ y = c_info.dst THEN c_info.len ELSE 0)
            BY DEF Adds
        <3>3. captured'[<<x, y>>] = captured[<<x, y>>]
                 + (IF x = c_info.src /\ y = c_info.dst THEN c_info.len ELSE 0)
            BY <1>1
        <3> QED
            BY <3>1, <3>2, <3>3
    <2> QED
        BY <2>1 DEF Counted, Flow
<1>5. OneRowPerPair'
    BY DEF Histories, OneRowPerPair
<1>6. NothingAdded'
    <2>1. \A x, y \in Endpoints : BytesShown(x, y)' = BytesShown(x, y)
        BY DEF BytesShown
    <2>2. \A x, y \in Endpoints : BytesShown(x, y) <= captured[<<x, y>>]
        BY DEF Histories, NothingAdded
    <2>3. ASSUME NEW x \in Endpoints, NEW y \in Endpoints
          PROVE  BytesShown(x, y) <= captured'[<<x, y>>]
        <3> DEFINE b == BytesShown(x, y)
                   c == captured[<<x, y>>]
                   d == IF x = c_info.src /\ y = c_info.dst THEN c_info.len ELSE 0
        <3>1. captured'[<<x, y>>] = c + d
            BY <1>1
        <3>2. b <= c
            BY <2>2
        <3>3. b \in Int /\ c \in Nat /\ d \in Nat
            BY <1>2, <1>3
        <3> HIDE DEF b, c, d
        <3>4. b <= c + d
            BY <3>2, <3>3
        <3> QED
            BY <3>1, <3>4 DEF b
    <2>5. \A x, y \in Endpoints : BytesShown(x, y)' <= captured'[<<x, y>>]
        BY <2>1, <2>3
    <2> QED
        BY <2>5 DEF NothingAdded
<1>7. rows' \in Seq(RowType)
    BY DEF Histories
<1> QED
    BY <1>1, <1>4, <1>5, <1>6, <1>7 DEF Histories

(* Settled reads the histories only.                                           *)
LEMMA SettledSame ==
    ASSUME UNCHANGED <<captured, shown, missed>>
    PROVE  Settled' = Settled
BY DEF Settled

(* Pending reads the histories and one total.                                  *)
LEMMA PendingSame ==
    ASSUME UNCHANGED <<captured, shown, missed>>, NEW S, NEW T, Total(heap', T) = Total(heap, S)
    PROVE  Pending(T)' = Pending(S)
BY DEF Pending, Total

(* A packet counted by a node of the list is not lost, or it is counted in     *)
(* missed.                                                                     *)
LEMMA KeptInserted ==
    ASSUME TypeOK, Histories, c_info \in Packets, Inserted, UNCHANGED <<display, shown>>,
           NEW S, S \subseteq DOMAIN heap, Kept(S, TRUE),
           NEW T, Total(heap', T) = Total(heap, S) + c_info.len
    PROVE  Kept(T, TRUE)'
<1>1. SumFunction(captured') = SumFunction(captured) + c_info.len
    BY CapturedSum DEF Histories
<1>2. c_info.len \in Nat
    BY PacketFields
<1>3. Typed(heap) /\ SumFunction(captured) \in Int /\ shown \in Nat /\ missed \in Nat
    BY SumsAreNumbers
<1>4. Total(heap, S) \in Nat
    BY <1>3, TotalType
<1> DEFINE c == SumFunction(captured)
           e == SumFunction(captured')
           u == Total(heap, S)
           w == Total(heap', T)
<1>5. CASE display = "print"
    <2>1. missed' = missed /\ shown' = shown /\ display' = "print"
        BY <1>5 DEF Inserted
    <2>2. c <= (shown + missed) + u
        <3>1. c <= shown + missed \/ c <= (shown + missed) + u
            BY DEF Kept, Settled, Pending
        <3> HIDE DEF c, u
        <3> QED
            BY <1>3, <1>4, <3>1 DEF c, u
    <2>3. e <= (shown' + missed') + w
        <3>1. /\ e = c + c_info.len /\ w = u + c_info.len /\ c \in Int /\ u \in Nat
            BY <1>1, <1>3, <1>4
        <3> HIDE DEF c, e, u, w
        <3> QED
            BY <1>2, <1>3, <2>1, <2>2, <3>1
    <2>4. Pending(T)'
        BY <2>3 DEF Pending, Total
    <2> QED
        BY <2>1, <2>4 DEF Kept
<1>6. CASE display # "print"
    <2>1. missed' = missed + c_info.len /\ shown' = shown /\ c <= shown + missed
        BY <1>6 DEF Inserted, Kept, Settled
    <2>2. e <= shown' + missed'
        <3>1. e = c + c_info.len /\ c \in Int
            BY <1>1, <1>3
        <3> HIDE DEF c, e
        <3> QED
            BY <1>2, <1>3, <2>1, <3>1
    <2>3. Settled'
        BY <2>2 DEF Settled
    <2> QED
        BY <2>3 DEF Kept
<1> QED
    BY <1>5, <1>6

-----------------------------------------------------------------------------
(* The steps *)

(* TypeOK with the predicates used here.                                       *)
LEMMA TypeParts ==
    TypeOK <=>
        /\ Typed(heap) /\ head \in -1 .. Len(heap) /\ node \in 0 .. Len(heap) /\ mutex \in BOOLEAN
        /\ capture \in {"loop", "get_node", "first", "move", "link_prev", "link_next",
                        "set_head", "unlock", "crashed"}
        /\ display \in {"print", "free", "clear"}
        /\ cumulative \in BOOLEAN /\ packets \in 0 .. MaxPackets
        /\ shown \in Nat /\ missed \in Nat
BY DEF TypeOK, Typed, Node

(* AtRest reads the list and the histories.                                    *)
LEMMA SameList ==
    ASSUME UNCHANGED <<cumulative, heap, head, display, captured, shown, missed>>, AtRest
    PROVE  AtRest'
BY DEF AtRest, Settled, Pending, Kept, Complete, Total, Chain

(* The invariant holds at first.                                               *)
LEMMA InitInv == Init => IInv
<1> SUFFICES ASSUME Init PROVE IInv
    OBVIOUS
<1>1. heap = <<>> /\ Len(heap) = 0 /\ DOMAIN heap = {}
    BY DEF Init
<1>2. Typed(heap)
    BY <1>1 DEF Typed
<1>3. TypeOK
    <2>1. /\ head \in -1 .. Len(heap) /\ node \in 0 .. Len(heap) /\ packets \in 0 .. MaxPackets
          /\ shown \in Nat /\ missed \in Nat
        BY <1>1, ArgumentsAssumption DEF Init, NULL
    <2>2. /\ mutex \in BOOLEAN /\ cumulative \in BOOLEAN /\ capture = "loop" /\ display = "print"
        BY DEF Init
    <2> QED
        BY <1>2, <2>1, <2>2, TypeParts
<1>4. Phases
    BY DEF Init, Phases, NULL, Garbage, Ends
<1>5. captured = [z \in Endpoints \X Endpoints |-> 0] /\ rows = <<>>
    BY DEF Init
<1>6. SumFunction(captured) = 0
    <2> DEFINE D == Endpoints \X Endpoints
    <2>1. IsFiniteSet(D)
        BY ArgumentsAssumption, FS_Product
    <2>2. captured = [z \in D |-> 0]
        BY <1>5
    <2> HIDE DEF D
    <2> DEFINE F == [T \in SUBSET D |-> 0]
    <2>3. IsSum(F, captured, D)
        BY <2>2 DEF IsSum
    <2>4. (\A z \in D : captured[z] \in Int) /\ F[D] = 0 /\ DOMAIN captured = D
        BY <2>2
    <2> HIDE DEF F
    <2> QED
        BY <2>1, <2>3, <2>4, SumIs DEF SumFunction
<1>7. Moving
    <2>1. Settled
        BY <1>6 DEF Settled, Init
    <2>2. AtRest
        BY <1>1, <2>1 DEF AtRest, Init, Ends
    <2> QED
        BY <2>2 DEF Moving, Init
<1>8. Histories
    <2>1. captured \in [Endpoints \X Endpoints -> Nat] /\ rows \in Seq(RowType)
        BY <1>5
    <2>2. \A x, y \in Endpoints : captured[<<x, y>>] = 0
        BY <1>5
    <2>3. Counted
        <3>1. \A x, y \in Endpoints : Flow(heap, x, y) = 0
            BY <1>1, SumEmpty DEF Flow
        <3> QED
            BY <2>2, <3>1 DEF Counted
    <2>4. OneRowPerPair
        BY <1>5 DEF OneRowPerPair
    <2>5. NothingAdded
        <3>1. \A x, y \in Endpoints : BytesShown(x, y) = 0
            <4> SUFFICES ASSUME NEW x \in Endpoints, NEW y \in Endpoints
                         PROVE  BytesShown(x, y) = 0
                OBVIOUS
            <4> DEFINE f == [i \in DOMAIN rows |->
                               (IF rows[i].src = x /\ rows[i].dst = y THEN rows[i].tx ELSE 0)
                             + (IF rows[i].src = y /\ rows[i].dst = x THEN rows[i].rx ELSE 0)]
            <4>1. BytesShown(x, y) = SumFunctionOnSet(f, DOMAIN f)
                BY Zenon DEF BytesShown, SumFunction
            <4>2. DOMAIN f = {}
                BY <1>5
            <4> HIDE DEF f
            <4> QED
                BY <4>1, <4>2, SumEmpty
        <3>2. \A x, y \in Endpoints : BytesShown(x, y) <= captured[<<x, y>>]
            <4> SUFFICES ASSUME NEW x \in Endpoints, NEW y \in Endpoints
                         PROVE  BytesShown(x, y) <= captured[<<x, y>>]
                OBVIOUS
            <4>1. BytesShown(x, y) = 0 /\ captured[<<x, y>>] = 0 /\ 0 <= 0
                BY <2>2, <3>1
            <4> QED
                BY <4>1, Zenon
        <3> QED
            BY <3>2 DEF NothingAdded
    <2> QED
        BY <2>1, <2>3, <2>4, <2>5 DEF Histories
<1> QED
    BY <1>3, <1>4, <1>7, <1>8 DEF IInv

(* A packet arrives: nothing but the capture thread moves on.                  *)
LEMMA PacketArrivesInv ==
    ASSUME IInv, PacketArrives, UNCHANGED cumulative
    PROVE  IInv'
<1> USE DEF IInv
<1>1. /\ UNCHANGED <<cumulative, heap, head, display, node, rows, captured, missed, shown>>
      /\ capture = "loop" /\ capture' = "get_node" /\ mutex' = TRUE /\ c_info' \in Packets
      /\ packets < MaxPackets /\ packets' = packets + 1
    BY DEF PacketArrives, counted
<1>2. TypeOK'
    BY <1>1, ArgumentsAssumption DEF TypeOK
<1>3. Phases'
    BY <1>1 DEF Phases
<1>4. Histories'
    BY <1>1, HistoriesSame
<1>5. AtRest
    BY <1>1 DEF Moving
<1>6. AtRest'
    BY <1>1, <1>5, SameList
<1>7. Moving'
    BY <1>1, <1>6 DEF Moving
<1> QED
    BY <1>2, <1>3, <1>4, <1>7

(* The mutex is released when the list is at rest.                             *)
LEMMA UnlockInv ==
    ASSUME IInv, Unlock, UNCHANGED cumulative
    PROVE  IInv'
<1> USE DEF IInv
<1>1. /\ UNCHANGED <<cumulative, heap, head, display, node, rows, packets, captured, missed, shown>>
      /\ capture = "unlock" /\ capture' = "loop" /\ mutex' = FALSE
    BY DEF Unlock, counted
<1>2. TypeOK'
    BY <1>1 DEF TypeOK
<1>3. Phases'
    BY <1>1 DEF Phases
<1>4. Histories'
    BY <1>1, HistoriesSame
<1>5. AtRest
    BY <1>1 DEF Moving
<1>6. AtRest'
    BY <1>1, <1>5, SameList
<1>7. Moving'
    BY <1>1, <1>6 DEF Moving
<1> QED
    BY <1>2, <1>3, <1>4, <1>7

(* The display thread replaces the list, whatever the capture thread is doing. *)
LEMMA MovingReplaced ==
    ASSUME Moving, ~cumulative, ~cumulative', display # "print", head' \in Ends,
           UNCHANGED <<heap, node, capture, captured, shown, missed>>
    PROVE  Moving'
<1>1. Settled => Settled'
    BY SettledSame
<1>2. \A S, i : Kept(S, i) => Settled
    BY DEF Kept
<1>3. AtRest => AtRest'
    <2>1. AtRest => Settled
        BY <1>2 DEF AtRest
    <2> QED
        BY <1>1, <2>1 DEF AtRest
<1>4. Leaving => Leaving'
    <2> SUFFICES ASSUME Leaving PROVE Leaving'
        OBVIOUS
    <2>0. PICK k \in 1 .. Len(heap) : \E s \in [1 .. k -> DOMAIN heap] :
             /\ Chain(heap, s, k, NULL) /\ \E i \in 2 .. k : s[i] = node
             /\ Kept(Nodes(s, k), head = s[1])
        BY DEF Leaving
    <2>1. PICK s \in [1 .. k -> DOMAIN heap] :
             /\ Chain(heap, s, k, NULL) /\ \E i \in 2 .. k : s[i] = node
             /\ Kept(Nodes(s, k), head = s[1])
        BY <2>0
    <2>2. Settled'
        BY <1>1, <1>2, <2>1
    <2>3. /\ Chain(heap, s, k, NULL)' /\ (head \in {s[1]} \cup Ends)' /\ (\E i \in 2 .. k : s[i] = node)'
        BY <2>1 DEF Chain, Ends
    <2>4. Kept(Nodes(s, k), head = s[1])' /\ Complete(s[k], Nodes(s, k), k, head = s[1])'
        BY <2>2 DEF Kept, Complete
    <2>5. k \in 1 .. Len(heap') /\ s \in [1 .. k -> DOMAIN heap']
        OBVIOUS
    <2> QED
        BY <2>3, <2>4, <2>5 DEF Leaving
<1>5. ASSUME NEW p, NEW f, NEW g, g \in {f} \cup Ends, Apiece(p, f)
      PROVE  \E k \in 1 .. Len(heap') : \E s \in [1 .. k -> DOMAIN heap'] :
                 /\ Chain(heap', s, k, p) /\ Apart(heap', s, k, node') /\ g \in {s[1]} \cup Ends
                 /\ Settled' /\ ~cumulative'
    BY <1>1, <1>2, <1>5 DEF Apiece
<1>6. /\ Apiece(NULL, head) => Apiece(NULL, head)'
      /\ Apiece(node, head) => Apiece(node, head)'
      /\ Apiece(node, heap[node].next) => Apiece(node, heap[node].next)'
    <2>1. Apiece(NULL, head) => Apiece(NULL, head)'
        BY <1>5 DEF Apiece, Kept, Complete
    <2>2. Apiece(node, head) => Apiece(node, head)'
        BY <1>5 DEF Apiece, Kept, Complete
    <2>3. Apiece(node, heap[node].next) => Apiece(node, heap[node].next)'
        BY <1>5 DEF Apiece, Kept, Complete
    <2> QED
        BY <2>1, <2>2, <2>3
<1> QED
    BY <1>3, <1>4, <1>6 DEF Moving

(* The two steps of init_llist, at any moment of the capture thread.           *)
LEMMA ReplaceInv ==
    ASSUME IInv, FreeList \/ ClearList, UNCHANGED cumulative
    PROVE  IInv'
<1> USE DEF IInv
<1>1. /\ UNCHANGED <<cumulative, heap, mutex, capture, c_info, node, rows, packets, captured, missed, shown>>
      /\ display # "print" /\ display' \in {"print", "clear"} /\ head' \in Ends /\ head' \in {-1, 0}
    BY DEF FreeList, ClearList, counted, Ends, NULL, Garbage
<1>2. ~cumulative
    BY <1>1 DEF Phases
<1>3. TypeOK'
    <2>1. Len(heap) \in Nat
        BY DEF TypeOK
    <2>2. head' \in -1 .. Len(heap)'
        BY <1>1, <2>1
    <2> QED
        BY <1>1, <2>2 DEF TypeOK
<1>4. Phases'
    BY <1>1, <1>2 DEF Phases
<1>5. Histories'
    BY <1>1, HistoriesSame
<1>6. Moving'
    BY <1>1, <1>2, MovingReplaced
<1> QED
    BY <1>3, <1>4, <1>5, <1>6

(* What get_node and print_llist find between two packets. *)
LEMMA ListAtRest ==
    ASSUME TypeOK, AtRest
    PROVE  \E k \in 0 .. Len(heap) : \E s \in [1 .. k -> DOMAIN heap] :
              /\ List = s /\ Len(List) = k /\ DOMAIN List = 1 .. k /\ Range(List) = Nodes(s, k)
              /\ \A i, j \in 1 .. k : s[i] = s[j] => i = j
              /\ \A i, j \in 1 .. k : i # j => ~compare_communications(heap[s[i]], heap[s[j]])
              /\ Settled \/ (display = "print" /\ Pending(Nodes(s, k)))
              /\ cumulative => /\ ~HasGarbage /\ k = Len(heap) /\ Nodes(s, k) = DOMAIN heap
                               /\ \A i \in 1 .. k : heap[s[i]].prev = IF i = 1 THEN NULL ELSE s[i - 1]
<1>1. Typed(heap) /\ Len(heap) \in Nat /\ DOMAIN heap = 1 .. Len(heap) /\ heap \in Seq(Node(Len(heap)))
    <2>1. Typed(heap)
        BY TypeParts
    <2> QED
        BY <2>1, TypedNode DEF Typed
<1>2. CASE head \in Ends /\ Settled /\ (cumulative => head = NULL /\ heap = <<>>)
    <2>1. List = <<>> /\ (HasGarbage <=> head = Garbage)
        BY <1>1, <1>2, ListOfEnds
    <2> DEFINE s == <<>>
               k == 0
    <2>2. k \in 0 .. Len(heap) /\ s \in [1 .. k -> DOMAIN heap] /\ 1 .. k = {}
        BY <1>1
    <2>3. List = s /\ Len(List) = k /\ DOMAIN List = 1 .. k
        BY <2>1
    <2>4. Nodes(s, k) = {} /\ Range(List) = {}
        BY <2>2, <2>3 DEF Nodes, Range
    <2>5. cumulative => ~HasGarbage /\ k = Len(heap) /\ Nodes(s, k) = DOMAIN heap
        BY <1>2, <2>1, <2>4 DEF NULL, Garbage
    <2> HIDE DEF s, k
    <2> QED
        BY <1>2, <2>2, <2>3, <2>4, <2>5
<1>3. CASE \E k \in 1 .. Len(heap) : \E s \in [1 .. k -> DOMAIN heap] :
              /\ Chain(heap, s, k, NULL) /\ head = s[1]
              /\ Kept(Nodes(s, k), TRUE) /\ Complete(s[k], Nodes(s, k), k, TRUE)
    <2>1. PICK k \in 1 .. Len(heap) : \E s \in [1 .. k -> DOMAIN heap] :
              /\ Chain(heap, s, k, NULL) /\ head = s[1]
              /\ Kept(Nodes(s, k), TRUE) /\ Complete(s[k], Nodes(s, k), k, TRUE)
        BY <1>3
    <2>2. PICK s \in [1 .. k -> DOMAIN heap] :
              /\ Chain(heap, s, k, NULL) /\ head = s[1]
              /\ Kept(Nodes(s, k), TRUE) /\ Complete(s[k], Nodes(s, k), k, TRUE)
        BY <2>1
    <2>3. List = s /\ Len(List) = k /\ DOMAIN List = 1 .. k /\ (HasGarbage <=> heap[s[k]].next = Garbage)
        BY <1>1, <2>2, ListOfChain
    <2>4. Range(List) = Nodes(s, k)
        BY <2>3 DEF Range, Nodes
    <2>5. /\ \A i, j \in 1 .. k : s[i] = s[j] => i = j
          /\ \A i, j \in 1 .. k : i # j => ~compare_communications(heap[s[i]], heap[s[j]])
        BY <2>2 DEF Chain
    <2>6. cumulative => /\ ~HasGarbage /\ k = Len(heap) /\ Nodes(s, k) = DOMAIN heap
                        /\ \A i \in 1 .. k : heap[s[i]].prev = IF i = 1 THEN NULL ELSE s[i - 1]
        <3>1. \A i \in 1 .. k : heap[s[i]].prev = IF i = 1 THEN NULL ELSE s[i - 1]
            <4> SUFFICES ASSUME NEW i \in 1 .. k
                         PROVE  heap[s[i]].prev = IF i = 1 THEN NULL ELSE s[i - 1]
                OBVIOUS
            <4>1. CASE i = 1
                BY <2>2, <4>1 DEF Chain
            <4>2. CASE i # 1
                <5>1. i - 1 \in 1 .. k - 1 /\ (i - 1) + 1 = i
                    BY <4>2
                <5>2. heap[s[(i - 1) + 1]].prev = s[i - 1]
                    BY <2>2, <5>1 DEF Chain
                <5> QED
                    BY <4>2, <5>1, <5>2
            <4> QED
                BY <4>1, <4>2
        <3>2. cumulative => ~HasGarbage /\ k = Len(heap) /\ Nodes(s, k) = DOMAIN heap
            BY <2>2, <2>3 DEF Complete, NULL, Garbage
        <3> QED
            BY <3>1, <3>2
    <2>7. Settled \/ (display = "print" /\ Pending(Nodes(s, k)))
        BY <2>2 DEF Kept
    <2>8. k \in 0 .. Len(heap)
        BY <1>1
    <2> QED
        BY <2>3, <2>4, <2>5, <2>6, <2>7, <2>8
<1> QED
    BY <1>2, <1>3 DEF AtRest

ShownIn(rs, x, y) ==
    SumFunction([i \in DOMAIN rs |->
                    (IF rs[i].src = x /\ rs[i].dst = y THEN rs[i].tx ELSE 0)
                  + (IF rs[i].src = y /\ rs[i].dst = x THEN rs[i].rx ELSE 0)])

NoneTwice(s, k) ==
    /\ \A i, j \in 1 .. k : s[i] = s[j] => i = j
    /\ \A i, j \in 1 .. k : i # j => ~compare_communications(heap[s[i]], heap[s[j]])

(* What rows rs may show of the nodes s. *)
Reports(rs, s, k) ==
    /\ rs \in Seq(RowType)
    /\ \A i, j \in DOMAIN rs : i # j => {rs[i].src, rs[i].dst} # {rs[j].src, rs[j].dst}
    /\ \A x, y \in Endpoints : ShownIn(rs, x, y) <= Flow(heap, x, y)
    /\ \A x, y \in Endpoints : /\ ShownIn(rs, x, y) \in Int
                               /\ ShownIn(rs, x, y) <= SumFunctionOnSet(Sent(heap, x, y), Nodes(s, k))
    /\ BytesIn(rs) \in Nat /\ BytesIn(rs) <= Total(heap, Nodes(s, k))

(* The rows of the first r nodes of the list. *)
LEMMA RowsOf ==
    ASSUME Typed(heap), NEW k \in Nat, NEW s \in [1 .. k -> DOMAIN heap], NEW r \in 0 .. k, NEW rs,
           DOMAIN rs = 1 .. r, rs = [i \in 1 .. r |-> Row(s[i])],
           NoneTwice(s, k)
    PROVE  Reports(rs, s, k)
<1> DEFINE D == DOMAIN heap
           R == Nodes(s, r)
<1>1. /\ \A m \in D : heap[m].Rx \in Nat /\ heap[m].Tx \in Nat
      /\ \A m \in D : heap[m].src \in Endpoints /\ heap[m].dst \in Endpoints
    BY TypedNode
<1>2. r \in Nat /\ 1 .. r \subseteq 1 .. k /\ \A i \in 1 .. r : s[i] \in D
    OBVIOUS
<1>3. \A i \in 1 .. r : /\ rs[i].src = heap[s[i]].src /\ rs[i].dst = heap[s[i]].dst
                        /\ rs[i].rx = heap[s[i]].Rx /\ rs[i].tx = heap[s[i]].Tx
    BY DEF Row
<1>4. rs \in Seq(RowType)
    <2>1. \A i \in 1 .. r : Row(s[i]) \in RowType
        BY <1>1, <1>2 DEF Row, RowType
    <2>2. rs \in [1 .. r -> RowType]
        BY <2>1
    <2> QED
        BY <1>2, <2>2
<1>5. ASSUME NEW i \in DOMAIN rs, NEW j \in DOMAIN rs, i # j
      PROVE  {rs[i].src, rs[i].dst} # {rs[j].src, rs[j].dst}
    <2>1. ~compare_communications(heap[s[i]], heap[s[j]])
        BY <1>2, <1>5 DEF NoneTwice
    <2>2. ~compare_communications(rs[i], rs[j])
        BY <1>3, <2>1 DEF compare_communications
    <2> QED
        BY <2>2, Zenon DEF compare_communications
<1>6. IsFiniteSet(D) /\ R \subseteq D /\ R \subseteq Nodes(s, k) /\ Nodes(s, k) \subseteq D
      /\ IsFiniteSet(Nodes(s, k)) /\ IsFiniteSet(1 .. r)
    <2>1. R \subseteq D /\ R \subseteq Nodes(s, k) /\ Nodes(s, k) \subseteq D
        BY <1>2 DEF Nodes
    <2> QED
        <3>1. IsFiniteSet(D) /\ IsFiniteSet(Nodes(s, k))
            BY <2>1, CounterTypes
        <3>2. IsFiniteSet(1 .. r)
            BY <1>2, FS_Interval
        <3> QED
            BY <2>1, <3>1, <3>2
<1>7. s \in [1 .. k -> D] /\ \A i, j \in 1 .. r : s[i] = s[j] => i = j
    BY <1>2 DEF NoneTwice
<1>8. ASSUME NEW f, NEW e, \A m \in D : f[m] \in Int, \A i \in 1 .. r : e[i] = f[s[i]]
      PROVE  SumFunctionOnSet(e, 1 .. r) = SumFunctionOnSet(f, R)
    <2>1. Along(r, s, f, e)
        BY <1>2, <1>7, <1>8 DEF Along
    <2> QED
        BY <1>2, <2>1, SumAlong
<1>9. ASSUME NEW x \in Endpoints, NEW y \in Endpoints
      PROVE  /\ ShownIn(rs, x, y) <= Flow(heap, x, y) /\ ShownIn(rs, x, y) \in Int
             /\ ShownIn(rs, x, y) <= SumFunctionOnSet(Sent(heap, x, y), Nodes(s, k))
    <2> DEFINE f == Sent(heap, x, y)
               e == [i \in DOMAIN rs |->
                       (IF rs[i].src = x /\ rs[i].dst = y THEN rs[i].tx ELSE 0)
                     + (IF rs[i].src = y /\ rs[i].dst = x THEN rs[i].rx ELSE 0)]
    <2>1. ShownIn(rs, x, y) = SumFunctionOnSet(e, DOMAIN e)
        BY Zenon DEF ShownIn, SumFunction
    <2>2. \A m \in D : f[m] \in Nat /\ f[m] \in Int
        BY CounterTypes
    <2>3. \A i \in 1 .. r : e[i] = f[s[i]]
        <3> SUFFICES ASSUME NEW i \in 1 .. r
                     PROVE  e[i] = f[s[i]]
            OBVIOUS
        <3>1. s[i] \in DOMAIN heap
            BY <1>2
        <3>2. f[s[i]] = (IF heap[s[i]].src = x /\ heap[s[i]].dst = y THEN heap[s[i]].Tx ELSE 0)
                      + (IF heap[s[i]].src = y /\ heap[s[i]].dst = x THEN heap[s[i]].Rx ELSE 0)
            BY ONLY <3>1 DEF Sent, f
        <3> QED
            BY <1>3, <3>1, <3>2
    <2>4. DOMAIN e = 1 .. r
        OBVIOUS
    <2> HIDE DEF e, f, D, R
    <2>5. SumFunctionOnSet(e, 1 .. r) = SumFunctionOnSet(f, R)
        BY <1>8, <2>2, <2>3
    <2>6. SumFunctionOnSet(f, R) <= SumFunctionOnSet(f, D)
        BY <1>6, <2>2, SumOfPart
    <2>7. SumFunctionOnSet(f, R) <= SumFunctionOnSet(f, Nodes(s, k))
        <3>1. \A m \in Nodes(s, k) : f[m] \in Nat
            BY <1>6, <2>2
        <3> QED
            BY <1>6, <3>1, SumOfPart
    <2>8. SumFunctionOnSet(f, R) \in Int
        <3>1. IsFiniteSet(R) /\ \A m \in R : f[m] \in Int
            BY <1>6, <2>2, FS_Subset
        <3> QED
            BY <3>1, SumType
    <2> QED
        BY <2>1, <2>4, <2>5, <2>6, <2>7, <2>8 DEF Flow, D, f
<1>10. BytesIn(rs) = Total(heap, R)
    <2> DEFINE f == Bytes(heap)
               e == [i \in DOMAIN rs |-> rs[i].rx + rs[i].tx]
    <2>1. BytesIn(rs) = SumFunctionOnSet(e, DOMAIN e)
        BY Zenon DEF BytesIn, SumFunction
    <2>2. \A m \in D : f[m] \in Int /\ f[m] = heap[m].Rx + heap[m].Tx
        BY CounterTypes
    <2>3. \A i \in 1 .. r : e[i] = f[s[i]]
        BY <1>2, <1>3, <2>2
    <2>4. DOMAIN e = 1 .. r
        OBVIOUS
    <2> HIDE DEF e, f, D, R
    <2>5. SumFunctionOnSet(e, 1 .. r) = SumFunctionOnSet(f, R)
        BY <1>8, <2>2, <2>3
    <2> QED
        BY <2>1, <2>4, <2>5 DEF Total, f
<1>11. Total(heap, R) \in Nat
    BY <1>6, TotalType
<1>12. Total(heap, R) <= Total(heap, Nodes(s, k))
    <2>1. \A m \in Nodes(s, k) : Bytes(heap)[m] \in Nat
        BY <1>6, CounterTypes
    <2> HIDE DEF R
    <2> QED
        BY <1>6, <2>1, SumOfPart DEF Total
<1> QED
    BY <1>4, <1>5, <1>9, <1>10, <1>11, <1>12 DEF Reports

(* The number of rows that are displayed is a length of a prefix.              *)
LEMMA MinOfTwo ==
    ASSUME NEW a \in Nat, NEW b \in Nat
    PROVE  Min({a, b}) \in 0 .. b
<1>1. \E x \in {a, b} : \A y \in {a, b} : x <= y
    OBVIOUS
<1>2. Min({a, b}) \in {a, b} /\ \A y \in {a, b} : Min({a, b}) <= y
    BY <1>1 DEF Min
<1> QED
    BY <1>2

(* The list is displayed when it is at rest.                                   *)
LEMMA PrintListInv ==
    ASSUME IInv, PrintList, UNCHANGED cumulative
    PROVE  IInv'
<1> USE DEF IInv
<1> DEFINE room == SubSeq(List, 1, Min({DisplayRows, Len(List)}))
           new == [i \in DOMAIN room |-> Row(room[i])]
           full == HasGarbage /\ Len(room) = Len(List) /\ Len(room) < DisplayRows
<1>1. /\ display = "print" /\ ~mutex /\ capture # "crashed"
      /\ UNCHANGED <<cumulative, heap, head, mutex, c_info, node, packets, captured>>
      /\ \/ /\ full /\ capture' = "crashed" /\ UNCHANGED <<rows, shown, missed, display>>
         \/ /\ ~full /\ rows' = new
            /\ display' = IF cumulative THEN "print" ELSE "free"
            /\ shown' = IF cumulative THEN shown ELSE shown + BytesIn(new)
            /\ missed' = IF cumulative THEN missed ELSE missed + Listed - BytesIn(new)
            /\ UNCHANGED capture
    BY Zenon DEF PrintList
<1>2. capture = "loop" /\ AtRest
    <2>1. capture = "loop"
        BY <1>1 DEF Phases, TypeOK
    <2> QED
        BY <2>1 DEF Moving
<1>3. Typed(heap) /\ SumFunction(captured) \in Int /\ shown \in Nat /\ missed \in Nat
    BY SumsAreNumbers
<1>4. PICK k \in 0 .. Len(heap) : \E s \in [1 .. k -> DOMAIN heap] :
              /\ List = s /\ Len(List) = k /\ DOMAIN List = 1 .. k /\ Range(List) = Nodes(s, k)
              /\ \A i, j \in 1 .. k : s[i] = s[j] => i = j
              /\ \A i, j \in 1 .. k : i # j => ~compare_communications(heap[s[i]], heap[s[j]])
              /\ Settled \/ (display = "print" /\ Pending(Nodes(s, k)))
              /\ cumulative => ~HasGarbage
    BY <1>2, ListAtRest
<1>5. PICK s \in [1 .. k -> DOMAIN heap] :
              /\ List = s /\ Len(List) = k /\ DOMAIN List = 1 .. k /\ Range(List) = Nodes(s, k)
              /\ \A i, j \in 1 .. k : s[i] = s[j] => i = j
              /\ \A i, j \in 1 .. k : i # j => ~compare_communications(heap[s[i]], heap[s[j]])
              /\ Settled \/ (display = "print" /\ Pending(Nodes(s, k)))
              /\ cumulative => ~HasGarbage
    BY <1>4
<1>6. CASE full /\ capture' = "crashed" /\ UNCHANGED <<rows, shown, missed, display>>
    <2>1. ~cumulative
        BY <1>5, <1>6
    <2> HIDE DEF full
    <2>2. TypeOK'
        BY <1>1, <1>6 DEF TypeOK
    <2>3. Phases'
        BY <1>1, <1>6, <2>1 DEF Phases
    <2>4. Histories'
        BY <1>1, <1>6, HistoriesSame
    <2>5. Moving'
        BY <1>6 DEF Moving
    <2> QED
        BY <2>2, <2>3, <2>4, <2>5
<1> HIDE DEF full
<1>7. CASE /\ rows' = new
           /\ display' = IF cumulative THEN "print" ELSE "free"
           /\ shown' = IF cumulative THEN shown ELSE shown + BytesIn(new)
           /\ missed' = IF cumulative THEN missed ELSE missed + Listed - BytesIn(new)
           /\ UNCHANGED capture
    <2> DEFINE r == Min({DisplayRows, k})
    <2>1. k \in Nat /\ r \in 0 .. k
        <3>1. k \in Nat /\ DisplayRows \in Nat
            BY <1>3, TypedNode, ArgumentsAssumption
        <3> QED
            BY <3>1, MinOfTwo
    <2>2. room = SubSeq(s, 1, r)
        BY <1>5
    <2> HIDE DEF r, room
    <2>3. room = [i \in 1 .. r |-> s[i]]
        <3>1. s \in Seq(DOMAIN heap) /\ Len(s) = k
            BY <2>1
        <3> QED
            BY <2>1, <2>2, <3>1
    <2>4. DOMAIN new = 1 .. r /\ new = [i \in 1 .. r |-> Row(s[i])]
        BY <2>3
    <2> HIDE DEF new
    <2>5. /\ new \in Seq(RowType)
          /\ \A i, j \in DOMAIN new : i # j => {new[i].src, new[i].dst} # {new[j].src, new[j].dst}
          /\ \A x, y \in Endpoints : ShownIn(new, x, y) <= Flow(heap, x, y)
          /\ BytesIn(new) \in Nat /\ BytesIn(new) <= Total(heap, Nodes(s, k))
        <3>1. NoneTwice(s, k)
            BY <1>5 DEF NoneTwice
        <3>2. Reports(new, s, k)
            BY <1>3, <2>1, <2>4, <3>1, RowsOf
        <3> QED
            BY <3>2 DEF Reports
    <2>6. Listed = Total(heap, Nodes(s, k)) /\ Listed \in Nat
        <3>1. Listed = Total(heap, Nodes(s, k))
            BY <1>5, Zenon DEF Listed, Total
        <3>2. Nodes(s, k) \in SUBSET DOMAIN heap
            BY DEF Nodes
        <3> QED
            BY <1>3, <3>1, <3>2, TotalType
    <2>7. shown' \in Nat /\ missed' \in Nat
        BY <1>3, <1>7, <2>5, <2>6
    <2>8. TypeOK'
        BY <1>1, <1>7, <2>7 DEF TypeOK
    <2>9. Phases'
        BY <1>1, <1>2, <1>7 DEF Phases
    <2>10. Histories'
        <3>1. Counted'
            BY <1>1 DEF Histories, Counted, Flow
        <3>2. OneRowPerPair'
            BY <1>7, <2>5 DEF OneRowPerPair
        <3>3. NothingAdded'
            <4>1. \A x, y \in Endpoints : BytesShown(x, y)' = ShownIn(new, x, y)
                BY <1>7, Zenon DEF BytesShown, ShownIn
            <4>2. \A x, y \in Endpoints : ShownIn(new, x, y) <= captured'[<<x, y>>]
                BY <1>1, <2>5 DEF Histories, Counted
            <4> QED
                BY <4>1, <4>2 DEF NothingAdded
        <3> QED
            BY <1>1, <1>7, <2>5, <3>1, <3>2, <3>3 DEF Histories
    <2>11. AtRest'
        <3>1. CASE cumulative
            BY <1>1, <1>2, <1>7, <3>1, SameList
        <3>2. CASE ~cumulative
            <4>1. Settled'
                <5> DEFINE c == SumFunction(captured)
                           u == Total(heap, Nodes(s, k))
                           b == BytesIn(new)
                <5>1. c <= shown + missed \/ c <= (shown + missed) + u
                    BY <1>5 DEF Settled, Pending
                <5>2. shown' = shown + b /\ missed' = (missed + u) - b /\ c \in Int /\ u \in Nat /\ b \in Nat
                    BY <1>3, <1>7, <2>5, <2>6, <3>2
                <5> HIDE DEF c, u, b
                <5>3. c <= shown' + missed'
                    BY <1>3, <5>1, <5>2
                <5> QED
                    BY <1>1, <5>3 DEF Settled, c
            <4>2. ~cumulative' /\ heap' = heap /\ head' = head
                BY <1>1, <3>2
            <4>3. CASE head \in Ends
                BY <4>1, <4>2, <4>3 DEF AtRest
            <4>4. CASE head \notin Ends
                <5>1. PICK q \in 1 .. Len(heap) : \E z \in [1 .. q -> DOMAIN heap] :
                         Chain(heap, z, q, NULL) /\ head = z[1]
                    BY <1>2, <4>4 DEF AtRest
                <5>2. PICK z \in [1 .. q -> DOMAIN heap] : Chain(heap, z, q, NULL) /\ head = z[1]
                    BY <5>1
                <5>3. Kept(Nodes(z, q), TRUE)' /\ Complete(z[q], Nodes(z, q), q, TRUE)'
                    BY <4>1, <4>2 DEF Kept, Complete
                <5>4. Chain(heap, z, q, NULL)' /\ head' = z[1]
                    BY <4>2, <5>2 DEF Chain
                <5>5. q \in 1 .. Len(heap') /\ z \in [1 .. q -> DOMAIN heap']
                    BY <4>2
                <5> QED
                    BY <5>3, <5>4, <5>5 DEF AtRest
            <4> QED
                BY <4>3, <4>4
        <3> QED
            BY <3>1, <3>2
    <2>12. Moving'
        BY <1>2, <1>7, <2>11 DEF Moving
    <2> QED
        BY <2>8, <2>9, <2>10, <2>12
<1> QED
    BY <1>1, <1>6, <1>7

(* A chain from the head is a list at rest.                                    *)
LEMMA AtRestNext ==
    ASSUME NEW k, NEW s, Chain(heap', s, k, NULL), head' = s[1],
           Kept(Nodes(s, k), TRUE)', Complete(s[k], Nodes(s, k), k, TRUE)'
    PROVE  AtRest'
<1>1. k \in 1 .. Len(heap') /\ s \in [1 .. k -> DOMAIN heap']
    BY DEF Chain
<1>2. Chain(heap, s, k, NULL)'
    BY DEF Chain
<1> QED
    BY <1>1, <1>2 DEF AtRest

(* A node is neither NULL nor Garbage.                                         *)
LEMMA NotAnEnd ==
    ASSUME TypeOK
    PROVE  \A m \in DOMAIN heap : m \notin Ends
<1>1. DOMAIN heap = 1 .. Len(heap) /\ Len(heap) \in Nat
    BY DEF TypeOK
<1> QED
    BY <1>1 DEF Ends, NULL, Garbage

(* What insertion changes apart from the list. *)
LEMMA InsertedParts ==
    ASSUME TypeOK, Phases, Histories, c_info \in Packets, Inserted, Typed(heap'), Adds(heap, heap'),
           UNCHANGED <<cumulative, mutex, display, rows, packets, shown>>,
           capture \in {"get_node", "first"}, capture' \in {"unlock", "move"},
           head' \in -1 .. Len(heap'), head' # Garbage, node' \in 0 .. Len(heap')
    PROVE  TypeOK' /\ Phases' /\ Histories'
<1>1. missed' \in Nat
    <2>1. missed \in Nat /\ c_info.len \in Nat
        BY PacketFields DEF TypeOK
    <2> QED
        BY <2>1 DEF Inserted
<1>2. TypeOK'
    <2>1. /\ mutex' \in BOOLEAN /\ display' \in {"print", "free", "clear"}
          /\ cumulative' \in BOOLEAN /\ packets' \in 0 .. MaxPackets /\ shown' \in Nat
        BY DEF TypeOK
    <2>2. heap' \in Seq(Node(Len(heap')))
        BY DEF Typed
    <2> QED
        BY <1>1, <2>1, <2>2 DEF TypeOK, Node
<1>3. Phases'
    BY DEF Phases
<1>4. Histories'
    BY HistoriesInserted
<1> QED
    BY <1>2, <1>3, <1>4

(* The first node of a list, after init_llist perhaps.                         *)
LEMMA SetFirstInv ==
    ASSUME IInv, SetFirst, UNCHANGED cumulative
    PROVE  IInv'
<1> USE DEF IInv
<1>0. PICK new : new = Len(heap) + 1
    OBVIOUS
<1>1. /\ capture = "first" /\ heap' = Append(heap, NewNode(c_info)) /\ head' = new
      /\ Inserted /\ capture' = "unlock"
      /\ UNCHANGED <<cumulative, mutex, display, c_info, node, rows, packets, shown>>
    BY <1>0 DEF SetFirst
<1>2. head \in Ends /\ c_info \in Packets /\ AtRest
    BY <1>1 DEF Phases, Moving
<1>3. Typed(heap) /\ Len(heap) \in Nat /\ DOMAIN heap = 1 .. Len(heap)
    <2>1. Typed(heap)
        BY TypeParts
    <2> QED
        BY <2>1, TypedNode
<1>4. Settled /\ (cumulative => heap = <<>>)
    <2>1. \A m \in DOMAIN heap : m # head
        BY <1>2, NotAnEnd
    <2>2. \A k \in 1 .. Len(heap) : \A s \in [1 .. k -> DOMAIN heap] : head # s[1]
        BY <1>3, <2>1
    <2> QED
        BY <1>2, <2>2 DEF AtRest
<1>5. /\ Typed(heap') /\ Len(heap') = new /\ DOMAIN heap' = 1 .. new
      /\ heap'[new].next = NULL /\ heap'[new].prev = NULL
    BY <1>0, <1>1, <1>2, <1>3, NewFields
<1>6. /\ Adds(heap, heap')
      /\ \A S \in SUBSET DOMAIN heap : Total(heap', S \cup {new}) = Total(heap, S) + c_info.len
    BY <1>0, <1>1, <1>2, <1>3, NewCounts
<1>7. TypeOK' /\ Phases' /\ Histories'
    <2>1. head' \in -1 .. Len(heap') /\ head' # Garbage
        BY <1>0, <1>1, <1>3, <1>5 DEF Garbage
    <2>2. node' \in 0 .. Len(heap')
        BY <1>0, <1>1, <1>3, <1>5 DEF TypeOK
    <2> QED
        BY <1>1, <1>2, <1>5, <1>6, <2>1, <2>2, InsertedParts
<1> DEFINE s == [i \in 1 .. 1 |-> new]
<1>8. Chain(heap', s, 1, NULL) /\ s[1] = new
    <2>1. 1 \in 1 .. new /\ new \in 1 .. new
        BY <1>0, <1>3
    <2> QED
        BY <1>5, <2>1 DEF Chain, Ends
<1>9. Nodes(s, 1) = {new}
    BY DEF Nodes
<1>10. Kept({new}, TRUE)'
    <2>1. Kept({}, TRUE) /\ {} \subseteq DOMAIN heap
        BY <1>4 DEF Kept
    <2>2. Total(heap', {} \cup {new}) = Total(heap, {}) + c_info.len /\ {} \cup {new} = {new}
        BY <1>6
    <2>3. Total(heap', {new}) = Total(heap, {}) + c_info.len
        BY <2>2
    <2> QED
        BY <1>1, <1>2, <2>1, <2>3, KeptInserted
<1>11. Complete(new, {new}, 1, TRUE)'
    <2>1. cumulative => new = 1
        BY <1>0, <1>4
    <2> QED
        BY <1>1, <1>5, <2>1 DEF Complete
<1> HIDE DEF s
<1>12. AtRest'
    BY <1>1, <1>8, <1>9, <1>10, <1>11, AtRestNext
<1>13. Moving'
    BY <1>1, <1>12 DEF Moving
<1> QED
    BY <1>7, <1>13

(* What moving a node changes apart from the list. *)
LEMMA MoveParts ==
    ASSUME TypeOK, Phases, Histories, Typed(heap'), Alike(heap, heap'), Counts(heap, heap'),
           UNCHANGED <<cumulative, mutex, display, rows, packets, captured, missed, shown>>,
           capture \in {"move", "link_prev", "link_next", "set_head"},
           capture' \in {"link_prev", "link_next", "set_head", "unlock"},
           head' \in -1 .. Len(heap), cumulative => head' # Garbage, node' \in 0 .. Len(heap)
    PROVE  /\ TypeOK' /\ Phases' /\ Histories' /\ Settled' = Settled
           /\ \A S \in SUBSET DOMAIN heap : Pending(S)' = Pending(S)
<1>1. Typed(heap) /\ Len(heap') = Len(heap)
    BY TypeParts DEF Alike
<1>2. /\ \A S \in SUBSET DOMAIN heap : Total(heap', S) = Total(heap, S)
      /\ \A x, y : Flow(heap', x, y) = Flow(heap, x, y)
    BY <1>1, SameCounts
<1>3. TypeOK'
    <2>1. /\ mutex' \in BOOLEAN /\ display' \in {"print", "free", "clear"}
          /\ cumulative' \in BOOLEAN /\ packets' \in 0 .. MaxPackets /\ shown' \in Nat /\ missed' \in Nat
        BY DEF TypeOK
    <2>2. heap' \in Seq(Node(Len(heap')))
        BY DEF Typed
    <2>3. head' \in -1 .. Len(heap') /\ node' \in 0 .. Len(heap')
        BY <1>1
    <2> QED
        BY <2>1, <2>2, <2>3 DEF TypeOK, Node
<1>4. Phases'
    BY DEF Phases
<1>5. Histories'
    BY <1>2, HistoriesSame
<1>6. Settled' = Settled
    BY SettledSame
<1>7. \A S \in SUBSET DOMAIN heap : Pending(S)' = Pending(S)
    BY <1>2, PendingSame
<1> QED
    BY <1>3, <1>4, <1>5, <1>6, <1>7

(* The node is taken out of the list, which init_llist may have dropped.       *)
LEMMA MoveOutInv ==
    ASSUME IInv, MoveOut, UNCHANGED cumulative
    PROVE  IInv'
<1> USE DEF IInv
<1>0. PICK n : n = node
    OBVIOUS
<1>1. /\ capture = "move" /\ heap' = Unlink(heap, n) /\ capture' = "link_prev" /\ node' = n
      /\ UNCHANGED <<cumulative, head, mutex, display, c_info, node, rows, packets, captured, missed, shown>>
    BY <1>0 DEF MoveOut, counted
<1>2. PICK k \in 1 .. Len(heap) : \E s \in [1 .. k -> DOMAIN heap] :
        /\ Chain(heap, s, k, NULL) /\ head \in {s[1]} \cup Ends
        /\ \E i \in 2 .. k : s[i] = node
        /\ Kept(Nodes(s, k), head = s[1])
        /\ Complete(s[k], Nodes(s, k), k, head = s[1])
    BY <1>1 DEF Moving, Leaving
<1>3. PICK s \in [1 .. k -> DOMAIN heap] :
        /\ Chain(heap, s, k, NULL) /\ head \in {s[1]} \cup Ends
        /\ \E i \in 2 .. k : s[i] = node
        /\ Kept(Nodes(s, k), head = s[1])
        /\ Complete(s[k], Nodes(s, k), k, head = s[1])
    BY <1>2
<1>4. PICK i \in 2 .. k : s[i] = n
    BY <1>0, <1>3
<1>5. Typed(heap) /\ Len(heap) \in Nat /\ DOMAIN heap = 1 .. Len(heap) /\ n \in DOMAIN heap
    <2>1. Typed(heap)
        BY TypeParts
    <2> QED
        BY <1>4, <2>1, TypedNode
<1>6. /\ Alike(heap, heap') /\ Typed(heap') /\ Counts(heap, heap')
      /\ Unlinked(heap, heap', s[i])
    BY <1>1, <1>4, <1>5, UnlinkFields
<1>7. /\ TypeOK' /\ Phases' /\ Histories' /\ Settled' = Settled
      /\ \A S \in SUBSET DOMAIN heap : Pending(S)' = Pending(S)
    <2>1. head' \in -1 .. Len(heap) /\ node' \in 0 .. Len(heap) /\ (cumulative => head' # Garbage)
        BY <1>1 DEF TypeOK, Phases
    <2> QED
        BY <1>1, <1>6, <2>1, MoveParts
<1>8. PICK t : t = Without(s, k, i)
    OBVIOUS
<1>9. /\ Chain(heap', t, k - 1, NULL) /\ Apart(heap', t, k - 1, n) /\ t[1] = s[1]
      /\ Nodes(t, k - 1) \cup {n} = Nodes(s, k) /\ heap'[t[k - 1]].next = heap[s[k]].next
    <2>1. Shorter(heap, heap', s, k, i, t)
        BY <1>3, <1>6, <1>8, ChainWithout
    <2>2. 1 \in 1 .. i - 1
        OBVIOUS
    <2> QED
        BY <1>4, <2>1, <2>2 DEF Shorter
<1>10. PICK j : j = k - 1
    OBVIOUS
<1>11. /\ Chain(heap', t, j, NULL) /\ Apart(heap', t, j, n) /\ Nodes(t, j) \cup {n} = Nodes(s, k)
       /\ j + 1 = k /\ j \in 1 .. Len(heap') /\ t \in [1 .. j -> DOMAIN heap']
       /\ heap'[t[j]].next = heap[s[k]].next
    <2>1. j + 1 = k
        BY <1>5, <1>10
    <2>2. Chain(heap', t, j, NULL)
        BY <1>9, <1>10
    <2>3. j \in 1 .. Len(heap') /\ t \in [1 .. j -> DOMAIN heap']
        BY <2>2 DEF Chain
    <2> QED
        BY <1>9, <1>10, <2>1, <2>2, <2>3
<1>12. Chain(heap, t, j, NULL)' /\ Apart(heap, t, j, node)' /\ (head \in {t[1]} \cup Ends)'
    <2>1. Chain(heap, t, j, NULL)'
        BY <1>11 DEF Chain
    <2>2. Apart(heap, t, j, node)'
        BY <1>1, <1>11 DEF Apart
    <2>3. (head \in {t[1]} \cup Ends)'
        BY <1>1, <1>3, <1>9 DEF Ends
    <2> QED
        BY <2>1, <2>2, <2>3
<1>13. Kept(Nodes(t, j) \cup {node}, head = t[1])'
    <2>1. Kept(Nodes(s, k), head = s[1]) /\ Nodes(s, k) \in SUBSET DOMAIN heap
        BY <1>3 DEF Nodes
    <2>2. Settled' \/ (display' = "print" /\ head' = t[1] /\ Pending(Nodes(s, k))')
        BY <1>1, <1>7, <1>9, <2>1 DEF Kept
    <2>3. Nodes(t, j) \cup {node'} = Nodes(s, k)
        BY <1>1, <1>11
    <2>4. Pending(Nodes(s, k))' => Pending(Nodes(t, j) \cup {node})'
        BY <2>3 DEF Pending
    <2> QED
        BY <2>2, <2>4 DEF Kept
<1>14. Complete(t[j], Nodes(t, j) \cup {node}, j + 1, head = t[1])'
    <2>1. DOMAIN heap' = DOMAIN heap /\ Len(heap') = Len(heap)
        BY <1>6 DEF Alike
    <2> QED
        BY <1>1, <1>3, <1>9, <1>11, <2>1 DEF Complete
<1>15. Apiece(NULL, head)'
    BY <1>11, <1>12, <1>13, <1>14 DEF Apiece
<1>16. Moving'
    BY <1>1, <1>15 DEF Moving
<1> QED
    BY <1>7, <1>16

(* The list and the node apart from it over a step that keeps both. *)
LEMMA ApieceNext ==
    ASSUME NEW k, NEW s, NEW n, NEW p, NEW q, NEW f, Chain(heap, s, k, p), Apart(heap, s, k, n),
           f \in {s[1]} \cup Ends, Kept(Nodes(s, k) \cup {n}, f = s[1]),
           Complete(s[k], Nodes(s, k) \cup {n}, k + 1, f = s[1]),
           Alike(heap, heap'), UNCHANGED <<cumulative, display>>, Settled' = Settled,
           \A S \in SUBSET DOMAIN heap : Pending(S)' = Pending(S),
           heap'[s[1]].prev = q,
           \A i \in 1 .. k : /\ heap'[s[i]].next = heap[s[i]].next
                             /\ i # 1 => heap'[s[i]].prev = heap[s[i]].prev
    PROVE  /\ k \in 1 .. Len(heap') /\ s \in [1 .. k -> DOMAIN heap']
           /\ Chain(heap', s, k, q) /\ Apart(heap', s, k, n)
           /\ Kept(Nodes(s, k) \cup {n}, f = s[1])'
           /\ Complete(s[k], Nodes(s, k) \cup {n}, k + 1, f = s[1])'
<1>1. Chain(heap', s, k, q)
    BY ChainSame
<1>2. Apart(heap', s, k, n)
    BY ApartSame
<1>3. k \in 1 .. Len(heap') /\ s \in [1 .. k -> DOMAIN heap']
    BY <1>1 DEF Chain
<1>4. DOMAIN heap' = DOMAIN heap /\ Len(heap') = Len(heap) /\ Len(heap) \in Nat
    BY DEF Alike
<1>5. Nodes(s, k) \cup {n} \in SUBSET DOMAIN heap
    BY <1>3, <1>4 DEF Nodes, Apart
<1>6. Kept(Nodes(s, k) \cup {n}, f = s[1])'
    BY <1>5 DEF Kept
<1>7. k \in 1 .. k
    BY <1>3, <1>4
<1>8. Complete(s[k], Nodes(s, k) \cup {n}, k + 1, f = s[1])'
    BY <1>4, <1>7 DEF Complete
<1> QED
    BY <1>1, <1>2, <1>3, <1>6, <1>8

(* The head, if there is one, gets the node as prev.                           *)
LEMMA LinkPrevInv ==
    ASSUME IInv, LinkPrev, UNCHANGED cumulative
    PROVE  IInv'
<1> USE DEF IInv
<1>0. PICK n : n = node
    OBVIOUS
<1>1. /\ capture = "link_prev"
      /\ UNCHANGED <<cumulative, mutex, display, c_info, rows, packets, shown, head, node, captured, missed>>
      /\ \/ head \in Ends /\ capture' = "crashed" /\ heap' = heap
         \/ /\ head \notin Ends /\ heap' = [heap EXCEPT ![head].prev = n]
            /\ capture' = "link_next"
    BY <1>0 DEF LinkPrev, Crash, counted, Ends
<1>2. PICK k \in 1 .. Len(heap) : \E s \in [1 .. k -> DOMAIN heap] :
        /\ Chain(heap, s, k, NULL) /\ Apart(heap, s, k, n)
        /\ head \in {s[1]} \cup Ends
        /\ Kept(Nodes(s, k) \cup {n}, head = s[1])
        /\ Complete(s[k], Nodes(s, k) \cup {n}, k + 1, head = s[1])
    BY <1>0, <1>1 DEF Moving, Apiece
<1>3. PICK s \in [1 .. k -> DOMAIN heap] :
        /\ Chain(heap, s, k, NULL) /\ Apart(heap, s, k, n)
        /\ head \in {s[1]} \cup Ends
        /\ Kept(Nodes(s, k) \cup {n}, head = s[1])
        /\ Complete(s[k], Nodes(s, k) \cup {n}, k + 1, head = s[1])
    BY <1>2
<1>4. Typed(heap) /\ Len(heap) \in Nat /\ DOMAIN heap = 1 .. Len(heap) /\ n \in DOMAIN heap
    <2>1. Typed(heap)
        BY TypeParts
    <2> QED
        BY <1>3, <2>1, TypedNode DEF Apart
<1>5. 1 \in 1 .. k /\ s[1] \in DOMAIN heap
    BY <1>4
<1>6. CASE head \in Ends /\ capture' = "crashed" /\ heap' = heap
    <2>1. ~cumulative
        <3>1. head # s[1]
            BY <1>5, <1>6, NotAnEnd
        <3> QED
            BY <1>3, <3>1 DEF Complete
    <2>2. TypeOK'
        BY <1>1, <1>6 DEF TypeOK
    <2>3. Phases'
        BY <1>1, <1>6, <2>1 DEF Phases
    <2>4. Histories'
        BY <1>1, <1>6, HistoriesSame
    <2>5. Moving'
        BY <1>6 DEF Moving
    <2> QED
        BY <2>2, <2>3, <2>4, <2>5
<1>7. CASE head \notin Ends /\ heap' = [heap EXCEPT ![head].prev = n] /\ capture' = "link_next"
    <2>1. head = s[1] /\ head \in DOMAIN heap /\ n \in 0 .. Len(heap)
        <3>1. head = s[1]
            BY <1>3, <1>7
        <3>2. n \in 0 .. Len(heap)
            BY <1>4
        <3> QED
            BY <1>5, <3>1, <3>2
    <2>2. /\ Alike(heap, heap') /\ Typed(heap') /\ Counts(heap, heap')
          /\ \A m \in DOMAIN heap : /\ heap'[m].prev = IF m = head THEN n ELSE heap[m].prev
                                    /\ heap'[m].next = heap[m].next
        <3>1. PrevSet(heap, heap', head, n)
            BY <1>7 DEF PrevSet
        <3>2. Alike(heap, heap') /\ Typed(heap') /\ Counts(heap, heap') /\ OnlyPrev(heap, heap', head, n)
            BY <1>4, <2>1, <3>1, SetPrev
        <3> QED
            BY <3>2 DEF OnlyPrev
    <2>3. /\ TypeOK' /\ Phases' /\ Histories' /\ Settled' = Settled
          /\ \A S \in SUBSET DOMAIN heap : Pending(S)' = Pending(S)
        <3>1. head' \in -1 .. Len(heap) /\ node' \in 0 .. Len(heap) /\ (cumulative => head' # Garbage)
            BY <1>1 DEF TypeOK, Phases
        <3> QED
            BY <1>1, <1>7, <2>2, <3>1, MoveParts
    <2>4. /\ heap'[s[1]].prev = n
          /\ \A i \in 1 .. k : /\ heap'[s[i]].next = heap[s[i]].next
                               /\ i # 1 => heap'[s[i]].prev = heap[s[i]].prev
        <3>1. \A i \in 1 .. k : s[i] \in DOMAIN heap /\ (i # 1 => s[i] # s[1])
            BY <1>3, <1>5 DEF Chain
        <3> QED
            BY <1>5, <2>1, <2>2, <3>1
    <2>5. PICK f : f = head
        OBVIOUS
    <2>6. /\ k \in 1 .. Len(heap') /\ s \in [1 .. k -> DOMAIN heap']
          /\ Chain(heap', s, k, n) /\ Apart(heap', s, k, n)
          /\ Kept(Nodes(s, k) \cup {n}, f = s[1])'
          /\ Complete(s[k], Nodes(s, k) \cup {n}, k + 1, f = s[1])'
        BY <1>1, <1>3, <2>2, <2>3, <2>4, <2>5, ApieceNext
    <2>7. Apiece(node, head)'
        <3>1. node' = n /\ head' = f /\ f \in {s[1]} \cup Ends
            BY <1>0, <1>1, <2>1, <2>5
        <3>2. Chain(heap, s, k, node)' /\ Apart(heap, s, k, node)'
            BY <2>6, <3>1 DEF Chain, Apart
        <3>3. Kept(Nodes(s, k) \cup {node}, head = s[1])'
              /\ Complete(s[k], Nodes(s, k) \cup {node}, k + 1, head = s[1])'
            BY <2>6, <3>1 DEF Kept, Complete, Pending
        <3> QED
            BY <2>6, <3>1, <3>2, <3>3 DEF Apiece, Ends
    <2>8. Moving'
        BY <1>7, <2>7 DEF Moving
    <2> QED
        BY <2>3, <2>8
<1> QED
    BY <1>1, <1>6, <1>7

(* The node gets the head, whatever it has become, as next.                    *)
LEMMA LinkNextInv ==
    ASSUME IInv, LinkNext, UNCHANGED cumulative
    PROVE  IInv'
<1> USE DEF IInv
<1>0. PICK n : n = node
    OBVIOUS
<1>1. /\ capture = "link_next" /\ heap' = [heap EXCEPT ![n].next = head] /\ capture' = "set_head"
      /\ UNCHANGED <<cumulative, mutex, display, c_info, rows, packets, shown, head, node, captured, missed>>
    BY <1>0 DEF LinkNext, counted
<1>2. PICK k \in 1 .. Len(heap) : \E s \in [1 .. k -> DOMAIN heap] :
        /\ Chain(heap, s, k, n) /\ Apart(heap, s, k, n)
        /\ head \in {s[1]} \cup Ends
        /\ Kept(Nodes(s, k) \cup {n}, head = s[1])
        /\ Complete(s[k], Nodes(s, k) \cup {n}, k + 1, head = s[1])
    BY <1>0, <1>1 DEF Moving, Apiece
<1>3. PICK s \in [1 .. k -> DOMAIN heap] :
        /\ Chain(heap, s, k, n) /\ Apart(heap, s, k, n)
        /\ head \in {s[1]} \cup Ends
        /\ Kept(Nodes(s, k) \cup {n}, head = s[1])
        /\ Complete(s[k], Nodes(s, k) \cup {n}, k + 1, head = s[1])
    BY <1>2
<1>4. Typed(heap) /\ Len(heap) \in Nat /\ DOMAIN heap = 1 .. Len(heap) /\ n \in DOMAIN heap
    <2>1. Typed(heap)
        BY TypeParts
    <2> QED
        BY <1>3, <2>1, TypedNode DEF Apart
<1>5. /\ head \in -1 .. Len(heap) /\ node' \in 0 .. Len(heap) /\ (cumulative => head' # Garbage)
      /\ head' \in -1 .. Len(heap) /\ 1 \in 1 .. k
    BY <1>1, <1>4 DEF TypeOK, Phases
<1>6. Alike(heap, heap') /\ Typed(heap') /\ Counts(heap, heap') /\ OnlyNext(heap, heap', n, head)
    <2>1. NextSet(heap, heap', n, head)
        BY <1>1 DEF NextSet
    <2> QED
        BY <1>4, <1>5, <2>1, SetNext
<1>7. /\ TypeOK' /\ Phases' /\ Histories' /\ Settled' = Settled
      /\ \A S \in SUBSET DOMAIN heap : Pending(S)' = Pending(S)
    BY <1>1, <1>5, <1>6, MoveParts
<1>8. /\ heap'[s[1]].prev = n
      /\ \A i \in 1 .. k : /\ heap'[s[i]].next = heap[s[i]].next
                           /\ i # 1 => heap'[s[i]].prev = heap[s[i]].prev
    <2>1. \A i \in 1 .. k : s[i] \in DOMAIN heap /\ s[i] # n
        BY <1>3 DEF Apart
    <2>2. heap[s[1]].prev = n
        BY <1>3 DEF Chain
    <2> QED
        BY <1>5, <1>6, <2>1, <2>2 DEF OnlyNext
<1>9. PICK f : f = head
    OBVIOUS
<1>10. /\ k \in 1 .. Len(heap') /\ s \in [1 .. k -> DOMAIN heap']
       /\ Chain(heap', s, k, n) /\ Apart(heap', s, k, n)
       /\ Kept(Nodes(s, k) \cup {n}, f = s[1])'
       /\ Complete(s[k], Nodes(s, k) \cup {n}, k + 1, f = s[1])'
    BY <1>1, <1>3, <1>6, <1>7, <1>8, <1>9, ApieceNext
<1>11. Apiece(node, heap[node].next)'
    <2>1. node' = n /\ heap'[n].next = f /\ f \in {s[1]} \cup Ends
        BY <1>0, <1>1, <1>3, <1>4, <1>6, <1>9 DEF OnlyNext
    <2>2. Chain(heap, s, k, node)' /\ Apart(heap, s, k, node)'
        BY <1>10, <2>1 DEF Chain, Apart
    <2>3. Kept(Nodes(s, k) \cup {node}, heap[node].next = s[1])'
          /\ Complete(s[k], Nodes(s, k) \cup {node}, k + 1, heap[node].next = s[1])'
        BY <1>10, <2>1 DEF Kept, Complete, Pending
    <2> QED
        BY <1>10, <2>1, <2>2, <2>3 DEF Apiece, Ends
<1>12. Moving'
    BY <1>1, <1>11 DEF Moving
<1> QED
    BY <1>7, <1>12

(* The node becomes the head: of the list again, or of what it points at.      *)
LEMMA SetHeadInv ==
    ASSUME IInv, SetHead, UNCHANGED cumulative
    PROVE  IInv'
<1> USE DEF IInv
<1>0. PICK n : n = node
    OBVIOUS
<1>1. /\ capture = "set_head" /\ heap' = [heap EXCEPT ![n].prev = NULL] /\ capture' = "unlock"
      /\ head' = n /\ node' = NULL
      /\ UNCHANGED <<cumulative, mutex, display, c_info, rows, packets, shown, captured, missed>>
    BY <1>0 DEF SetHead, counted
<1>2. PICK k \in 1 .. Len(heap) : \E s \in [1 .. k -> DOMAIN heap] :
        /\ Chain(heap, s, k, n) /\ Apart(heap, s, k, n)
        /\ heap[n].next \in {s[1]} \cup Ends
        /\ Kept(Nodes(s, k) \cup {n}, heap[n].next = s[1])
        /\ Complete(s[k], Nodes(s, k) \cup {n}, k + 1, heap[n].next = s[1])
    BY <1>0, <1>1 DEF Moving, Apiece
<1>3. PICK s \in [1 .. k -> DOMAIN heap] :
        /\ Chain(heap, s, k, n) /\ Apart(heap, s, k, n)
        /\ heap[n].next \in {s[1]} \cup Ends
        /\ Kept(Nodes(s, k) \cup {n}, heap[n].next = s[1])
        /\ Complete(s[k], Nodes(s, k) \cup {n}, k + 1, heap[n].next = s[1])
    BY <1>2
<1>4. Typed(heap) /\ Len(heap) \in Nat /\ DOMAIN heap = 1 .. Len(heap) /\ n \in DOMAIN heap
    <2>1. Typed(heap)
        BY TypeParts
    <2> QED
        BY <1>3, <2>1, TypedNode DEF Apart
<1>5. /\ head' \in -1 .. Len(heap) /\ node' \in 0 .. Len(heap) /\ head' # Garbage
      /\ NULL \in 0 .. Len(heap)
    BY <1>1, <1>4 DEF NULL, Garbage
<1>6. Alike(heap, heap') /\ Typed(heap') /\ Counts(heap, heap') /\ OnlyPrev(heap, heap', n, NULL)
    <2>1. PrevSet(heap, heap', n, NULL)
        BY <1>1 DEF PrevSet
    <2> QED
        BY <1>4, <1>5, <2>1, SetPrev
<1>7. /\ TypeOK' /\ Phases' /\ Histories' /\ Settled' = Settled
      /\ \A S \in SUBSET DOMAIN heap : Pending(S)' = Pending(S)
    BY <1>1, <1>5, <1>6, MoveParts
<1>8. /\ heap'[n].prev = NULL /\ heap'[n].next = heap[n].next
      /\ \A m \in DOMAIN heap : /\ heap'[m].prev = IF m = n THEN NULL ELSE heap[m].prev
                                /\ heap'[m].next = heap[m].next
    BY <1>4, <1>6 DEF OnlyPrev
<1>9. DOMAIN heap' = DOMAIN heap /\ Len(heap') = Len(heap)
    BY <1>6 DEF Alike
<1>10. AtRest'
    <2>1. CASE heap[n].next = s[1]
        <3>1. PICK t : t = With(s, k, 0, n)
            OBVIOUS
        <3>2. Longer(heap, heap', s, k, n, n, t)
            BY <1>3, <1>6, <1>8, <2>1, <3>1, ChainFirst
        <3>3. PICK j : j = k + 1
            OBVIOUS
        <3>4. /\ Chain(heap', t, j, NULL) /\ t[1] = n /\ Nodes(t, j) = Nodes(s, k) \cup {n}
              /\ heap'[t[j]].next = heap[s[k]].next
            BY <3>2, <3>3 DEF Longer
        <3>5. Kept(Nodes(t, j), TRUE)'
            <4>1. Nodes(t, j) \in SUBSET DOMAIN heap
                BY <1>4, <3>4 DEF Nodes
            <4>2. Settled \/ (display = "print" /\ Pending(Nodes(t, j)))
                BY <1>3, <3>4 DEF Kept
            <4> QED
                BY <1>1, <1>7, <4>1, <4>2 DEF Kept
        <3>6. Complete(t[j], Nodes(t, j), j, TRUE)'
            <4>1. cumulative => /\ heap[s[k]].next = NULL /\ Nodes(s, k) \cup {n} = DOMAIN heap
                                /\ k + 1 = Len(heap)
                BY <1>3 DEF Complete
            <4>2. cumulative => /\ heap'[t[j]].next = NULL /\ Nodes(t, j) = DOMAIN heap'
                                /\ j = Len(heap')
                BY <1>9, <3>3, <3>4, <4>1
            <4> QED
                BY <1>1, <4>2 DEF Complete
        <3> QED
            BY <1>1, <3>4, <3>5, <3>6, AtRestNext
    <2>2. CASE heap[n].next # s[1]
        <3> DEFINE t == [i \in 1 .. 1 |-> n]
        <3>1. Chain(heap', t, 1, NULL) /\ t[1] = n
            <4>1. 1 \in 1 .. Len(heap') /\ t \in [1 .. 1 -> DOMAIN heap']
                BY <1>4, <1>9
            <4>2. heap'[n].next \in Ends
                BY <1>3, <1>8, <2>2
            <4> QED
                BY <1>8, <4>1, <4>2 DEF Chain
        <3> HIDE DEF t
        <3>2. Settled' /\ ~cumulative
            BY <1>3, <1>7, <2>2 DEF Kept, Complete
        <3>3. Kept(Nodes(t, 1), TRUE)' /\ Complete(t[1], Nodes(t, 1), 1, TRUE)'
            BY <1>1, <3>2 DEF Kept, Complete
        <3> QED
            BY <1>1, <3>1, <3>3, AtRestNext
    <2> QED
        BY <2>1, <2>2
<1>11. Moving'
    BY <1>1, <1>10 DEF Moving
<1> QED
    BY <1>7, <1>11

(* g is heap with a node for c_info appended behind last. *)
Appended(g, last) ==
    g = Append([heap EXCEPT ![last].next = Len(heap) + 1], [NewNode(c_info) EXCEPT !.prev = last])

(* The new node is put behind the last one.                                    *)
LEMMA AppendFields ==
    ASSUME Typed(heap), c_info \in Packets, NEW last \in DOMAIN heap, heap[last].next = NULL,
           NEW h, h = Append(heap, NewNode(c_info)), NEW g, Appended(g, last), NEW new, new = Len(heap) + 1
    PROVE  Alike(h, g) /\ Typed(g) /\ Counts(h, g) /\ Linked(h, g, last, new)
<1> DEFINE L == Len(heap)
<1>1. L \in Nat /\ DOMAIN heap = 1 .. L /\ heap \in [1 .. L -> Node(L)] /\ new = L + 1
    BY TypedNode
<1>2. /\ Typed(h) /\ Len(h) = new /\ DOMAIN h = 1 .. new /\ h[new] = NewNode(c_info)
      /\ \A m \in 1 .. L : h[m] = heap[m]
    BY <1>1, NewFields
<1>3. h \in [1 .. new -> Node(new)] /\ \A m \in 1 .. new : h[m] \in Node(new)
    BY <1>2, TypedNode
<1>20. /\ new \in Nat /\ new \in 1 .. new /\ new \in -1 .. new /\ last \in 0 .. new
      /\ \A m \in 1 .. L : m \in 1 .. new
    <2> HIDE DEF L
    <2> QED
        BY <1>1
<1> DEFINE e == [heap EXCEPT ![last].next = new]
           x == [NewNode(c_info) EXCEPT !.prev = last]
           N == Node(new)
<1>4. /\ x \in N /\ x.prev = last /\ x.next = NULL /\ x.src = h[new].src /\ x.dst = h[new].dst
      /\ x.Rx = h[new].Rx /\ x.Tx = h[new].Tx /\ x.packets_sent_Rx = h[new].packets_sent_Rx
      /\ x.packets_sent_Tx = h[new].packets_sent_Tx
    <2>1. h[new] \in Node(new) /\ last \in 0 .. new /\ h[new].next = NULL
        BY <1>2, <1>3, <1>20 DEF NewNode
    <2>2. x = [h[new] EXCEPT !.prev = last]
        BY <1>2
    <2> HIDE DEF x
    <2> QED
        BY <2>1, <2>2 DEF Node
<1>5. DOMAIN e = 1 .. L /\ \A m \in 1 .. L : e[m] = IF m = last THEN [h[m] EXCEPT !.next = new] ELSE h[m]
    BY <1>1, <1>2
<1>6. ASSUME NEW m \in 1 .. L
      PROVE  /\ e[m] \in N /\ e[m].prev = h[m].prev /\ e[m].next = IF m = last THEN new ELSE h[m].next
             /\ e[m].src = h[m].src /\ e[m].dst = h[m].dst
             /\ e[m].Rx = h[m].Rx /\ e[m].Tx = h[m].Tx
             /\ e[m].packets_sent_Rx = h[m].packets_sent_Rx
             /\ e[m].packets_sent_Tx = h[m].packets_sent_Tx
    <2>1. h[m] \in Node(new) /\ new \in -1 .. new
        BY <1>3, <1>20
    <2> HIDE DEF e
    <2> QED
        BY <1>5, <2>1 DEF Node
<1>7. e \in Seq(N) /\ Len(e) = L
    <2>1. e = [m \in 1 .. L |-> e[m]]
        BY <1>1
    <2> HIDE DEF e, N
    <2>2. e \in [1 .. L -> N]
        BY <1>6, <2>1
    <2> QED
        BY <1>1, <2>2
<1>8. g = Append(e, x)
    BY <1>1 DEF Appended
<1> HIDE DEF e, x, N
<1>9. /\ g \in Seq(N) /\ Len(g) = new /\ g[new] = x
      /\ \A m \in 1 .. L : g[m] = e[m]
    BY <1>1, <1>4, <1>7, <1>8
<1>10. Typed(g) /\ DOMAIN g = 1 .. new
    BY <1>20, <1>9 DEF Typed, N
<1>11. \A m \in 1 .. new : m = new \/ m \in 1 .. L
    BY <1>1
<1>12. last # new /\ last \in 1 .. L
    BY <1>1
<1>13. Alike(h, g)
    BY <1>2, <1>20, <1>4, <1>6, <1>9, <1>10, <1>11 DEF Alike
<1>14. Counts(h, g)
    BY <1>2, <1>4, <1>6, <1>9, <1>11 DEF Counts
<1>15. h[last].next = NULL /\ \A m \in 1 .. new : m # NULL
    BY <1>1, <1>2 DEF NULL
<1>16. Linked(h, g, last, new)
    <2> SUFFICES ASSUME NEW m \in 1 .. new
                 PROVE  /\ g[m].prev = IF m = new THEN last ELSE h[m].prev
                        /\ g[m].next = IF m = last THEN new ELSE IF m = new THEN NULL ELSE h[m].next
        BY <1>2, <1>15 DEF Linked
    <2>1. CASE m = new
        BY <1>4, <1>9, <1>12, <2>1
    <2>2. CASE m \in 1 .. L
        <3>1. m # new
            BY <1>1, <2>2
        <3> QED
            BY <1>6, <1>9, <2>2, <3>1
    <2> QED
        BY <1>11, <2>1, <2>2
<1> QED
    BY <1>10, <1>13, <1>14, <1>16

(* A chain that the first node of the list starts. *)
Whole(s, k) ==
    /\ k \in 1 .. Len(heap) /\ s \in [1 .. k -> DOMAIN heap]
    /\ Chain(heap, s, k, NULL) /\ head = s[1]
    /\ Kept(Nodes(s, k), TRUE) /\ Complete(s[k], Nodes(s, k), k, TRUE)
    /\ List = s /\ Len(List) = k /\ DOMAIN List = 1 .. k
    /\ (HasGarbage <=> heap[s[k]].next = Garbage)

(* A list at rest whose head is a node is a chain.                             *)
LEMMA WholeList ==
    ASSUME TypeOK, AtRest, head \notin Ends
    PROVE  \E k, s : Whole(s, k)
<1>1. PICK k \in 1 .. Len(heap) : \E s \in [1 .. k -> DOMAIN heap] :
          /\ Chain(heap, s, k, NULL) /\ head = s[1]
          /\ Kept(Nodes(s, k), TRUE) /\ Complete(s[k], Nodes(s, k), k, TRUE)
    BY DEF AtRest
<1>2. PICK s \in [1 .. k -> DOMAIN heap] :
          /\ Chain(heap, s, k, NULL) /\ head = s[1]
          /\ Kept(Nodes(s, k), TRUE) /\ Complete(s[k], Nodes(s, k), k, TRUE)
    BY <1>1
<1>3. heap \in Seq(Node(Len(heap)))
    BY DEF TypeOK, Node
<1>4. /\ List = s /\ Len(List) = k /\ DOMAIN List = 1 .. k
      /\ (HasGarbage <=> heap[s[k]].next = Garbage)
    BY <1>2, <1>3, ListOfChain
<1>5. Whole(s, k)
    BY <1>1, <1>2, <1>4 DEF Whole
<1> QED
    BY <1>5

(* A communication that no node counts gets a node at the end of the list.     *)
LEMMA AppendRest ==
    ASSUME TypeOK, AtRest, Histories, c_info \in Packets, head # NULL, Found = {}, ~HasGarbage,
           Appended(heap', List[Len(List)]), Inserted, UNCHANGED <<cumulative, head, display, shown>>
    PROVE  /\ Typed(heap') /\ Adds(heap, heap') /\ Len(heap') = Len(heap) + 1
           /\ head' # Garbage /\ AtRest'
<1>1. Typed(heap) /\ Len(heap) \in Nat /\ DOMAIN heap = 1 .. Len(heap) /\ heap \in Seq(Node(Len(heap)))
    <2>1. Typed(heap)
        BY TypeParts
    <2> QED
        BY <2>1, TypedNode DEF Typed
<1>2. head \notin Ends
    BY <1>1, ListOfEnds DEF Ends
<1>3. PICK k, s : Whole(s, k)
    BY <1>2, WholeList
<1>4. /\ Chain(heap, s, k, NULL) /\ head = s[1] /\ k \in 1 .. Len(heap) /\ s \in [1 .. k -> DOMAIN heap]
      /\ Kept(Nodes(s, k), TRUE) /\ Complete(s[k], Nodes(s, k), k, TRUE)
    BY <1>3 DEF Whole
<1>5. heap[s[k]].next = NULL /\ List[Len(List)] = s[k] /\ s[k] \in DOMAIN heap
    <2>1. heap[s[k]].next \in Ends
        BY <1>4 DEF Chain
    <2> QED
        BY <1>3, <2>1 DEF Ends, Whole
<1>6. PICK new : new = Len(heap) + 1
    OBVIOUS
<1>7. PICK h : h = Append(heap, NewNode(c_info))
    OBVIOUS
<1>8. /\ Typed(h) /\ Len(h) = new /\ DOMAIN h = 1 .. new
      /\ \A m \in 1 .. Len(heap) : h[m] = heap[m]
      /\ h[new].src = c_info.src /\ h[new].dst = c_info.dst
    BY <1>1, <1>6, <1>7, NewFields
<1>9. Alike(h, heap') /\ Typed(heap') /\ Counts(h, heap') /\ Linked(h, heap', s[k], new)
    BY <1>1, <1>5, <1>6, <1>7, AppendFields
<1>10. Chain(h, s, k, NULL)
    <2>1. k \in 1 .. new /\ DOMAIN heap \subseteq DOMAIN h /\ s \in [1 .. k -> DOMAIN h]
        BY <1>1, <1>4, <1>6, <1>8
    <2>2. \A i \in 1 .. k : h[s[i]] = heap[s[i]]
        BY <1>1, <1>4, <1>8
    <2>3. \A i \in 1 .. k - 1 : i \in 1 .. k /\ i + 1 \in 1 .. k
        BY <1>1, <1>4
    <2>4. 1 \in 1 .. k /\ k \in 1 .. k
        BY <1>1, <1>4
    <2> QED
        BY <1>4, <1>8, <2>1, <2>2, <2>3, <2>4 DEF Chain
<1>11. Apart(h, s, k, new)
    <2>1. new \in 1 .. new /\ k < new
        BY <1>1, <1>4, <1>6
    <2>2. ASSUME NEW i \in 1 .. k
          PROVE  /\ s[i] # new /\ ~compare_communications(h[s[i]], h[new])
                 /\ ~compare_communications(h[new], h[s[i]])
        <3>1. s[i] \in 1 .. Len(heap) /\ h[s[i]] = heap[s[i]]
            BY <1>1, <1>4, <1>8
        <3>2. ~compare_communications(c_info, heap[s[i]])
            BY <1>3 DEF Found, Whole
        <3> QED
            BY <1>1, <1>6, <1>8, <3>1, <3>2 DEF compare_communications
    <2> QED
        BY <1>8, <2>1, <2>2 DEF Apart
<1>12. PICK t : t = With(s, k, k, new)
    OBVIOUS
<1>13. Longer(h, heap', s, k, new, s[1], t)
    <2>1. k \in 1 .. k
        BY <1>1, <1>4
    <2> QED
        BY <1>9, <1>10, <1>11, <1>12, <2>1, ChainWith
<1>14. PICK j : j = k + 1
    OBVIOUS
<1>15. /\ Chain(heap', t, j, NULL) /\ t[1] = s[1] /\ Nodes(t, j) = Nodes(s, k) \cup {new}
       /\ heap'[t[j]].next = h[s[k]].next
    BY <1>13, <1>14 DEF Longer
<1>16. DOMAIN heap' = 1 .. new /\ Len(heap') = new /\ h[s[k]].next = NULL
    BY <1>1, <1>5, <1>8, <1>9 DEF Alike
<1>17. Nodes(s, k) \subseteq DOMAIN heap
    BY <1>4 DEF Nodes
<1>18. /\ Adds(heap, h)
       /\ Total(h, Nodes(s, k) \cup {new}) = Total(heap, Nodes(s, k)) + c_info.len
    BY <1>1, <1>6, <1>7, <1>17, NewCounts
<1>19. /\ \A S \in SUBSET DOMAIN h : Total(heap', S) = Total(h, S)
       /\ \A x, y : Flow(heap', x, y) = Flow(h, x, y)
    BY <1>8, <1>9, SameCounts
<1>20. Adds(heap, heap')
    BY <1>18, <1>19 DEF Adds
<1>21. Total(heap', Nodes(t, j)) = Total(heap, Nodes(s, k)) + c_info.len
    <2>1. Nodes(s, k) \cup {new} \in SUBSET DOMAIN h
        BY <1>1, <1>6, <1>8, <1>17
    <2> QED
        BY <1>15, <1>18, <1>19, <2>1
<1>22. Kept(Nodes(t, j), TRUE)'
    BY <1>4, <1>17, <1>21, KeptInserted
<1>23. Complete(t[j], Nodes(t, j), j, TRUE)'
    <2>1. cumulative => Nodes(s, k) = DOMAIN heap /\ k = Len(heap)
        BY <1>4 DEF Complete
    <2>2. (1 .. Len(heap)) \cup {new} = 1 .. new
        BY <1>1, <1>6
    <2>3. cumulative => Nodes(t, j) = DOMAIN heap'
        BY <1>1, <1>15, <1>16, <2>1, <2>2
    <2>4. cumulative => heap'[t[j]].next = NULL /\ j = Len(heap')
        BY <1>6, <1>14, <1>15, <1>16, <2>1
    <2> QED
        BY <2>3, <2>4 DEF Complete
<1>24. AtRest'
    BY <1>4, <1>15, <1>22, <1>23, AtRestNext
<1> QED
    BY <1>2, <1>6, <1>9, <1>16, <1>20, <1>24 DEF Ends

(* c_info is counted by the node n, the i-th of the list: h is the heap then. *)
Hit(s, k, i, n, h) ==
    /\ Whole(s, k) /\ i \in 1 .. k /\ s[i] = n /\ n \in DOMAIN heap
    /\ Alike(heap, h) /\ Typed(h) /\ Chain(h, s, k, NULL)
    /\ \A m \in DOMAIN heap : h[m].next = heap[m].next /\ h[m].prev = heap[m].prev
    /\ Adds(heap, h) /\ Total(h, Nodes(s, k)) = Total(heap, Nodes(s, k)) + c_info.len
    /\ Place(h, n) = NULL \/ \E j \in 1 .. i - 1 : Place(h, n) = s[j]

(* A communication that a node counts is found, and counted there.             *)
LEMMA FoundNode ==
    ASSUME TypeOK, AtRest, c_info \in Packets, Found # {}
    PROVE  \E k, s, i : Hit(s, k, i, List[Min(Found)], Add(List[Min(Found)]))
<1>1. Typed(heap) /\ Len(heap) \in Nat /\ DOMAIN heap = 1 .. Len(heap) /\ heap \in Seq(Node(Len(heap)))
    <2>1. Typed(heap)
        BY TypeParts
    <2> QED
        BY <2>1, TypedNode DEF Typed
<1>2. head \notin Ends
    <2>1. head \in Ends => DOMAIN List = {}
        BY <1>1, ListOfEnds
    <2> QED
        BY <2>1 DEF Found
<1>3. PICK k, s : Whole(s, k)
    BY <1>2, WholeList
<1>4. /\ Chain(heap, s, k, NULL) /\ k \in 1 .. Len(heap) /\ s \in [1 .. k -> DOMAIN heap]
      /\ List = s /\ DOMAIN List = 1 .. k
    BY <1>3 DEF Whole
<1>5. PICK i : i = Min(Found)
    OBVIOUS
<1>6. i \in 1 .. k /\ compare_communications(c_info, heap[s[i]]) /\ List[Min(Found)] = s[i]
    <2>1. Found \subseteq 1 .. k /\ Found \subseteq Nat
        BY <1>4 DEF Found
    <2>2. \E m \in Found : \A j \in Found : m <= j
        BY <2>1, LeastNat
    <2>3. i \in Found
        BY <1>5, <2>2 DEF Min
    <2> QED
        BY <1>4, <1>5, <2>3 DEF Found
<1>7. PICK n : n = s[i]
    OBVIOUS
<1>8. n \in DOMAIN heap /\ compare_communications(c_info, heap[n])
    BY <1>4, <1>6, <1>7
<1>9. PICK h : h = Add(n)
    OBVIOUS
<1>10. /\ Alike(heap, h) /\ Typed(h)
       /\ \A m \in DOMAIN heap : h[m].next = heap[m].next /\ h[m].prev = heap[m].prev
    BY <1>1, <1>8, <1>9, AddFields
<1>11. Chain(h, s, k, NULL)
    <2>1. /\ \A m \in 1 .. k : h[s[m]].next = heap[s[m]].next /\ h[s[m]].prev = heap[s[m]].prev
          /\ 1 \in 1 .. k
        BY <1>1, <1>4, <1>10
    <2>2. h[s[1]].prev = NULL
        BY <1>4, <2>1 DEF Chain
    <2> QED
        BY <1>4, <1>10, <2>1, <2>2, ChainSame
<1>12. Place(h, s[i]) = NULL \/ \E j \in 1 .. i - 1 : Place(h, s[i]) = s[j]
    <2>1. Len(h) \in Nat
        BY <1>10, TypedNode
    <2> QED
        BY <1>6, <1>11, <2>1, PlaceBefore
<1>13. Adds(heap, h) /\ Total(h, Nodes(s, k)) = Total(heap, Nodes(s, k)) + c_info.len
    <2>1. Nodes(s, k) \in SUBSET DOMAIN heap /\ n \in Nodes(s, k)
        BY <1>4, <1>6, <1>7 DEF Nodes
    <2> QED
        BY <1>1, <1>8, <1>9, <2>1, AddCounts
<1>14. Hit(s, k, i, n, h)
    BY <1>3, <1>6, <1>7, <1>8, <1>10, <1>11, <1>12, <1>13 DEF Hit
<1> QED
    BY <1>6, <1>7, <1>9, <1>14

(* The node stays where it is. *)
LEMMA AddedRest ==
    ASSUME TypeOK, Histories, c_info \in Packets, Inserted, UNCHANGED <<cumulative, head, display, shown>>,
           NEW k, NEW s, NEW i, NEW n, Hit(s, k, i, n, heap')
    PROVE  /\ Chain(heap', s, k, NULL) /\ head' = s[1] /\ Kept(Nodes(s, k), TRUE)'
           /\ Complete(s[k], Nodes(s, k), k, TRUE)'
<1>1. /\ Chain(heap', s, k, NULL) /\ Alike(heap, heap') /\ Whole(s, k)
      /\ \A m \in DOMAIN heap : heap'[m].next = heap[m].next
      /\ Total(heap', Nodes(s, k)) = Total(heap, Nodes(s, k)) + c_info.len
    BY DEF Hit
<1>2. /\ k \in 1 .. Len(heap) /\ s \in [1 .. k -> DOMAIN heap] /\ head = s[1]
      /\ Kept(Nodes(s, k), TRUE) /\ Complete(s[k], Nodes(s, k), k, TRUE)
    BY <1>1 DEF Whole
<1>3. Nodes(s, k) \subseteq DOMAIN heap
    BY <1>2 DEF Nodes
<1>4. Kept(Nodes(s, k), TRUE)'
    BY <1>1, <1>2, <1>3, KeptInserted
<1>5. Complete(s[k], Nodes(s, k), k, TRUE)'
    <2>1. Len(heap') = Len(heap) /\ DOMAIN heap' = DOMAIN heap /\ heap'[s[k]].next = heap[s[k]].next
        <3>1. s[k] \in DOMAIN heap
            BY <1>2
        <3> QED
            BY <1>1, <3>1 DEF Alike
    <2>2. cumulative => heap[s[k]].next = NULL /\ Nodes(s, k) = DOMAIN heap /\ k = Len(heap)
        BY <1>2 DEF Complete
    <2>3. cumulative' => heap'[s[k]].next = NULL /\ Nodes(s, k) = DOMAIN heap' /\ k = Len(heap')
        BY <2>1, <2>2
    <2> QED
        BY <2>3 DEF Complete
<1> QED
    BY <1>1, <1>2, <1>4, <1>5

(* The node is moved behind another one. *)
LEMMA RelinkRest ==
    ASSUME TypeOK, Histories, c_info \in Packets, Inserted, UNCHANGED <<cumulative, head, display, shown>>,
           NEW k, NEW s, NEW i, NEW n, NEW h, Hit(s, k, i, n, h), NEW p, p = Place(h, n), p # NULL,
           heap' = InsertAfter(Unlink(h, n), p, n)
    PROVE  Typed(heap') /\ Adds(heap, heap') /\ Len(heap') = Len(heap) /\ AtRest'
<1>1. /\ Whole(s, k) /\ i \in 1 .. k /\ s[i] = n /\ n \in DOMAIN heap
      /\ Alike(heap, h) /\ Typed(h) /\ Chain(h, s, k, NULL) /\ Adds(heap, h)
      /\ Total(h, Nodes(s, k)) = Total(heap, Nodes(s, k)) + c_info.len
      /\ \A m \in DOMAIN heap : h[m].next = heap[m].next
    BY DEF Hit
<1>2. PICK j \in 1 .. i - 1 : p = s[j]
    BY DEF Hit
<1>3. /\ k \in 1 .. Len(heap) /\ s \in [1 .. k -> DOMAIN heap] /\ head = s[1]
      /\ Kept(Nodes(s, k), TRUE) /\ Complete(s[k], Nodes(s, k), k, TRUE)
    BY <1>1 DEF Whole
<1>4. /\ Len(h) = Len(heap) /\ DOMAIN h = DOMAIN heap /\ Len(heap) \in Nat
    BY <1>1 DEF Alike
<1>5. i \in 2 .. k /\ j \in 1 .. k - 1 /\ j \in 1 .. k /\ 1 \in 1 .. i - 1 /\ k \in Nat
    BY <1>1, <1>2, <1>3, <1>4
<1>6. PICK u : u = Unlink(h, n)
    OBVIOUS
<1>7. Alike(h, u) /\ Typed(u) /\ Counts(h, u) /\ Unlinked(h, u, s[i])
    BY <1>1, <1>4, <1>6, UnlinkFields
<1>8. PICK t : t = Without(s, k, i)
    OBVIOUS
<1>9. PICK l : l = k - 1
    OBVIOUS
<1>10. /\ Chain(u, t, l, NULL) /\ Apart(u, t, l, n) /\ t[1] = s[1] /\ t[j] = s[j]
       /\ Nodes(t, l) \cup {n} = Nodes(s, k) /\ u[t[l]].next = h[s[k]].next
    <2>1. Shorter(h, u, s, k, i, t)
        BY <1>1, <1>5, <1>7, <1>8, ChainWithout
    <2> QED
        BY <1>1, <1>2, <1>5, <1>9, <2>1 DEF Shorter
<1>11. DOMAIN u = DOMAIN heap /\ Len(u) = Len(heap) /\ p \in DOMAIN u /\ n \in DOMAIN u
    <2>1. p \in DOMAIN heap
        BY <1>2, <1>3, <1>5
    <2> QED
        BY <1>1, <1>4, <1>7, <2>1 DEF Alike
<1>12. Alike(u, heap') /\ Typed(heap') /\ Counts(u, heap') /\ Linked(u, heap', t[j], n)
    <2>1. heap' = InsertAfter(u, p, n)
        BY <1>6
    <2>2. Alike(u, heap') /\ Typed(heap') /\ Counts(u, heap') /\ Linked(u, heap', p, n)
        BY <1>7, <1>11, <2>1, InsertFields
    <2> QED
        BY <1>2, <1>10, <2>2
<1>13. PICK w : w = With(t, l, j, n)
    OBVIOUS
<1>14. Longer(u, heap', t, l, n, t[1], w)
    <2>1. j \in 1 .. l
        BY <1>5, <1>9
    <2> QED
        BY <1>10, <1>12, <1>13, <2>1, ChainWith
<1>15. l + 1 = k
    BY <1>5, <1>9
<1>16. /\ Chain(heap', w, k, NULL) /\ w[1] = s[1] /\ Nodes(w, k) = Nodes(s, k)
       /\ heap'[w[k]].next = h[s[k]].next
    BY <1>10, <1>14, <1>15 DEF Longer
<1>17. DOMAIN heap' = DOMAIN heap /\ Len(heap') = Len(heap)
    BY <1>11, <1>12 DEF Alike
<1>18. /\ \A S \in SUBSET DOMAIN heap : Total(heap', S) = Total(h, S)
       /\ \A x, y : Flow(heap', x, y) = Flow(h, x, y)
    <2>1. /\ \A S \in SUBSET DOMAIN h : Total(u, S) = Total(h, S)
          /\ \A x, y : Flow(u, x, y) = Flow(h, x, y)
        BY <1>1, <1>7, SameCounts
    <2>2. /\ \A S \in SUBSET DOMAIN u : Total(heap', S) = Total(u, S)
          /\ \A x, y : Flow(heap', x, y) = Flow(u, x, y)
        BY <1>7, <1>12, SameCounts
    <2> QED
        BY <1>4, <1>11, <2>1, <2>2
<1>19. Adds(heap, heap')
    BY <1>1, <1>18 DEF Adds
<1>20. Nodes(s, k) \subseteq DOMAIN heap
    BY <1>3 DEF Nodes
<1>21. Kept(Nodes(w, k), TRUE)'
    <2>1. Total(heap', Nodes(w, k)) = Total(heap, Nodes(s, k)) + c_info.len
        BY <1>1, <1>16, <1>18, <1>20
    <2> QED
        BY <1>3, <1>20, <2>1, KeptInserted
<1>22. Complete(w[k], Nodes(w, k), k, TRUE)'
    <2>1. cumulative => heap[s[k]].next = NULL /\ Nodes(s, k) = DOMAIN heap /\ k = Len(heap)
        BY <1>3 DEF Complete
    <2>2. heap'[w[k]].next = heap[s[k]].next
        <3>1. s[k] \in DOMAIN heap
            BY <1>3
        <3> QED
            BY <1>1, <1>16, <3>1
    <2>3. cumulative' => heap'[w[k]].next = NULL /\ Nodes(w, k) = DOMAIN heap' /\ k = Len(heap')
        BY <1>16, <1>17, <2>1, <2>2
    <2> QED
        BY <2>3 DEF Complete
<1>23. AtRest'
    BY <1>3, <1>16, <1>21, <1>22, AtRestNext
<1> QED
    BY <1>12, <1>17, <1>19, <1>23

(* The node is about to be moved to the front. *)
LEMMA LeavingNext ==
    ASSUME TypeOK, Histories, c_info \in Packets, Inserted, UNCHANGED <<cumulative, head, display, shown>>,
           NEW k, NEW s, NEW i, NEW n, Hit(s, k, i, n, heap'), node' = n, heap[n].prev # NULL
    PROVE  Leaving'
<1>1. /\ Chain(heap', s, k, NULL) /\ head' = s[1] /\ Kept(Nodes(s, k), TRUE)'
      /\ Complete(s[k], Nodes(s, k), k, TRUE)'
    BY AddedRest
<1>2. i \in 2 .. k /\ s[i] = n
    <2>1. i \in 1 .. k /\ s[i] = n /\ Chain(heap, s, k, NULL)
        BY DEF Hit, Whole
    <2>2. i # 1
        BY <2>1 DEF Chain
    <2> QED
        BY <2>1, <2>2
<1>3. k \in 1 .. Len(heap') /\ s \in [1 .. k -> DOMAIN heap'] /\ Chain(heap, s, k, NULL)'
    BY <1>1 DEF Chain
<1>4. (head \in {s[1]} \cup Ends)' /\ (\E m \in 2 .. k : s[m] = node)'
    BY <1>1, <1>2
<1>5. Kept(Nodes(s, k), head = s[1])' /\ Complete(s[k], Nodes(s, k), k, head = s[1])'
    BY <1>1 DEF Kept, Complete
<1> QED
    BY <1>3, <1>4, <1>5 DEF Leaving

(* The capture thread walks the list, counts the packet and moves the node.    *)
LEMMA GetNodeInv ==
    ASSUME IInv, GetNode, UNCHANGED cumulative
    PROVE  IInv'
<1> USE DEF IInv
<1>1. /\ capture = "get_node"
      /\ UNCHANGED <<cumulative, mutex, display, c_info, rows, packets, shown>>
    BY DEF GetNode
<1>2. AtRest /\ c_info \in Packets /\ Typed(heap) /\ Len(heap) \in Nat /\ mutex
    <2>1. AtRest /\ c_info \in Packets /\ mutex
        BY <1>1 DEF Moving, Phases
    <2>2. Typed(heap)
        BY TypeParts
    <2> QED
        BY <2>1, <2>2, TypedNode
<1>3. head \in -1 .. Len(heap) /\ node \in 0 .. Len(heap)
    BY DEF TypeOK
<1>4. CASE head = NULL /\ capture' = "first" /\ UNCHANGED <<heap, head, node, counted>>
    <2>1. UNCHANGED <<heap, head, node, captured, missed>>
        BY <1>4 DEF counted
    <2>2. TypeOK'
        BY <1>1, <1>4, <2>1 DEF TypeOK
    <2>3. Phases'
        BY <1>1, <1>2, <1>4, <2>1 DEF Phases, Ends
    <2>4. Histories'
        BY <1>1, <2>1, HistoriesSame
    <2>5. Moving'
        <3>1. AtRest'
            BY <1>1, <1>2, <2>1, SameList
        <3> QED
            BY <1>4, <3>1 DEF Moving
    <2> QED
        BY <2>2, <2>3, <2>4, <2>5
<1>5. CASE head # NULL /\ Found = {} /\ HasGarbage /\ Crash
    <2>1. capture' = "crashed" /\ UNCHANGED <<heap, head, node, captured, missed>>
        BY <1>5 DEF Crash, counted
    <2>2. ~cumulative
        BY <1>2, <1>5, ListAtRest
    <2>3. TypeOK'
        BY <1>1, <2>1 DEF TypeOK
    <2>4. Phases'
        BY <1>1, <2>1, <2>2 DEF Phases
    <2>5. Histories'
        BY <1>1, <2>1, HistoriesSame
    <2>6. Moving'
        BY <2>1 DEF Moving
    <2> QED
        BY <2>3, <2>4, <2>5, <2>6
<1>6. CASE /\ head # NULL /\ Found = {} /\ ~HasGarbage
           /\ Appended(heap', List[Len(List)])
           /\ Inserted /\ capture' = "unlock" /\ UNCHANGED <<head, node>>
    <2>1. /\ Typed(heap') /\ Adds(heap, heap') /\ Len(heap') = Len(heap) + 1
          /\ head' # Garbage /\ AtRest'
        BY <1>1, <1>2, <1>6, AppendRest
    <2>2. head' \in -1 .. Len(heap') /\ node' \in 0 .. Len(heap')
        BY <1>2, <1>3, <1>6, <2>1
    <2>3. TypeOK' /\ Phases' /\ Histories'
        BY <1>1, <1>2, <1>6, <2>1, <2>2, InsertedParts
    <2>4. Moving'
        BY <1>6, <2>1 DEF Moving
    <2> QED
        BY <2>3, <2>4
<1>7. ASSUME Found # {}, NEW n, n = List[Min(Found)], NEW p, p = Place(Add(n), n), Inserted, UNCHANGED head,
             \/ heap' = Add(n) /\ capture' = "unlock" /\ UNCHANGED node
             \/ heap' = Add(n) /\ capture' = "move" /\ node' = n /\ heap[n].prev # NULL
             \/ /\ p # NULL /\ heap' = InsertAfter(Unlink(Add(n), n), p, n)
                /\ capture' = "unlock" /\ UNCHANGED node
      PROVE  IInv'
    <2>1. PICK h : h = Add(n)
        OBVIOUS
    <2>2. PICK k, s, i : Hit(s, k, i, n, h)
        BY <1>2, <1>7, <2>1, FoundNode
    <2>3. head' # Garbage
        <3>1. head = s[1] /\ s[1] \in DOMAIN heap
            BY <2>2 DEF Hit, Whole
        <3> QED
            BY <1>7, <3>1, NotAnEnd DEF Ends
    <2>4. /\ Typed(h) /\ Adds(heap, h) /\ Len(h) = Len(heap) /\ n \in DOMAIN heap
        BY <2>2 DEF Hit, Alike
    <2>5. n \in 0 .. Len(heap)
        BY <1>2, <2>4, TypedNode
    <2>6. CASE heap' = Add(n) /\ capture' = "unlock" /\ UNCHANGED node
        <3>1. Hit(s, k, i, n, heap')
            BY <2>1, <2>2, <2>6
        <3>2. /\ Chain(heap', s, k, NULL) /\ head' = s[1] /\ Kept(Nodes(s, k), TRUE)'
              /\ Complete(s[k], Nodes(s, k), k, TRUE)'
            BY <1>1, <1>2, <1>7, <3>1, AddedRest
        <3>3. AtRest'
            BY <3>2, AtRestNext
        <3>4. TypeOK' /\ Phases' /\ Histories'
            BY <1>1, <1>2, <1>3, <1>7, <2>1, <2>3, <2>4, <2>6, InsertedParts
        <3>5. Moving'
            BY <2>6, <3>3 DEF Moving
        <3> QED
            BY <3>4, <3>5
    <2>7. CASE heap' = Add(n) /\ capture' = "move" /\ node' = n /\ heap[n].prev # NULL
        <3>1. Hit(s, k, i, n, heap')
            BY <2>1, <2>2, <2>7
        <3>2. Leaving'
            BY <1>1, <1>2, <1>7, <2>7, <3>1, LeavingNext
        <3>3. TypeOK' /\ Phases' /\ Histories'
            BY <1>1, <1>2, <1>3, <1>7, <2>1, <2>3, <2>4, <2>5, <2>7, InsertedParts
        <3>4. Moving'
            BY <2>7, <3>2 DEF Moving
        <3> QED
            BY <3>3, <3>4
    <2>8. CASE /\ p # NULL /\ heap' = InsertAfter(Unlink(Add(n), n), p, n)
               /\ capture' = "unlock" /\ UNCHANGED node
        <3>1. heap' = InsertAfter(Unlink(h, n), p, n) /\ p = Place(h, n)
            BY <1>7, <2>1, <2>8
        <3>2. Typed(heap') /\ Adds(heap, heap') /\ Len(heap') = Len(heap) /\ AtRest'
            BY <1>1, <1>2, <1>7, <2>2, <2>8, <3>1, RelinkRest
        <3>3. TypeOK' /\ Phases' /\ Histories'
            BY <1>1, <1>2, <1>3, <1>7, <2>3, <2>8, <3>2, InsertedParts
        <3>4. Moving'
            BY <2>8, <3>2 DEF Moving
        <3> QED
            BY <3>3, <3>4
    <2> QED
        BY <1>7, <2>6, <2>7, <2>8
<1>8. CASE Found # {} /\ ~(head = NULL /\ capture' = "first" /\ UNCHANGED <<heap, head, node, counted>>)
    <2>1. PICK n : n = List[Min(Found)]
        OBVIOUS
    <2>2. PICK p : p = Place(Add(n), n)
        OBVIOUS
    <2>3. /\ Inserted /\ UNCHANGED head
          /\ \/ heap' = Add(n) /\ capture' = "unlock" /\ UNCHANGED node
             \/ heap' = Add(n) /\ capture' = "move" /\ node' = n /\ heap[n].prev # NULL
             \/ /\ p # NULL /\ heap' = InsertAfter(Unlink(Add(n), n), p, n)
                /\ capture' = "unlock" /\ UNCHANGED node
        BY <1>8, <2>1, <2>2, Zenon DEF GetNode
    <2> QED
        BY <1>7, <1>8, <2>1, <2>2, <2>3
<1> QED
    BY <1>4, <1>5, <1>6, <1>8, Zenon DEF GetNode, Appended

(* Every step of the two threads preserves the invariant.                      *)
LEMMA NextInv == IInv /\ [Next]_vars => IInv'
<1> SUFFICES ASSUME IInv, [Next]_vars
             PROVE  IInv'
    OBVIOUS
<1>1. CASE UNCHANGED vars
    <2>1. UNCHANGED <<cumulative, heap, head, mutex, capture, display, c_info, node, rows, packets,
                      captured, since, shown, missed>>
        BY <1>1 DEF vars
    <2>2. TypeOK'
        BY <2>1 DEF IInv, TypeOK
    <2>3. Phases'
        BY <2>1 DEF IInv, Phases
    <2>4. Histories'
        BY <2>1, HistoriesSame DEF IInv
    <2>5. AtRest => AtRest'
        BY <2>1, SameList
    <2>6. Leaving => Leaving'
        BY <2>1 DEF Leaving, Settled, Pending, Kept, Complete, Total, Chain
    <2>7. /\ Apiece(NULL, head) => Apiece(NULL, head)'
          /\ Apiece(node, head) => Apiece(node, head)'
          /\ Apiece(node, heap[node].next) => Apiece(node, heap[node].next)'
        <3>1. /\ \A S, intact : Kept(S, intact)' = Kept(S, intact)
              /\ \A last, S, K, intact : Complete(last, S, K, intact)' = Complete(last, S, K, intact)
            BY <2>1 DEF Kept, Complete, Settled, Pending, Total
        <3> QED
            BY <2>1, <3>1 DEF Apiece
    <2>8. Moving'
        BY <2>1, <2>5, <2>6, <2>7 DEF IInv, Moving
    <2> QED
        BY <2>2, <2>3, <2>4, <2>8 DEF IInv
<1>2. CASE CaptureNext /\ UNCHANGED cumulative
    BY <1>2, PacketArrivesInv, GetNodeInv, SetFirstInv, MoveOutInv, LinkPrevInv, LinkNextInv,
       SetHeadInv, UnlockInv DEF CaptureNext
<1>3. CASE DisplayNext /\ UNCHANGED cumulative
    BY <1>3, PrintListInv, ReplaceInv DEF DisplayNext
<1> QED
    BY <1>1, <1>2, <1>3 DEF Next

-----------------------------------------------------------------------------
(* What a replaced list leaves behind *)

(* No pointer leads from the nodes after the first q back to these. *)
Beyond(h, q) ==
    \A m \in DOMAIN h : m > q => /\ h[m].next \in Ends \/ h[m].next > q
                                 /\ h[m].prev = NULL \/ h[m].prev > q

(* The first q nodes, which were there when the list was replaced, are out of  *)
(* reach and still count what was captured until then.                         *)
Dropped(q) ==
    /\ q \in 0 .. Len(heap)
    /\ head \in Ends \/ head > q
    /\ node = NULL \/ node > q
    /\ Beyond(heap, q)
    /\ \A x, y \in Endpoints : SumFunctionOnSet(Sent(heap, x, y), 1 .. q) = since[<<x, y>>]

(* Without -c the rows on the screen are of the nodes after these. *)
OnlyNew ==
    display # "print" =>
        \A x, y \in Endpoints : BytesShown(x, y) + since[<<x, y>>] <= captured[<<x, y>>]

(* A list whose head is not one of the first q nodes has none of them.         *)
LEMMA ChainBeyond ==
    ASSUME NEW h, NEW q \in Nat, Beyond(h, q), NEW k, NEW s, NEW p, Len(h) \in Nat, DOMAIN h = 1 .. Len(h),
           Chain(h, s, k, p), s[1] > q
    PROVE  \A i \in 1 .. k : s[i] > q
<1> DEFINE N == k - 1
           G == {j \in 0 .. N : s[j + 1] > q}
<1>1. k \in 1 .. Len(h) /\ s \in [1 .. k -> DOMAIN h] /\ N \in Nat
    BY DEF Chain
<1>2. 0 \in G
    BY <1>1
<1>3. ASSUME NEW j \in 0 .. N - 1, j \in G
      PROVE  j + 1 \in G
    <2>1. /\ j + 1 \in 1 .. k - 1 /\ j + 1 \in 1 .. k /\ (j + 1) + 1 \in 1 .. k /\ j + 1 \in 0 .. N
        BY <1>1
    <2>2. h[s[j + 1]].next = s[(j + 1) + 1]
        BY <2>1 DEF Chain
    <2>3. s[j + 1] > q /\ s[j + 1] \in DOMAIN h /\ s[(j + 1) + 1] \in DOMAIN h
        BY <1>1, <1>3, <2>1
    <2>4. s[(j + 1) + 1] \in Ends \/ s[(j + 1) + 1] > q
        BY <2>2, <2>3 DEF Beyond
    <2>5. s[(j + 1) + 1] \notin Ends
        BY <2>3 DEF Ends, NULL, Garbage
    <2> QED
        BY <2>1, <2>4, <2>5
<1>4. 0 .. N \subseteq G
    <2> HIDE DEF N, G
    <2> QED
        BY <1>1, <1>2, <1>3, UpTo
<1>5. ASSUME NEW i \in 1 .. k
      PROVE  s[i] > q
    <2>1. i - 1 \in 0 .. N /\ (i - 1) + 1 = i
        BY <1>1
    <2>2. i - 1 \in G
        BY <1>4, <2>1
    <2> QED
        BY <2>1, <2>2
<1> QED
    BY <1>5

(* So has the list that get_node and print_llist walk.                         *)
LEMMA WholeBeyond ==
    ASSUME TypeOK, NEW q \in Nat, Dropped(q), NEW k, NEW s, Whole(s, k)
    PROVE  \A i \in 1 .. k : s[i] > q
<1>1. Len(heap) \in Nat /\ DOMAIN heap = 1 .. Len(heap)
    BY TypeParts, TypedNode
<1>2. Chain(heap, s, k, NULL) /\ head = s[1] /\ s[1] \in DOMAIN heap
    BY <1>1 DEF Whole
<1>3. head \notin Ends
    BY <1>2, NotAnEnd
<1> QED
    BY <1>1, <1>2, <1>3, ChainBeyond DEF Dropped

(* Steps that leave the first q nodes alone. *)
Spares(q) ==
    /\ Len(heap) <= Len(heap')
    /\ \A m \in 1 .. q : /\ heap'[m].src = heap[m].src /\ heap'[m].dst = heap[m].dst
                         /\ heap'[m].Rx = heap[m].Rx /\ heap'[m].Tx = heap[m].Tx

(* The first q nodes stay out of reach as long as nothing new points at them. *)
LEMMA DroppedNext ==
    ASSUME NEW q \in Nat, Dropped(q), Typed(heap), Typed(heap'), Spares(q), UNCHANGED since,
           head' \in Ends \/ head' > q, node' = NULL \/ node' > q, Beyond(heap', q)
    PROVE  Dropped(q)'
<1>1. /\ Len(heap) \in Nat /\ DOMAIN heap = 1 .. Len(heap)
      /\ Len(heap') \in Nat /\ DOMAIN heap' = 1 .. Len(heap')
    BY TypedNode
<1>2. q \in 0 .. Len(heap')
    BY <1>1 DEF Dropped, Spares
<1>3. ASSUME NEW x \in Endpoints, NEW y \in Endpoints
      PROVE  SumFunctionOnSet(Sent(heap', x, y), 1 .. q) = since'[<<x, y>>]
    <2> DEFINE f == Sent(heap, x, y)
               e == Sent(heap', x, y)
               S == 1 .. q
    <2>1. ASSUME NEW m \in S
          PROVE  f[m] \in Int /\ e[m] = f[m]
        <3>1. m \in DOMAIN heap /\ m \in DOMAIN heap'
            BY <1>1, <1>2 DEF Dropped
        <3>2. f[m] = (IF heap[m].src = x /\ heap[m].dst = y THEN heap[m].Tx ELSE 0)
                   + (IF heap[m].src = y /\ heap[m].dst = x THEN heap[m].Rx ELSE 0) /\ f[m] \in Nat
            BY <3>1, CounterTypes
        <3>3. e[m] = (IF heap'[m].src = x /\ heap'[m].dst = y THEN heap'[m].Tx ELSE 0)
                   + (IF heap'[m].src = y /\ heap'[m].dst = x THEN heap'[m].Rx ELSE 0)
            BY <3>1, CounterTypes
        <3> HIDE DEF f, e
        <3> QED
            BY <3>2, <3>3 DEF Spares
    <2>2. IsFiniteSet(S)
        BY FS_Interval
    <2>3. SumFunctionOnSet(f, S) = since[<<x, y>>]
        BY DEF Dropped
    <2> HIDE DEF f, e, S
    <2>4. SumFunctionOnSet(f, S) = SumFunctionOnSet(e, S)
        BY <2>1, <2>2, SumSame
    <2>5. SumFunctionOnSet(e, S) = since'[<<x, y>>]
        BY <2>3, <2>4
    <2> QED
        BY <2>5 DEF e, S
<1> QED
    BY <1>2, <1>3 DEF Dropped, Sent, Beyond

(* Steps that write pointers only. *)
LEMMA SparesRelinked ==
    ASSUME Typed(heap), NEW q, q \in 0 .. Len(heap), Alike(heap, heap'), Counts(heap, heap')
    PROVE  Spares(q)
<1>1. Len(heap) \in Nat /\ DOMAIN heap = 1 .. Len(heap) /\ Len(heap') = Len(heap)
    BY DEF Alike
<1>2. \A m \in 1 .. q : m \in DOMAIN heap
    BY <1>1
<1> QED
    BY <1>1, <1>2 DEF Spares, Alike, Counts

(* Taking out a node that is not one of the first q. *)
LEMMA UnlinkBeyond ==
    ASSUME NEW q, NEW h, Beyond(h, q), NEW n \in DOMAIN h, n > q,
           NEW g, DOMAIN g = DOMAIN h, Unlinked(h, g, n)
    PROVE  Beyond(g, q)
BY DEF Beyond, Unlinked

(* Putting it behind another one. *)
LEMMA LinkBeyond ==
    ASSUME NEW q, NEW h, Beyond(h, q), NEW p \in DOMAIN h, p > q, NEW n \in DOMAIN h, n > q,
           NEW g, DOMAIN g = DOMAIN h, Linked(h, g, p, n)
    PROVE  Beyond(g, q)
BY DEF Beyond, Linked

(* The node that is moved is a node. *)
LEMMA MovedNode ==
    ASSUME IInv, capture \in {"move", "link_prev", "link_next", "set_head"}
    PROVE  /\ Typed(heap) /\ Len(heap) \in Nat /\ DOMAIN heap = 1 .. Len(heap)
           /\ node \in DOMAIN heap /\ node \in 0 .. Len(heap) /\ node # NULL
<1>1. Typed(heap) /\ Len(heap) \in Nat /\ DOMAIN heap = 1 .. Len(heap)
    BY TypeParts, TypedNode DEF IInv
<1>2. Leaving \/ \E before, first : Apiece(before, first)
    BY Zenon DEF IInv, Moving
<1>3. CASE Leaving
    <2>1. PICK k \in 1 .. Len(heap) : \E s \in [1 .. k -> DOMAIN heap] : \E i \in 2 .. k : s[i] = node
        BY <1>3 DEF Leaving
    <2>2. PICK s \in [1 .. k -> DOMAIN heap] : \E i \in 2 .. k : s[i] = node
        BY <2>1
    <2>3. node \in DOMAIN heap
        BY <1>1, <2>2
    <2> QED
        BY <1>1, <2>3 DEF NULL
<1>4. ASSUME NEW before, NEW first, Apiece(before, first)
      PROVE  node \in DOMAIN heap
    BY <1>4, Zenon DEF Apiece, Apart
<1>5. (\E before, first : Apiece(before, first)) => node \in DOMAIN heap
    BY <1>4
<1> QED
    BY <1>1, <1>2, <1>3, <1>5 DEF NULL

(* The steps of a move, also when init_llist comes between them. *)
LEMMA MoveDropped ==
    ASSUME IInv, NEW q \in Nat, Dropped(q), UNCHANGED since, MoveOut \/ LinkPrev \/ LinkNext \/ SetHead
    PROVE  Dropped(q)'
<1>1. capture \in {"move", "link_prev", "link_next", "set_head"}
    BY DEF MoveOut, LinkPrev, LinkNext, SetHead
<1>2. PICK n : n = node
    OBVIOUS
<1>3. /\ Typed(heap) /\ Len(heap) \in Nat /\ DOMAIN heap = 1 .. Len(heap)
      /\ n \in DOMAIN heap /\ n \in 0 .. Len(heap) /\ n # NULL
    BY <1>1, <1>2, MovedNode
<1>4. n > q /\ q \in 0 .. Len(heap) /\ Beyond(heap, q) /\ (head \in Ends \/ head > q)
    BY <1>2, <1>3 DEF Dropped
<1>5. head \in -1 .. Len(heap)
    BY DEF IInv, TypeOK
<1>6. ASSUME Alike(heap, heap'), Typed(heap'), Counts(heap, heap'), Beyond(heap', q),
             head' \in Ends \/ head' > q, node' = NULL \/ node' > q
      PROVE  Dropped(q)'
    <2>1. Spares(q)
        BY <1>3, <1>4, <1>6, SparesRelinked
    <2> QED
        BY <1>3, <1>6, <2>1, DroppedNext
<1>7. CASE MoveOut
    <2>1. heap' = Unlink(heap, n) /\ head' = head /\ node' = n
        BY <1>2, <1>7 DEF MoveOut
    <2>2. Alike(heap, heap') /\ Typed(heap') /\ Counts(heap, heap') /\ Unlinked(heap, heap', n)
        BY <1>3, <2>1, UnlinkFields
    <2>3. Beyond(heap', q)
        BY <1>3, <1>4, <2>2, UnlinkBeyond DEF Alike
    <2> QED
        BY <1>4, <1>6, <2>1, <2>2, <2>3
<1>8. CASE LinkPrev
    <2>1. head' = head /\ node' = n
        BY <1>2, <1>8 DEF LinkPrev, Crash
    <2>2. CASE heap' = heap
        BY <1>3, <1>4, <2>1, <2>2, DroppedNext DEF Spares
    <2>3. CASE heap' # heap
        <3>1. head \notin Ends /\ heap' = [heap EXCEPT ![head].prev = n]
            BY <1>2, <1>8, <2>3 DEF LinkPrev, Crash, Ends
        <3>2. head \in DOMAIN heap
            BY <1>3, <1>5, <3>1 DEF Ends, NULL, Garbage
        <3>3. /\ Alike(heap, heap') /\ Typed(heap') /\ Counts(heap, heap')
              /\ OnlyPrev(heap, heap', head, n)
            BY <1>3, <3>1, <3>2, SetPrev DEF PrevSet
        <3>4. Beyond(heap', q)
            BY <1>4, <3>3 DEF Beyond, OnlyPrev, Alike
        <3> QED
            BY <1>4, <1>6, <2>1, <3>3, <3>4
    <2> QED
        BY <2>2, <2>3
<1>9. CASE LinkNext
    <2>1. heap' = [heap EXCEPT ![n].next = head] /\ head' = head /\ node' = n
        BY <1>2, <1>9 DEF LinkNext
    <2>2. /\ Alike(heap, heap') /\ Typed(heap') /\ Counts(heap, heap')
          /\ OnlyNext(heap, heap', n, head)
        BY <1>3, <1>5, <2>1, SetNext DEF NextSet
    <2>3. Beyond(heap', q)
        BY <1>4, <2>2 DEF Beyond, OnlyNext, Alike
    <2> QED
        BY <1>4, <1>6, <2>1, <2>2, <2>3
<1>10. CASE SetHead
    <2>1. heap' = [heap EXCEPT ![n].prev = NULL] /\ head' = n /\ node' = NULL
        BY <1>2, <1>10 DEF SetHead
    <2>2. /\ Alike(heap, heap') /\ Typed(heap') /\ Counts(heap, heap')
          /\ OnlyPrev(heap, heap', n, NULL)
        <3>1. NULL \in 0 .. Len(heap)
            BY <1>3 DEF NULL
        <3> QED
            BY <1>3, <2>1, <3>1, SetPrev DEF PrevSet
    <2>3. Beyond(heap', q)
        BY <1>4, <2>2 DEF Beyond, OnlyPrev, Alike
    <2> QED
        BY <1>4, <1>6, <2>1, <2>2, <2>3
<1> QED
    BY <1>7, <1>8, <1>9, <1>10

(* The first node of a list. *)
LEMMA SetFirstDropped ==
    ASSUME IInv, NEW q \in Nat, Dropped(q), UNCHANGED since, SetFirst
    PROVE  Dropped(q)'
<1>1. heap' = Append(heap, NewNode(c_info)) /\ head' = Len(heap) + 1 /\ node' = node /\ capture = "first"
    BY DEF SetFirst
<1>2. c_info \in Packets
    BY <1>1 DEF IInv, Phases
<1>3. Typed(heap) /\ Len(heap) \in Nat /\ DOMAIN heap = 1 .. Len(heap)
    BY TypeParts, TypedNode DEF IInv
<1>4. PICK new : new = Len(heap) + 1
    OBVIOUS
<1>5. /\ Typed(heap') /\ Len(heap') = new /\ DOMAIN heap' = 1 .. new
      /\ \A m \in 1 .. Len(heap) : heap'[m] = heap[m]
      /\ heap'[new].next = NULL /\ heap'[new].prev = NULL
    BY <1>1, <1>2, <1>3, <1>4, NewFields
<1>6. /\ q \in 0 .. Len(heap) /\ Beyond(heap, q)
      /\ node = NULL \/ node > q
    BY DEF Dropped
<1>7. Spares(q)
    BY <1>3, <1>4, <1>5, <1>6 DEF Spares
<1>8. Beyond(heap', q)
    <2> SUFFICES ASSUME NEW m \in 1 .. new, m > q
                 PROVE  /\ heap'[m].next \in Ends \/ heap'[m].next > q
                        /\ heap'[m].prev = NULL \/ heap'[m].prev > q
        BY <1>5 DEF Beyond
    <2>1. CASE m = new
        BY <1>5, <2>1 DEF Ends
    <2>2. CASE m # new
        <3>1. m \in 1 .. Len(heap)
            BY <1>3, <1>4, <2>2
        <3> QED
            BY <1>3, <1>5, <1>6, <3>1 DEF Beyond
    <2> QED
        BY <2>1, <2>2
<1>9. head' > q
    BY <1>1, <1>3, <1>6
<1> QED
    BY <1>1, <1>3, <1>5, <1>6, <1>7, <1>8, <1>9, DroppedNext DEF Dropped

(* A new node at the end of the list. *)
LEMMA AppendDropped ==
    ASSUME IInv, NEW q \in Nat, Dropped(q), UNCHANGED <<since, head, node>>, capture = "get_node",
           head # NULL, Found = {}, ~HasGarbage, Appended(heap', List[Len(List)])
    PROVE  Dropped(q)'
<1>1. /\ Typed(heap) /\ Len(heap) \in Nat /\ DOMAIN heap = 1 .. Len(heap) /\ heap \in Seq(Node(Len(heap)))
      /\ TypeOK /\ AtRest /\ c_info \in Packets
    <2>1. TypeOK /\ AtRest /\ c_info \in Packets
        BY DEF IInv, Moving, Phases
    <2>2. Typed(heap)
        BY <2>1, TypeParts
    <2> QED
        BY <2>1, <2>2, TypedNode DEF Typed
<1>2. head \notin Ends
    BY <1>1, ListOfEnds DEF Ends
<1>3. PICK k, s : Whole(s, k)
    BY <1>1, <1>2, WholeList
<1>4. /\ k \in 1 .. Len(heap) /\ s[k] \in DOMAIN heap /\ k \in 1 .. k
      /\ heap[s[k]].next = NULL /\ List[Len(List)] = s[k]
    <2>1. heap[s[k]].next \in Ends /\ k \in 1 .. Len(heap) /\ s \in [1 .. k -> DOMAIN heap]
        BY <1>3 DEF Whole, Chain
    <2> QED
        BY <1>1, <1>3, <2>1 DEF Ends, Whole
<1>5. PICK last : last = s[k]
    OBVIOUS
<1>6. last > q
    BY <1>1, <1>3, <1>4, <1>5, WholeBeyond
<1>7. PICK new : new = Len(heap) + 1
    OBVIOUS
<1>8. PICK h : h = Append(heap, NewNode(c_info))
    OBVIOUS
<1>9. /\ Typed(h) /\ Len(h) = new /\ DOMAIN h = 1 .. new
      /\ \A m \in 1 .. Len(heap) : h[m] = heap[m]
      /\ h[new].next = NULL /\ h[new].prev = NULL
    BY <1>1, <1>7, <1>8, NewFields
<1>10. Alike(h, heap') /\ Typed(heap') /\ Counts(h, heap') /\ Linked(h, heap', last, new)
    BY <1>1, <1>4, <1>5, <1>7, <1>8, AppendFields
<1>11. q \in 0 .. Len(heap) /\ Beyond(heap, q)
    BY DEF Dropped
<1>12. Beyond(h, q)
    <2> SUFFICES ASSUME NEW m \in 1 .. new, m > q
                 PROVE  /\ h[m].next \in Ends \/ h[m].next > q
                        /\ h[m].prev = NULL \/ h[m].prev > q
        BY <1>9 DEF Beyond
    <2>1. CASE m = new
        BY <1>9, <2>1 DEF Ends
    <2>2. CASE m # new
        <3>1. m \in 1 .. Len(heap)
            BY <1>1, <1>7, <2>2
        <3> QED
            BY <1>1, <1>9, <1>11, <3>1 DEF Beyond
    <2> QED
        BY <2>1, <2>2
<1>13. Beyond(heap', q)
    <2>1. last \in DOMAIN h /\ new \in DOMAIN h /\ new > q
        BY <1>1, <1>4, <1>5, <1>7, <1>9, <1>11
    <2> QED
        BY <1>6, <1>10, <1>12, <2>1, LinkBeyond DEF Alike
<1>14. Spares(q)
    <2>1. Len(heap) <= Len(heap')
        BY <1>1, <1>7, <1>9, <1>10 DEF Alike
    <2>2. \A m \in 1 .. q : m \in DOMAIN h /\ h[m] = heap[m]
        BY <1>1, <1>7, <1>9, <1>11
    <2> QED
        BY <1>10, <2>1, <2>2 DEF Spares, Alike, Counts
<1> QED
    BY <1>1, <1>10, <1>13, <1>14, DroppedNext DEF Dropped

(* A packet is counted in a node, which may change its place. *)
LEMMA FoundDropped ==
    ASSUME IInv, NEW q \in Nat, Dropped(q), UNCHANGED <<since, head>>, capture = "get_node",
           Found # {}, NEW n, n = List[Min(Found)], NEW p, p = Place(Add(n), n),
           \/ heap' = Add(n) /\ UNCHANGED node
           \/ heap' = Add(n) /\ node' = n
           \/ p # NULL /\ heap' = InsertAfter(Unlink(Add(n), n), p, n) /\ UNCHANGED node
    PROVE  Dropped(q)'
<1>1. /\ Typed(heap) /\ Len(heap) \in Nat /\ DOMAIN heap = 1 .. Len(heap)
      /\ TypeOK /\ AtRest /\ c_info \in Packets
    <2>1. TypeOK /\ AtRest /\ c_info \in Packets
        BY DEF IInv, Moving, Phases
    <2>2. Typed(heap)
        BY <2>1, TypeParts
    <2> QED
        BY <2>1, <2>2, TypedNode
<1>2. PICK h : h = Add(n)
    OBVIOUS
<1>3. PICK k, s, i : Hit(s, k, i, n, h)
    BY <1>1, <1>2, FoundNode
<1>4. /\ Whole(s, k) /\ i \in 1 .. k /\ s[i] = n /\ n \in DOMAIN heap
      /\ Alike(heap, h) /\ Typed(h)
      /\ \A m \in DOMAIN heap : h[m].next = heap[m].next /\ h[m].prev = heap[m].prev
      /\ Place(h, n) = NULL \/ \E j \in 1 .. i - 1 : Place(h, n) = s[j]
    BY <1>3 DEF Hit
<1>5. \A j \in 1 .. k : s[j] > q /\ s[j] \in DOMAIN heap
    BY <1>1, <1>4, WholeBeyond DEF Whole
<1>6. n > q /\ k \in Nat /\ q \in 0 .. Len(heap) /\ Beyond(heap, q)
    BY <1>1, <1>4, <1>5 DEF Dropped, Whole
<1>7. Beyond(h, q)
    BY <1>4, <1>6 DEF Beyond, Alike
<1>8. \A m \in 1 .. q : h[m].Rx = heap[m].Rx /\ h[m].Tx = heap[m].Tx
    <2> SUFFICES ASSUME NEW m \in 1 .. q
                 PROVE  h[m].Rx = heap[m].Rx /\ h[m].Tx = heap[m].Tx
        OBVIOUS
    <2>1. m # n /\ m \in DOMAIN heap
        BY <1>1, <1>6
    <2>2. h[m] = heap[m]
        BY <1>2, <2>1 DEF Add
    <2> QED
        BY <2>2
<1>9. \A m \in 1 .. q : m \in DOMAIN heap
    BY <1>1, <1>6
<1>10. ASSUME Typed(heap'), Alike(h, heap'), Counts(h, heap'), Beyond(heap', q), node' \in {node, n}
       PROVE  Dropped(q)'
    <2>1. Spares(q)
        BY <1>1, <1>4, <1>8, <1>9, <1>10 DEF Spares, Alike, Counts
    <2>2. node' = NULL \/ node' > q
        BY <1>6, <1>10 DEF Dropped
    <2> QED
        BY <1>1, <1>10, <2>1, <2>2, DroppedNext DEF Dropped
<1>11. CASE heap' = Add(n) /\ node' \in {node, n}
    <2>1. heap' = h
        BY <1>2, <1>11
    <2>2. Alike(h, heap') /\ Counts(h, heap')
        BY <1>4, <2>1 DEF Alike, Counts
    <2> QED
        BY <1>4, <1>7, <1>10, <1>11, <2>1, <2>2
<1>12. CASE p # NULL /\ heap' = InsertAfter(Unlink(Add(n), n), p, n) /\ UNCHANGED node
    <2>1. PICK u : u = Unlink(h, n)
        OBVIOUS
    <2>2. p > q /\ p \in DOMAIN heap
        <3>1. PICK j \in 1 .. i - 1 : p = s[j]
            BY <1>2, <1>4, <1>12
        <3>2. j \in 1 .. k
            BY <1>4, <1>6
        <3> QED
            BY <1>5, <3>1, <3>2
    <2>3. Alike(h, u) /\ Typed(u) /\ Counts(h, u) /\ Unlinked(h, u, n) /\ n \in DOMAIN h
        BY <1>4, <2>1, UnlinkFields DEF Alike
    <2>4. n \in DOMAIN u /\ p \in DOMAIN u
        BY <1>4, <2>2, <2>3 DEF Alike
    <2>5. Beyond(u, q)
        BY <1>6, <1>7, <2>3, UnlinkBeyond DEF Alike
    <2>6. heap' = InsertAfter(u, p, n)
        BY <1>2, <1>12, <2>1
    <2>7. Alike(u, heap') /\ Typed(heap') /\ Counts(u, heap') /\ Linked(u, heap', p, n)
        BY <2>3, <2>4, <2>6, InsertFields
    <2>8. Beyond(heap', q)
        BY <1>6, <2>2, <2>4, <2>5, <2>7, LinkBeyond DEF Alike
    <2>9. Alike(h, heap') /\ Counts(h, heap')
        BY <2>3, <2>7 DEF Alike, Counts
    <2> QED
        BY <1>10, <1>12, <2>7, <2>8, <2>9
<1> QED
    BY <1>11, <1>12

(* The capture thread walks the list and counts the packet. *)
LEMMA GetNodeDropped ==
    ASSUME IInv, NEW q \in Nat, Dropped(q), UNCHANGED since, GetNode
    PROVE  Dropped(q)'
<1>1. capture = "get_node"
    BY DEF GetNode
<1>2. Typed(heap) /\ q \in 0 .. Len(heap) /\ Len(heap) \in Nat
    BY TypeParts, TypedNode DEF IInv, Dropped
<1>3. CASE UNCHANGED <<heap, head, node>>
    BY <1>2, <1>3, DroppedNext DEF Spares, Dropped
<1>4. CASE /\ head # NULL /\ Found = {} /\ ~HasGarbage
           /\ Appended(heap', List[Len(List)]) /\ UNCHANGED <<head, node>>
    BY <1>1, <1>4, AppendDropped
<1>5. CASE Found # {} /\ ~UNCHANGED <<heap, head, node>>
    <2>1. PICK n : n = List[Min(Found)]
        OBVIOUS
    <2>2. PICK p : p = Place(Add(n), n)
        OBVIOUS
    <2>3. /\ UNCHANGED head
          /\ \/ heap' = Add(n) /\ UNCHANGED node
             \/ heap' = Add(n) /\ node' = n
             \/ p # NULL /\ heap' = InsertAfter(Unlink(Add(n), n), p, n) /\ UNCHANGED node
        BY <1>5, <2>1, <2>2, Zenon DEF GetNode
    <2> QED
        BY <1>1, <1>5, <2>1, <2>2, <2>3, FoundDropped
<1> QED
    BY <1>3, <1>4, <1>5, Zenon DEF GetNode, Crash, Appended

(* What print_llist prints is in nodes after the first q. *)
LEMMA PrintedRows ==
    ASSUME IInv, PrintList, display' # "print", NEW q \in Nat, Dropped(q),
           NEW x \in Endpoints, NEW y \in Endpoints
    PROVE  \E S \in SUBSET DOMAIN heap :
              /\ \A m \in S : m > q
              /\ ShownIn(rows', x, y) \in Int
              /\ ShownIn(rows', x, y) <= SumFunctionOnSet(Sent(heap, x, y), S)
<1> DEFINE room == SubSeq(List, 1, Min({DisplayRows, Len(List)}))
           new == [i \in DOMAIN room |-> Row(room[i])]
<1>1. ~mutex /\ capture # "crashed" /\ rows' = new
    BY Zenon DEF PrintList
<1>2. TypeOK /\ AtRest /\ Typed(heap) /\ Len(heap) \in Nat /\ DOMAIN heap = 1 .. Len(heap)
    <2>1. capture = "loop"
        BY <1>1 DEF IInv, Phases, TypeOK
    <2>2. TypeOK /\ AtRest
        BY <2>1 DEF IInv, Moving
    <2> QED
        BY <2>2, TypeParts, TypedNode
<1>3. CASE head \in Ends
    <2>1. List = <<>>
        BY <1>2, <1>3, ListOfEnds DEF Typed
    <2>2. room = <<>>
        <3>1. Min({DisplayRows, Len(List)}) \in 0 .. 0
            <4>1. Len(List) = 0 /\ DisplayRows \in Nat
                BY <2>1, ArgumentsAssumption
            <4> QED
                BY <4>1, MinOfTwo
        <3>2. Min({DisplayRows, Len(List)}) = 0
            BY <3>1
        <3> QED
            BY <2>1, <3>2
    <2> HIDE DEF room
    <2>3. rows' = <<>>
        BY <1>1, <2>2
    <2>4. \E e : ShownIn(rows', x, y) = SumFunctionOnSet(e, {})
        <3> DEFINE rs == rows'
                   e == [i \in DOMAIN rs |->
                           (IF rs[i].src = x /\ rs[i].dst = y THEN rs[i].tx ELSE 0)
                         + (IF rs[i].src = y /\ rs[i].dst = x THEN rs[i].rx ELSE 0)]
        <3>1. ShownIn(rs, x, y) = SumFunctionOnSet(e, DOMAIN e)
            BY Zenon DEF ShownIn, SumFunction
        <3>2. DOMAIN e = DOMAIN rs /\ DOMAIN rs = {}
            BY <2>3
        <3> HIDE DEF e
        <3> QED
            BY <3>1, <3>2
    <2>5. ShownIn(rows', x, y) = 0 /\ SumFunctionOnSet(Sent(heap, x, y), {}) = 0
        BY <2>4, SumEmpty
    <2>6. ShownIn(rows', x, y) \in Int /\ ShownIn(rows', x, y) <= SumFunctionOnSet(Sent(heap, x, y), {})
        BY <2>5
    <2> QED
        BY <2>6
<1>4. CASE head \notin Ends
    <2>1. PICK k, s : Whole(s, k)
        BY <1>2, <1>4, WholeList
    <2>2. /\ k \in 1 .. Len(heap) /\ s \in [1 .. k -> DOMAIN heap] /\ k \in Nat
          /\ List = s /\ Len(List) = k /\ NoneTwice(s, k)
        BY <1>2, <2>1 DEF Whole, Chain, NoneTwice
    <2>3. \A i \in 1 .. k : s[i] > q
        BY <1>2, <2>1, WholeBeyond
    <2> DEFINE r == Min({DisplayRows, k})
    <2>4. r \in 0 .. k
        BY <2>2, MinOfTwo, ArgumentsAssumption
    <2>5. room = SubSeq(s, 1, r)
        BY <2>2
    <2> HIDE DEF r, room
    <2>6. room = [i \in 1 .. r |-> s[i]]
        <3>1. s \in Seq(DOMAIN heap) /\ Len(s) = k
            BY <2>2
        <3> QED
            BY <2>2, <2>4, <2>5, <3>1
    <2>7. DOMAIN new = 1 .. r /\ new = [i \in 1 .. r |-> Row(s[i])]
        BY <2>6
    <2> HIDE DEF new
    <2>8. Reports(new, s, k)
        BY <1>2, <2>2, <2>4, <2>7, RowsOf
    <2>9. Nodes(s, k) \in SUBSET DOMAIN heap /\ \A m \in Nodes(s, k) : m > q
        BY <2>2, <2>3 DEF Nodes
    <2>10. /\ ShownIn(rows', x, y) \in Int
           /\ ShownIn(rows', x, y) <= SumFunctionOnSet(Sent(heap, x, y), Nodes(s, k))
        BY <1>1, <2>8 DEF Reports
    <2> QED
        BY <2>9, <2>10
<1> QED
    BY <1>3, <1>4

(* What these nodes and the first q count together is captured. *)
LEMMA NewOnesBounded ==
    ASSUME IInv, NEW q \in Nat, Dropped(q), NEW x \in Endpoints, NEW y \in Endpoints,
           NEW S \in SUBSET DOMAIN heap, \A m \in S : m > q
    PROVE  /\ SumFunctionOnSet(Sent(heap, x, y), S) + since[<<x, y>>] <= captured[<<x, y>>]
           /\ SumFunctionOnSet(Sent(heap, x, y), S) \in Int /\ since[<<x, y>>] \in Int
<1> DEFINE f == Sent(heap, x, y)
           D == DOMAIN heap
           O == 1 .. q
<1>1. Typed(heap) /\ Len(heap) \in Nat /\ D = 1 .. Len(heap)
    BY TypeParts, TypedNode DEF IInv
<1>2. IsFiniteSet(D) /\ \A m \in D : f[m] \in Nat
    BY <1>1, CounterTypes
<1>3. O \in SUBSET D /\ S \in SUBSET (D \ O)
    BY <1>1 DEF Dropped
<1>4. SumFunctionOnSet(f, D) = captured[<<x, y>>]
    BY DEF IInv, Histories, Counted, Flow
<1>5. SumFunctionOnSet(f, O) = since[<<x, y>>]
    BY DEF Dropped
<1> HIDE DEF f, D, O
<1>6. IsFiniteSet(D \ O) /\ IsFiniteSet(O) /\ IsFiniteSet(S)
    BY <1>2, <1>3, FS_Subset
<1>7. \A m \in D : f[m] \in Int
    BY <1>2
<1>8. SumFunctionOnSet(f, D) = SumFunctionOnSet(f, O) + SumFunctionOnSet(f, D \ O)
    BY <1>2, <1>3, <1>7, SumApart
<1>9. SumFunctionOnSet(f, S) <= SumFunctionOnSet(f, D \ O)
    BY <1>2, <1>3, <1>6, SumOfPart
<1>10. /\ SumFunctionOnSet(f, S) \in Int /\ SumFunctionOnSet(f, O) \in Int
       /\ SumFunctionOnSet(f, D \ O) \in Int
    BY <1>3, <1>6, <1>7, SumType
<1>11. SumFunctionOnSet(f, S) + since[<<x, y>>] <= captured[<<x, y>>]
    BY <1>4, <1>5, <1>8, <1>9, <1>10
<1> QED
    BY <1>5, <1>10, <1>11 DEF f

(* A new display shows only the nodes after the first q. *)
LEMMA PrintListNew ==
    ASSUME IInv, PrintList, UNCHANGED since, NEW q \in Nat, Dropped(q)
    PROVE  OnlyNew'
<1> SUFFICES ASSUME display' # "print", NEW x \in Endpoints, NEW y \in Endpoints
             PROVE  BytesShown(x, y)' + since'[<<x, y>>] <= captured'[<<x, y>>]
    BY DEF OnlyNew
<1>1. PICK S \in SUBSET DOMAIN heap :
         /\ \A m \in S : m > q
         /\ ShownIn(rows', x, y) \in Int
         /\ ShownIn(rows', x, y) <= SumFunctionOnSet(Sent(heap, x, y), S)
    BY PrintedRows
<1> DEFINE a == SumFunctionOnSet(Sent(heap, x, y), S)
           b == ShownIn(rows', x, y)
           c == captured[<<x, y>>]
           d == since[<<x, y>>]
<1>2. a + d <= c /\ a \in Int /\ d \in Int
    BY <1>1, NewOnesBounded
<1>3. c \in Nat
    BY SumsAreNumbers DEF IInv
<1>4. BytesShown(x, y)' = b
    BY Zenon DEF BytesShown, ShownIn
<1>6. b \in Int /\ b <= a
    BY <1>1
<1>7. since' = since /\ captured' = captured
    BY DEF PrintList
<1> HIDE DEF a, b, c, d
<1>8. b + d <= c
    BY <1>2, <1>3, <1>6
<1> QED
    BY <1>4, <1>7, <1>8 DEF c, d

(* The first q nodes and what is on the screen, for some q. *)
Replaced == (\E q \in Nat : Dropped(q)) /\ OnlyNew

(* The capture thread shows nothing and replaces no list. *)
LEMMA CaptureReplaced ==
    ASSUME IInv, Replaced, CaptureNext, UNCHANGED since
    PROVE  Replaced'
<1>1. PICK q \in Nat : Dropped(q)
    BY DEF Replaced
<1>2. Typed(heap) /\ q \in 0 .. Len(heap) /\ Len(heap) \in Nat
    BY <1>1, TypeParts, TypedNode DEF IInv, Dropped
<1>4. Dropped(q)'
    <2>1. CASE PacketArrives \/ Unlock
        <3>1. UNCHANGED <<heap, head, node>>
            BY <2>1 DEF PacketArrives, Unlock
        <3> QED
            BY <1>1, <1>2, <3>1, DroppedNext DEF Spares, Dropped
    <2>2. CASE MoveOut \/ LinkPrev \/ LinkNext \/ SetHead
        BY <1>1, <2>2, MoveDropped
    <2>3. CASE GetNode
        BY <1>1, <2>3, GetNodeDropped
    <2>4. CASE SetFirst
        BY <1>1, <2>4, SetFirstDropped
    <2> QED
        BY <2>1, <2>2, <2>3, <2>4 DEF CaptureNext
<1>5. UNCHANGED <<rows, display>>
    BY DEF CaptureNext, PacketArrives, GetNode, SetFirst, MoveOut, LinkPrev, LinkNext, SetHead, Unlock
<1>6. UNCHANGED captured \/ (Inserted /\ c_info \in Packets)
    <2>1. CASE GetNode
        <3>1. c_info \in Packets
            BY <2>1 DEF GetNode, IInv, Phases
        <3> QED
            BY <2>1, <3>1, Zenon DEF GetNode, Crash, counted
    <2>2. CASE SetFirst
        BY <2>2 DEF SetFirst, IInv, Phases
    <2>3. CASE LinkPrev
        BY <2>3 DEF LinkPrev, Crash, counted
    <2>4. CASE PacketArrives \/ MoveOut \/ LinkNext \/ SetHead \/ Unlock
        BY <2>4 DEF PacketArrives, MoveOut, LinkNext, SetHead, Unlock, counted
    <2> QED
        BY <2>1, <2>2, <2>3, <2>4 DEF CaptureNext
<1>7. \A x, y \in Endpoints : captured[<<x, y>>] \in Nat /\ BytesShown(x, y) \in Int
    BY SumsAreNumbers DEF IInv
<1>8. \A x, y \in Endpoints : captured'[<<x, y>>] \in Int /\ captured[<<x, y>>] <= captured'[<<x, y>>]
    <2>1. CASE UNCHANGED captured
        <3>1. \A c \in Nat : c \in Int /\ c <= c
            OBVIOUS
        <3> QED
            BY <1>7, <2>1, <3>1, Zenon
    <2>2. CASE Inserted /\ c_info \in Packets
        <3> SUFFICES ASSUME NEW x \in Endpoints, NEW y \in Endpoints
                     PROVE  captured'[<<x, y>>] \in Int /\ captured[<<x, y>>] <= captured'[<<x, y>>]
            OBVIOUS
        <3>1. captured'[<<x, y>>] = captured[<<x, y>>]
                 + (IF x = c_info.src /\ y = c_info.dst THEN c_info.len ELSE 0)
            BY <2>2, CapturedSum DEF IInv, Histories
        <3>2. c_info.len \in Nat
            BY <2>2, PacketFields
        <3> QED
            BY <1>7, <3>1, <3>2
    <2> QED
        BY <1>6, <2>1, <2>2
<1>9. \A x, y \in Endpoints : since[<<x, y>>] \in Int
    <2>1. {} \in SUBSET DOMAIN heap /\ \A m \in {} : m > q
        OBVIOUS
    <2> QED
        BY <1>1, <2>1, NewOnesBounded
<1>10. OnlyNew'
    <2> SUFFICES ASSUME display' # "print", NEW x \in Endpoints, NEW y \in Endpoints
                 PROVE  BytesShown(x, y)' + since'[<<x, y>>] <= captured'[<<x, y>>]
        BY DEF OnlyNew
    <2> DEFINE b == BytesShown(x, y)
               c == captured[<<x, y>>]
               e == captured'[<<x, y>>]
               d == since[<<x, y>>]
    <2>1. BytesShown(x, y)' = b
        BY <1>5 DEF BytesShown
    <2>2. b + d <= c
        BY <1>5 DEF Replaced, OnlyNew
    <2>3. b \in Int /\ c \in Nat /\ e \in Int /\ d \in Int /\ c <= e
        BY <1>7, <1>8, <1>9
    <2> HIDE DEF b, c, d, e
    <2>4. b + d <= e
        BY <2>2, <2>3
    <2> QED
        BY <2>1, <2>4 DEF d, e
<1> QED
    BY <1>4, <1>10 DEF Replaced

(* init_llist: all the nodes there are become the dropped ones, unless a move  *)
(* that is under way keeps one of them.                                        *)
LEMMA DisplayReplaced ==
    ASSUME IInv, Replaced, DisplayNext
    PROVE  Replaced'
<1>1. PICK q \in Nat : Dropped(q)
    BY DEF Replaced
<1>2. Typed(heap) /\ q \in 0 .. Len(heap) /\ Len(heap) \in Nat /\ DOMAIN heap = 1 .. Len(heap)
    BY <1>1, TypeParts, TypedNode DEF IInv, Dropped
<1>3. CASE PrintList /\ UNCHANGED since
    <2>1. UNCHANGED <<heap, head, node>>
        BY <1>3 DEF PrintList
    <2>2. Dropped(q)'
        BY <1>1, <1>2, <1>3, <2>1, DroppedNext DEF Spares, Dropped
    <2> QED
        BY <1>1, <1>3, <2>2, PrintListNew DEF Replaced
<1>4. CASE FreeList /\ UNCHANGED since
    <2>1. UNCHANGED <<heap, node, rows, captured>> /\ head' \in Ends /\ display # "print"
        BY <1>4 DEF FreeList, counted, Ends
    <2>2. Dropped(q)'
        BY <1>1, <1>2, <1>4, <2>1, DroppedNext DEF Spares, Dropped
    <2>3. OnlyNew'
        BY <1>4, <2>1 DEF Replaced, OnlyNew, BytesShown
    <2> QED
        BY <2>2, <2>3 DEF Replaced
<1>5. CASE ClearList
    <2>1. UNCHANGED <<heap, node, captured>> /\ head' \in Ends /\ display' = "print"
        BY <1>5 DEF ClearList, counted, Ends
    <2>2. OnlyNew'
        BY <2>1 DEF OnlyNew
    <2>3. CASE node = NULL
        <3>1. since' = captured
            BY <1>5, <2>3 DEF ClearList
        <3>2. \A x, y \in Endpoints : SumFunctionOnSet(Sent(heap, x, y), 1 .. Len(heap)) = captured[<<x, y>>]
            BY <1>2 DEF IInv, Histories, Counted, Flow
        <3>3. Beyond(heap, Len(heap)) /\ Len(heap) \in 0 .. Len(heap)
            BY <1>2 DEF Beyond
        <3>4. Dropped(Len(heap))'
            BY <2>1, <2>3, <3>1, <3>2, <3>3 DEF Dropped, Beyond, Sent
        <3> QED
            BY <1>2, <2>1, <2>2, <3>4 DEF Replaced
    <2>4. CASE node # NULL
        <3>1. since' = since
            BY <1>5, <2>4 DEF ClearList
        <3>2. Dropped(q)'
            BY <1>1, <1>2, <2>1, <3>1, DroppedNext DEF Spares, Dropped
        <3> QED
            BY <2>2, <3>2 DEF Replaced
    <2> QED
        BY <2>3, <2>4
<1> QED
    BY <1>3, <1>4, <1>5 DEF DisplayNext

(* At first there are no nodes. *)
LEMMA InitReplaced == Init => Replaced
<1> SUFFICES ASSUME Init PROVE Replaced
    OBVIOUS
<1>1. heap = <<>> /\ Len(heap) = 0 /\ DOMAIN heap = {} /\ 1 .. 0 = {}
    BY DEF Init
<1>2. \A x, y \in Endpoints : SumFunctionOnSet(Sent(heap, x, y), 1 .. 0) = since[<<x, y>>]
    <2> SUFFICES ASSUME NEW x \in Endpoints, NEW y \in Endpoints
                 PROVE  SumFunctionOnSet(Sent(heap, x, y), 1 .. 0) = since[<<x, y>>]
        OBVIOUS
    <2>1. SumFunctionOnSet(Sent(heap, x, y), {}) = 0
        BY SumEmpty
    <2>2. since[<<x, y>>] = 0
        BY DEF Init
    <2> QED
        BY <1>1, <2>1, <2>2
<1>3. Beyond(heap, 0)
    BY <1>1 DEF Beyond
<1>4. Dropped(0)
    BY <1>1, <1>2, <1>3 DEF Dropped, Init, Ends
<1>5. OnlyNew
    BY DEF OnlyNew, Init
<1> QED
    BY <1>4, <1>5 DEF Replaced

(* Every step of the two threads keeps it. *)
LEMMA NextReplaced == IInv /\ Replaced /\ [Next]_vars => Replaced'
<1> SUFFICES ASSUME IInv, Replaced, [Next]_vars
             PROVE  Replaced'
    OBVIOUS
<1>1. CASE UNCHANGED vars
    <2>1. UNCHANGED <<heap, head, node, since, display, rows, captured>>
        BY <1>1 DEF vars
    <2>2. \A q : Dropped(q) => Dropped(q)'
        BY <2>1 DEF Dropped, Beyond, Sent
    <2>3. OnlyNew'
        BY <2>1 DEF Replaced, OnlyNew, BytesShown
    <2> QED
        BY <2>2, <2>3 DEF Replaced
<1> QED
    BY <1>1, CaptureReplaced, DisplayReplaced DEF Next

-----------------------------------------------------------------------------
(* The theorems *)

(* The inductive invariant: whatever the two threads have done so far, the     *)
(* list is at rest, or it is where the steps of a move have left it.           *)
THEOREM Invariance == Spec => []IInv
<1>1. IInv /\ [Next]_vars => IInv'
    BY NextInv
<1> QED
    BY InitInv, <1>1, PTL DEF Spec

(* While nobody holds the mutex the list is at rest.                           *)
LEMMA UnlockedAtRest ==
    ASSUME IInv, ~mutex, capture # "crashed"
    PROVE  AtRest
<1>1. capture = "loop"
    BY DEF IInv, TypeOK, Phases
<1> QED
    BY <1>1 DEF IInv, Moving

(* The invariant implies WellFormed.                                           *)
LEMMA IInvWellFormed == IInv => WellFormed
<1> SUFFICES ASSUME IInv
             PROVE  WellFormed
    OBVIOUS
<1>1. TypeOK
    BY DEF IInv
<1>2. ASSUME cumulative, ~mutex
      PROVE  /\ \A n \in DOMAIN heap : \E i \in DOMAIN List : List[i] = n
             /\ Len(List) = Len(heap)
             /\ \A i \in DOMAIN List :
                   heap[List[i]].prev = IF i = 1 THEN NULL ELSE List[i - 1]
    <2>1. AtRest
        BY <1>2, UnlockedAtRest DEF IInv, Phases
    <2>2. PICK k \in 0 .. Len(heap) : \E s \in [1 .. k -> DOMAIN heap] :
              /\ List = s /\ Len(List) = k /\ DOMAIN List = 1 .. k
              /\ k = Len(heap) /\ Nodes(s, k) = DOMAIN heap
              /\ \A i \in 1 .. k : heap[s[i]].prev = IF i = 1 THEN NULL ELSE s[i - 1]
        BY <1>1, <1>2, <2>1, ListAtRest
    <2> QED
        BY <2>2 DEF Nodes
<1> QED
    BY <1>1, <1>2 DEF WellFormed

(* The invariant implies CountsExact.                                          *)
LEMMA IInvCountsExact == IInv => CountsExact
<1> SUFFICES ASSUME IInv, cumulative, ~mutex, NEW x \in Endpoints, NEW y \in Endpoints
             PROVE  BytesListed(x, y) = captured[<<x, y>>]
    BY DEF CountsExact
<1>1. AtRest
    BY UnlockedAtRest DEF IInv, Phases
<1>2. Range(List) = DOMAIN heap
    BY <1>1, ListAtRest DEF IInv
<1>3. Flow(heap, x, y) = captured[<<x, y>>]
    BY DEF IInv, Histories, Counted
<1> QED
    BY <1>2, <1>3 DEF BytesListed, Flow

(* The invariant implies LossOnlyInGaps.                                       *)
LEMMA IInvLossOnlyInGaps == IInv => LossOnlyInGaps
<1> SUFFICES ASSUME IInv, ~mutex, capture # "crashed"
             PROVE  SumFunction(captured) <= (shown + missed) + Listed
    BY DEF LossOnlyInGaps
<1>1. AtRest /\ TypeOK
    BY UnlockedAtRest DEF IInv
<1>2. Typed(heap) /\ SumFunction(captured) \in Int /\ shown \in Nat /\ missed \in Nat
    BY SumsAreNumbers DEF IInv
<1>3. \E S \in SUBSET DOMAIN heap : Range(List) = S /\ (Settled \/ Pending(S))
    <2>1. PICK k \in 0 .. Len(heap) : \E s \in [1 .. k -> DOMAIN heap] :
              Range(List) = Nodes(s, k) /\ (Settled \/ Pending(Nodes(s, k)))
        BY <1>1, ListAtRest
    <2>2. PICK s \in [1 .. k -> DOMAIN heap] :
              Range(List) = Nodes(s, k) /\ (Settled \/ Pending(Nodes(s, k)))
        BY <2>1
    <2>3. Nodes(s, k) \in SUBSET DOMAIN heap
        BY DEF Nodes
    <2> QED
        BY <2>2, <2>3
<1>4. PICK S \in SUBSET DOMAIN heap : Range(List) = S /\ (Settled \/ Pending(S))
    BY <1>3
<1>5. Listed = Total(heap, S) /\ Total(heap, S) \in Nat
    BY <1>2, <1>4, TotalType DEF Listed, Total
<1> DEFINE c == SumFunction(captured)
           l == Listed
<1>6. l \in Nat /\ c \in Int /\ (c <= shown + missed \/ c <= (shown + missed) + l)
    BY <1>2, <1>4, <1>5 DEF Settled, Pending
<1> HIDE DEF c, l
<1>7. c <= (shown + missed) + l
    BY <1>2, <1>6
<1> QED
    BY <1>7 DEF c, l

(* WellFormed always holds: types, and with -c the list update_node_position   *)
(* leaves between two packets is doubly linked and holds every node, whatever  *)
(* the number of packets, endpoints and moves.                                 *)
THEOREM ListWellFormed == Spec => []WellFormed
BY Invariance, IInvWellFormed, PTL

(* CountsExact always holds: with -c the list counts every byte that           *)
(* insert_communication was given, in the direction it was sent.               *)
THEOREM EveryByteCounted == Spec => []CountsExact
BY Invariance, IInvCountsExact, PTL

(* OneRowPerPair always holds: get_node finds the node of a communication      *)
(* whenever there is one, so print_llist prints no pair twice.                 *)
THEOREM RowsApart == Spec => []OneRowPerPair
<1>1. IInv => OneRowPerPair
    BY DEF IInv, Histories
<1> QED
    BY Invariance, <1>1, PTL

(* The invariants imply NeverOverstates. *)
LEMMA ReplacedNeverOverstates == IInv /\ Replaced => NeverOverstates
<1> SUFFICES ASSUME IInv, Replaced, NEW x \in Endpoints, NEW y \in Endpoints
             PROVE  /\ BytesShown(x, y) <= captured[<<x, y>>]
                    /\ display # "print" => BytesShown(x, y) <= captured[<<x, y>>] - since[<<x, y>>]
    BY DEF NeverOverstates
<1>1. BytesShown(x, y) <= captured[<<x, y>>]
    BY DEF IInv, Histories, NothingAdded
<1> DEFINE b == BytesShown(x, y)
           c == captured[<<x, y>>]
           d == since[<<x, y>>]
<1>2. c \in Nat /\ b \in Int
    BY SumsAreNumbers DEF IInv
<1>3. d \in Int
    <2>1. {} \in SUBSET DOMAIN heap /\ \A q \in Nat : \A m \in {} : m > q
        OBVIOUS
    <2> QED
        BY <2>1, NewOnesBounded DEF Replaced
<1>4. display # "print" => b + d <= c
    BY DEF Replaced, OnlyNew
<1> HIDE DEF b, c, d
<1>5. display # "print" => b <= c - d
    BY <1>2, <1>3, <1>4
<1> QED
    BY <1>1, <1>5 DEF b, c, d

(* NeverOverstates always holds: init_llist may replace the list at any moment *)
(* and no row of print_llist reports more than was captured, nor anything from *)
(* before the list was replaced, unless that interrupted a move.               *)
THEOREM NothingInvented == Spec => []NeverOverstates
<1>1. Spec => []Replaced
    <2>1. IInv /\ Replaced /\ [Next]_vars => Replaced'
        BY NextReplaced
    <2> QED
        BY InitReplaced, Invariance, <2>1, PTL DEF Spec
<1>2. IInv /\ Replaced => NeverOverstates
    BY ReplacedNeverOverstates
<1> QED
    BY Invariance, <1>1, <1>2, PTL

(* LossOnlyInGaps always holds: without -c, what the unprotected init_llist    *)
(* can lose is what came between the display and the reset or was not shown.   *)
THEOREM LossBounded == Spec => []LossOnlyInGaps
BY Invariance, IInvLossOnlyInGaps, PTL
=============================================================================
