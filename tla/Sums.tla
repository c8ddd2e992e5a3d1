---------------------------------- MODULE Sums ----------------------------------
(***************************************************************************)
(* What SumFunctionOnSet and SumFunction of the community modules return   *)
(* for natural numbers: the counters of candidate pairs and comparisons in *)
(* RunLifecycle and WorkPackages are such sums.                            *)
(*                                                                         *)
(* Where an induction over a finite set is needed, FiniteInduction takes   *)
(* the set of the subsets for which the claim holds.                       *)
(***************************************************************************)
EXTENDS Integers, FiniteSets, Functions, FiniteSetTheorems, TLAPS

(* Induction over the subsets of a finite set, the strict subsets first.   *)
LEMMA FiniteInduction ==
    ASSUME NEW S, IsFiniteSet(S), NEW Q,
           \A T \in SUBSET S : (\A U \in SUBSET T : U # T => U \in Q) => T \in Q
    PROVE  S \in Q
<1> DEFINE Bad == (SUBSET S) \ Q
<1>1. IsWellFoundedOn(StrictSubsetOrdering(S), FiniteSubsetsOf(S))
  BY FS_StrictSubsetOrderingWellFounded
<1>2. Bad \subseteq FiniteSubsetsOf(S)
  BY FS_Subset DEF FiniteSubsetsOf
<1>3. SUFFICES ASSUME Bad # {} PROVE FALSE
  OBVIOUS
<1>4. PICK T \in Bad : \A U \in Bad : ~ (<<U, T>> \in StrictSubsetOrdering(S))
  <2> HIDE DEF Bad
  <2> QED BY <1>1, <1>2, <1>3, WFMin
<1>5. \A U \in SUBSET T : U # T => U \in Q
  <2> SUFFICES ASSUME NEW U \in SUBSET T, U # T, U \notin Q PROVE FALSE
    OBVIOUS
  <2>1. U \in Bad
    BY <1>4
  <2>2. <<U, T>> \in StrictSubsetOrdering(S)
    BY <1>4 DEF StrictSubsetOrdering
  <2> QED BY <2>1, <2>2, <1>4
<1> QED BY <1>4, <1>5

(* The element that the sum of a set begins with.                          *)
Chosen(s) == CHOOSE x \in s : TRUE

(* h is the recursive function whose value at S is the sum of f over S.    *)
IsSum(f, S, h) ==
    h = [s \in SUBSET S |-> IF s = {} THEN 0 ELSE f[Chosen(s)] + h[s \ {Chosen(s)}]]

(* What the operators of Functions and Folds unfold to.                    *)
LEMMA SumUnfolds ==
    ASSUME NEW f, NEW S
    PROVE  SumFunctionOnSet(f, S) = (CHOOSE h : IsSum(f, S, h))[S]
BY DEF SumFunctionOnSet, FoldFunctionOnSet, MapThenFoldSet, IsSum, Chosen

(* A function that IsSum describes, at one of its arguments.               *)
LEMMA IsSumAt ==
    ASSUME NEW f, NEW S, NEW h, IsSum(f, S, h), NEW s \in SUBSET S
    PROVE  /\ s = {} => h[s] = 0
           /\ s # {} => h[s] = f[Chosen(s)] + h[s \ {Chosen(s)}]
BY DEF IsSum

(* A nonempty set has its chosen element.                                  *)
LEMMA ChosenIn == ASSUME NEW s, s # {} PROVE Chosen(s) \in s
BY DEF Chosen

(* Two such functions agree wherever both are defined.                     *)
LEMMA IsSumUnique ==
    ASSUME NEW f, NEW S, NEW T, NEW h, NEW k, IsSum(f, S, h), IsSum(f, T, k),
           NEW u, IsFiniteSet(u), u \subseteq S, u \subseteq T
    PROVE  h[u] = k[u]
<1> DEFINE Q == {s \in SUBSET u : h[s] = k[s]}
<1>1. ASSUME NEW s \in SUBSET u, \A v \in SUBSET s : v # s => v \in Q
      PROVE  s \in Q
  <2>1. CASE s = {}
    BY <2>1, IsSumAt
  <2>2. CASE s # {}
    <3>1. s \ {Chosen(s)} \in Q
      BY <2>2, <1>1, ChosenIn
    <3>2. h[s] = f[Chosen(s)] + h[s \ {Chosen(s)}] /\ k[s] = f[Chosen(s)] + k[s \ {Chosen(s)}]
      BY <2>2, IsSumAt
    <3> QED BY <3>1, <3>2
  <2> QED BY <2>1, <2>2
<1>2. u \in Q
  <2> HIDE DEF Q
  <2> QED BY <1>1, FiniteInduction
<1> QED BY <1>2

(* For every finite set there is one.                                      *)
LEMMA IsSumExists ==
    ASSUME NEW f, NEW S, IsFiniteSet(S)
    PROVE  IsSum(f, S, CHOOSE h : IsSum(f, S, h))
<1> DEFINE H(s) == CHOOSE h : IsSum(f, s, h)
           Q == {s \in SUBSET S : IsSum(f, s, H(s))}
<1>1. ASSUME NEW T \in SUBSET S, \A u \in SUBSET T : u # T => u \in Q
      PROVE  T \in Q
  <2> DEFINE Rest(s) == s \ {Chosen(s)}
             h == [s \in SUBSET T |-> IF s = {} THEN 0 ELSE f[Chosen(s)] + H(Rest(s))[Rest(s)]]
  <2>1. ASSUME NEW s \in SUBSET T, s # {}
        PROVE  h[Rest(s)] = H(Rest(s))[Rest(s)]
    <3> DEFINE u == Rest(s)
    <3>1. u \in SUBSET T /\ u # T /\ IsSum(f, u, H(u)) /\ u \in SUBSET u
      <4>1. u \in SUBSET T /\ u # T
        BY <2>1, ChosenIn
      <4> QED BY <4>1, <1>1
    <3>2. CASE u = {}
      <4>1. h[u] = 0
        BY <3>2
      <4>2. H(u)[u] = 0
        <5> HIDE DEF H
        <5> QED BY <3>1, <3>2, IsSumAt
      <4> QED BY <4>1, <4>2
    <3>3. CASE u # {}
      <4> DEFINE v == Rest(u)
      <4>1. v \in SUBSET u /\ v \in SUBSET T /\ v # T /\ IsSum(f, v, H(v)) /\ IsFiniteSet(v)
        <5>1. v \in SUBSET u /\ v \in SUBSET T /\ v # T
          BY <3>1, <3>3, ChosenIn
        <5>2. IsFiniteSet(v)
          BY <5>1, FS_Subset
        <5> QED BY <5>1, <5>2, <1>1
      <4>2. h[u] = f[Chosen(u)] + H(v)[v]
        <5> HIDE DEF H
        <5> QED BY <3>1, <3>3
      <4>3. H(u)[u] = f[Chosen(u)] + H(u)[v]
        <5> HIDE DEF H, u
        <5> QED BY <3>1, <3>3, IsSumAt
      <4>4. H(u)[v] = H(v)[v]
        <5> HIDE DEF H, Rest
        <5> QED BY <3>1, <4>1, IsSumUnique
      <4> QED BY <4>2, <4>3, <4>4
    <3> QED BY <3>2, <3>3
  <2>2. IsSum(f, T, h)
    <3>1. h = [s \in SUBSET T |-> IF s = {} THEN 0 ELSE f[Chosen(s)] + h[Rest(s)]]
      <4> HIDE DEF H, Rest
      <4>1. \A s \in SUBSET T : s # {} => h[Rest(s)] = H(Rest(s))[Rest(s)]
        BY <2>1
      <4> QED BY <4>1
    <3> QED BY <3>1 DEF IsSum
  <2>3. IsSum(f, T, H(T))
    <3> HIDE DEF h
    <3> QED BY <2>2
  <2> QED BY <2>3
<1>2. S \in Q
  <2> HIDE DEF Q
  <2> QED BY <1>1, FiniteInduction
<1> QED BY <1>2

-------------------------------------------------------------------------------
(* Rewriting                                                               *)

(* The sum of nothing.                                                     *)
LEMMA SumEmpty == ASSUME NEW f PROVE SumFunctionOnSet(f, {}) = 0
<1>1. IsFiniteSet({})
  BY FS_EmptySet
<1> QED BY <1>1, SumUnfolds, IsSumExists, IsSumAt

(* The sum of a nonempty set begins with its chosen element.               *)
LEMMA SumBegins ==
    ASSUME NEW f, NEW S, IsFiniteSet(S), S # {}
    PROVE  SumFunctionOnSet(f, S) = f[Chosen(S)] + SumFunctionOnSet(f, S \ {Chosen(S)})
<1> DEFINE H(s) == CHOOSE h : IsSum(f, s, h)
           T == S \ {Chosen(S)}
<1>1. IsFiniteSet(T) /\ T \subseteq S
  BY FS_Subset
<1>2. IsSum(f, S, H(S)) /\ IsSum(f, T, H(T))
  <2> HIDE DEF T
  <2> QED BY <1>1, IsSumExists
<1>3. H(S)[S] = f[Chosen(S)] + H(S)[T]
  <2> HIDE DEF H
  <2> QED BY <1>2, IsSumAt
<1>4. H(S)[T] = H(T)[T]
  <2> HIDE DEF H, T
  <2> QED BY <1>1, <1>2, IsSumUnique
<1>5. SumFunctionOnSet(f, S) = H(S)[S] /\ SumFunctionOnSet(f, T) = H(T)[T]
  BY SumUnfolds
<1> QED BY <1>3, <1>4, <1>5

(* A sum of natural numbers is one.                                        *)
LEMMA SumType ==
    ASSUME NEW f, NEW S, IsFiniteSet(S), \A x \in S : f[x] \in Nat
    PROVE  SumFunctionOnSet(f, S) \in Nat
<1> DEFINE Q == {s \in SUBSET S : SumFunctionOnSet(f, s) \in Nat}
<1>1. ASSUME NEW T \in SUBSET S, \A U \in SUBSET T : U # T => U \in Q
      PROVE  T \in Q
  <2>1. CASE T = {}
    BY <2>1, SumEmpty
  <2>2. CASE T # {}
    <3>1. IsFiniteSet(T)
      BY FS_Subset
    <3>2. T \ {Chosen(T)} \in Q /\ f[Chosen(T)] \in Nat
      BY <2>2, <1>1, ChosenIn
    <3> QED BY <2>2, <3>1, <3>2, SumBegins
  <2> QED BY <2>1, <2>2
<1>2. S \in Q
  <2> HIDE DEF Q
  <2> QED BY <1>1, FiniteInduction
<1> QED BY <1>2

(* Any element may be taken first.                                         *)
LEMMA SumRemove ==
    ASSUME NEW f, NEW S, IsFiniteSet(S), \A y \in S : f[y] \in Nat, NEW x \in S
    PROVE  SumFunctionOnSet(f, S) = f[x] + SumFunctionOnSet(f, S \ {x})
<1> DEFINE Sum(s) == SumFunctionOnSet(f, s)
           Q == {s \in SUBSET S : \A y \in s : Sum(s) = f[y] + Sum(s \ {y})}
<1>1. ASSUME NEW T \in SUBSET S, \A U \in SUBSET T : U # T => U \in Q
      PROVE  T \in Q
  <2> SUFFICES ASSUME NEW y \in T PROVE Sum(T) = f[y] + Sum(T \ {y})
    OBVIOUS
  <2> DEFINE c == Chosen(T)
  <2>1. c \in T /\ IsFiniteSet(T) /\ IsFiniteSet(T \ {y}) /\ IsFiniteSet((T \ {c}) \ {y})
    BY ChosenIn, FS_Subset
  <2>2. Sum(T) = f[c] + Sum(T \ {c})
    BY <2>1, SumBegins
  <2>3. CASE c = y
    BY <2>2, <2>3
  <2>4. CASE c # y
    <3>1. T \ {c} \in Q /\ T \ {y} \in Q
      <4>1. T \ {c} \in SUBSET T /\ T \ {c} # T /\ T \ {y} \in SUBSET T /\ T \ {y} # T
        BY <2>1
      <4> HIDE DEF Q, c
      <4> QED BY <4>1, <1>1
    <3>2. Sum(T \ {c}) = f[y] + Sum((T \ {c}) \ {y})
      BY <2>4, <3>1
    <3>3. Sum(T \ {y}) = f[c] + Sum((T \ {y}) \ {c})
      BY <2>4, <2>1, <3>1
    <3>4. (T \ {c}) \ {y} = (T \ {y}) \ {c}
      OBVIOUS
    <3>5. Sum((T \ {c}) \ {y}) \in Nat /\ f[c] \in Nat /\ f[y] \in Nat
      <4>1. \A z \in (T \ {c}) \ {y} : f[z] \in Nat
        OBVIOUS
      <4> QED BY <4>1, <2>1, SumType
    <3> HIDE DEF Sum, c
    <3> QED BY <2>2, <3>2, <3>3, <3>4, <3>5
  <2> QED BY <2>3, <2>4
<1>2. S \in Q
  <2> HIDE DEF Q
  <2> QED BY <1>1, FiniteInduction
<1> QED BY <1>2

(* A new element adds its value.                                           *)
LEMMA SumAdd ==
    ASSUME NEW f, NEW S, IsFiniteSet(S), \A y \in S : f[y] \in Nat,
           NEW x, x \notin S, f[x] \in Nat
    PROVE  SumFunctionOnSet(f, S \cup {x}) = f[x] + SumFunctionOnSet(f, S)
<1>1. IsFiniteSet(S \cup {x}) /\ \A y \in S \cup {x} : f[y] \in Nat
  BY FS_AddElement
<1>2. SumFunctionOnSet(f, S \cup {x}) = f[x] + SumFunctionOnSet(f, (S \cup {x}) \ {x})
  BY <1>1, SumRemove
<1>3. (S \cup {x}) \ {x} = S
  OBVIOUS
<1> QED BY <1>2, <1>3

(* Functions with the same values have the same sum.                       *)
LEMMA SumSame ==
    ASSUME NEW f, NEW g, NEW S, IsFiniteSet(S), \A x \in S : f[x] = g[x]
    PROVE  SumFunctionOnSet(f, S) = SumFunctionOnSet(g, S)
<1> DEFINE Q == {s \in SUBSET S : SumFunctionOnSet(f, s) = SumFunctionOnSet(g, s)}
<1>1. ASSUME NEW T \in SUBSET S, \A U \in SUBSET T : U # T => U \in Q
      PROVE  T \in Q
  <2>1. CASE T = {}
    BY <2>1, SumEmpty
  <2>2. CASE T # {}
    <3>1. IsFiniteSet(T)
      BY FS_Subset
    <3>2. T \ {Chosen(T)} \in Q /\ f[Chosen(T)] = g[Chosen(T)]
      BY <2>2, <1>1, ChosenIn
    <3>3. SumFunctionOnSet(f, T) = f[Chosen(T)] + SumFunctionOnSet(f, T \ {Chosen(T)})
      BY <2>2, <3>1, SumBegins
    <3>4. SumFunctionOnSet(g, T) = g[Chosen(T)] + SumFunctionOnSet(g, T \ {Chosen(T)})
      BY <2>2, <3>1, SumBegins
    <3> QED BY <3>2, <3>3, <3>4
  <2> QED BY <2>1, <2>2
<1>2. S \in Q
  <2> HIDE DEF Q
  <2> QED BY <1>1, FiniteInduction
<1> QED BY <1>2

-------------------------------------------------------------------------------
(* Comparing                                                               *)

(* The sums of two disjoint sets.                                          *)
LEMMA SumDisjoint ==
    ASSUME NEW f, NEW S, NEW T, IsFiniteSet(S), IsFiniteSet(T), S \cap T = {},
           \A x \in S \cup T : f[x] \in Nat
    PROVE  SumFunctionOnSet(f, S \cup T) = SumFunctionOnSet(f, S) + SumFunctionOnSet(f, T)
<1> DEFINE Sum(s) == SumFunctionOnSet(f, s)
           Q == {s \in SUBSET T : Sum(S \cup s) = Sum(S) + Sum(s)}
<1>1. Sum(S) \in Nat
  BY SumType
<1>2. ASSUME NEW U \in SUBSET T, \A V \in SUBSET U : V # U => V \in Q
      PROVE  U \in Q
  <2>1. CASE U = {}
    <3>1. S \cup U = S
      BY <2>1
    <3>2. Sum(U) = 0
      BY <2>1, SumEmpty
    <3>3. Sum(S \cup U) = Sum(S)
      BY <3>1
    <3>4. Sum(S \cup U) = Sum(S) + Sum(U)
      <4> HIDE DEF Sum
      <4> QED BY <3>2, <3>3, <1>1
    <3> QED BY <3>4
  <2>2. CASE U # {}
    <3> DEFINE c == Chosen(U)
               V == U \ {c}
    <3>1. c \in U /\ c \notin S /\ c \notin V /\ V \in SUBSET U /\ V # U
      BY <2>2, ChosenIn
    <3>2. IsFiniteSet(V) /\ IsFiniteSet(S \cup V)
      BY <3>1, FS_Subset, FS_Union
    <3>3. V \in Q /\ f[c] \in Nat
      BY <3>1, <1>2
    <3>4. S \cup U = (S \cup V) \cup {c} /\ U = V \cup {c}
      BY <3>1
    <3>5. Sum(S \cup U) = f[c] + Sum(S \cup V) /\ Sum(U) = f[c] + Sum(V) /\ Sum(V) \in Nat
      <4>1. c \notin S \cup V /\ (\A x \in S \cup V : f[x] \in Nat) /\ (\A x \in V : f[x] \in Nat)
        BY <3>1
      <4> HIDE DEF c, V
      <4>2. Sum((S \cup V) \cup {c}) = f[c] + Sum(S \cup V)
        BY <4>1, <3>2, <3>3, SumAdd
      <4>3. Sum(V \cup {c}) = f[c] + Sum(V)
        BY <4>1, <3>1, <3>2, <3>3, SumAdd
      <4>4. Sum(V) \in Nat
        BY <4>1, <3>2, SumType
      <4> QED BY <4>2, <4>3, <4>4, <3>4
    <3>6. Sum(S \cup V) = Sum(S) + Sum(V)
      BY <3>3
    <3>7. Sum(S \cup U) = Sum(S) + Sum(U)
      <4> HIDE DEF Sum, c, V
      <4> QED BY <3>3, <3>5, <3>6, <1>1
    <3> QED BY <3>7
  <2> QED BY <2>1, <2>2
<1>3. T \in Q
  <2> HIDE DEF Q
  <2> QED BY <1>2, FiniteInduction
<1> QED BY <1>3

(* The sum of a part is at most that of the whole.                         *)
LEMMA SumSubset ==
    ASSUME NEW f, NEW S, IsFiniteSet(S), \A x \in S : f[x] \in Nat, NEW T \in SUBSET S
    PROVE  SumFunctionOnSet(f, T) <= SumFunctionOnSet(f, S)
<1>1. IsFiniteSet(T) /\ IsFiniteSet(S \ T) /\ T \cup (S \ T) = S /\ T \cap (S \ T) = {}
  BY FS_Subset
<1>2. SumFunctionOnSet(f, S) = SumFunctionOnSet(f, T) + SumFunctionOnSet(f, S \ T)
  <2>1. SumFunctionOnSet(f, T \cup (S \ T)) = SumFunctionOnSet(f, T) + SumFunctionOnSet(f, S \ T)
    BY <1>1, SumDisjoint
  <2> QED BY <2>1, <1>1
<1>3. SumFunctionOnSet(f, T) \in Nat /\ SumFunctionOnSet(f, S \ T) \in Nat
  BY <1>1, SumType
<1> QED BY <1>2, <1>3

(* A sum is zero if all its values are, and only then.                     *)
LEMMA SumZero ==
    ASSUME NEW f, NEW S, IsFiniteSet(S), \A x \in S : f[x] \in Nat
    PROVE  SumFunctionOnSet(f, S) = 0 <=> \A x \in S : f[x] = 0
<1>1. ASSUME NEW x \in S, f[x] # 0 PROVE SumFunctionOnSet(f, S) # 0
  <2>1. SumFunctionOnSet(f, S) = f[x] + SumFunctionOnSet(f, S \ {x})
    BY SumRemove
  <2>2. SumFunctionOnSet(f, S \ {x}) \in Nat
    <3>1. IsFiniteSet(S \ {x}) /\ \A y \in S \ {x} : f[y] \in Nat
      BY FS_Subset
    <3> QED BY <3>1, SumType
  <2> QED BY <2>1, <2>2, <1>1
<1>2. ASSUME \A x \in S : f[x] = 0 PROVE SumFunctionOnSet(f, S) = 0
  <2> DEFINE Q == {s \in SUBSET S : SumFunctionOnSet(f, s) = 0}
  <2>1. ASSUME NEW T \in SUBSET S, \A U \in SUBSET T : U # T => U \in Q
        PROVE  T \in Q
    <3>1. CASE T = {}
      BY <3>1, SumEmpty
    <3>2. CASE T # {}
      <4>1. IsFiniteSet(T)
        BY FS_Subset
      <4>2. T \ {Chosen(T)} \in Q /\ f[Chosen(T)] = 0
        BY <3>2, <2>1, <1>2, ChosenIn
      <4> QED BY <3>2, <4>1, <4>2, SumBegins
    <3> QED BY <3>1, <3>2
  <2>2. S \in Q
    <3> HIDE DEF Q
    <3> QED BY <2>1, FiniteInduction
  <2> QED BY <2>2
<1> QED BY <1>1, <1>2

-------------------------------------------------------------------------------
(* Counting                                                                *)

(* The values of a function on a finite set.                               *)
LEMMA FiniteImage ==
    ASSUME NEW S, IsFiniteSet(S), NEW f
    PROVE  IsFiniteSet({f[x] : x \in S})
<1> DEFINE g == [x \in S |-> f[x]]
           T == {f[x] : x \in S}
<1>1. g \in Surjection(S, T)
  BY DEF Surjection
<1> HIDE DEF g, T
<1>2. IsFiniteSet(T)
  BY <1>1, FS_Surjection
<1> QED BY <1>2 DEF T

(* The union of disjoint finite sets has as many elements as they have     *)
(* together.                                                               *)
LEMMA UnionCardinality ==
    ASSUME NEW S, IsFiniteSet(S), NEW F, \A x \in S : IsFiniteSet(F[x]),
           \A x, y \in S : x # y => F[x] \cap F[y] = {}
    PROVE  /\ IsFiniteSet(UNION {F[x] : x \in S})
           /\ Cardinality(UNION {F[x] : x \in S})
                 = SumFunctionOnSet([x \in S |-> Cardinality(F[x])], S)
<1> DEFINE All(s) == UNION {F[x] : x \in s}
           g == [x \in S |-> Cardinality(F[x])]
           Q == {s \in SUBSET S : /\ IsFiniteSet(All(s))
                                 /\ Cardinality(All(s)) = SumFunctionOnSet(g, s)}
<1>1. \A x \in S : g[x] = Cardinality(F[x]) /\ g[x] \in Nat
  BY FS_CardinalityType
<1>2. ASSUME NEW T \in SUBSET S, \A U \in SUBSET T : U # T => U \in Q
      PROVE  T \in Q
  <2>1. CASE T = {}
    <3>1. All(T) = {}
      BY <2>1
    <3> HIDE DEF All, g
    <3> QED BY <2>1, <3>1, SumEmpty, FS_EmptySet
  <2>2. CASE T # {}
    <3> DEFINE c == Chosen(T)
               V == T \ {c}
    <3>1. c \in T /\ c \in S /\ V \in Q /\ IsFiniteSet(T)
      <4>1. c \in T
        BY <2>2, ChosenIn
      <4>2. V \in SUBSET T /\ V # T
        BY <4>1
      <4> HIDE DEF Q, V, c
      <4> QED BY <4>1, <4>2, <1>2, FS_Subset
    <3>2. All(T) = F[c] \cup All(V) /\ F[c] \cap All(V) = {}
      BY <3>1
    <3>3. IsFiniteSet(F[c]) /\ IsFiniteSet(All(V)) /\ Cardinality(All(V)) = SumFunctionOnSet(g, V)
      BY <3>1
    <3>4. /\ IsFiniteSet(F[c] \cup All(V))
          /\ Cardinality(F[c] \cup All(V)) = Cardinality(F[c]) + Cardinality(All(V))
      <4> HIDE DEF All, c, V, g
      <4>1. Cardinality(F[c] \cap All(V)) = 0
        BY <3>2, FS_EmptySet
      <4>2. Cardinality(F[c]) \in Nat /\ Cardinality(All(V)) \in Nat
        BY <3>3, FS_CardinalityType
      <4>3. /\ IsFiniteSet(F[c] \cup All(V))
            /\ Cardinality(F[c] \cup All(V))
                  = Cardinality(F[c]) + Cardinality(All(V)) - Cardinality(F[c] \cap All(V))
        BY <3>3, FS_Union, Zenon
      <4> QED BY <4>1, <4>2, <4>3
    <3>5. SumFunctionOnSet(g, T) = g[c] + SumFunctionOnSet(g, V)
      <4> HIDE DEF g, All
      <4> QED BY <2>2, <3>1, SumBegins
    <3>6. g[c] = Cardinality(F[c])
      BY <3>1, <1>1
    <3>7. IsFiniteSet(All(T)) /\ Cardinality(All(T)) = SumFunctionOnSet(g, T)
      <4> HIDE DEF All, c, V, g
      <4> QED BY <3>2, <3>3, <3>4, <3>5, <3>6
    <3> QED BY <3>7
  <2> QED BY <2>1, <2>2
<1>3. S \in Q
  <2> HIDE DEF Q
  <2> QED BY <1>2, FiniteInduction
<1> QED BY <1>3

=================================================================================
