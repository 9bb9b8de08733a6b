------------------------------ MODULE SumLemmas ------------------------------
(***************************************************************************)
(* Sums over finite sets, for the budgets of this project: the reservations*)
(* of a team plan (Coordination) and the runs of a follow-up's period      *)
(* (Followups) are added up with SumFunctionOnSet of the module Functions. *)
(*                                                                         *)
(* That operator folds a set in the order its CHOOSE takes the elements in.*)
(* The lemmas at the end say what the budgets rest on: the sum is a      *)
(* natural number, it takes one summand more with one element more,        *)
(* whichever element that is, and it grows with its summands and its set.  *)
(*                                                                         *)
(* Inductions are over a set of numbers, or of sets, that contains the     *)
(* first and with each one the next; they rest on the fact that every set  *)
(* of naturals has a least element.                                        *)
(***************************************************************************)
EXTENDS Integers, FiniteSets, Functions, FiniteSetTheorems, WellFoundedInduction, TLAPS

----------------------------------------------------------------------------
(* Induction, for a set of numbers and for a set of sets *)

(* A set of numbers that is not empty has a least one. *)
LEMMA LeastNumber ==
  ASSUME NEW S \in SUBSET Nat, S # {}
  PROVE  \E m \in S : \A n \in S : m <= n
<1>1. \E x \in S : \A y \in S : ~(<<y, x>> \in OpToRel(<, Nat))
  BY NatLessThanWellFounded, WFMin
<1>2. PICK x \in S : \A y \in S : ~(<<y, x>> \in OpToRel(<, Nat))
  BY <1>1
<1>3. ASSUME NEW y \in S PROVE x <= y
  <2>1. ~(y < x)
    BY <1>2, <1>3 DEF OpToRel
  <2> QED
    BY <2>1
<1> QED
  BY <1>3

(* A set that has 0, and with each number the next, has all of them. *)
LEMMA AllNumbers ==
  ASSUME NEW G, 0 \in G, \A n \in Nat : n \in G => n + 1 \in G
  PROVE  \A n \in Nat : n \in G
<1> DEFINE Bad == Nat \ G
<1> SUFFICES ASSUME Bad # {} PROVE FALSE
  OBVIOUS
<1>1. PICK m \in Bad : \A n \in Bad : m <= n
  BY LeastNumber
<1>2. m \in Nat /\ m # 0 /\ m \notin G
  BY <1>1
<1>3. m - 1 \in Nat /\ ~(m <= m - 1)
  BY <1>2
<1>4. m - 1 \in G
  BY <1>1, <1>3
<1>5. (m - 1) + 1 \in G
  BY <1>3, <1>4
<1> QED
  BY <1>2, <1>5

(* A set of sets that has {}, and with each subset of S those of one element more, *)
(* has S itself.                                                                   *)
LEMMA AllFiniteSets ==
  ASSUME NEW S, IsFiniteSet(S), NEW G, {} \in G,
         \A T \in SUBSET S, x \in S : T \in G /\ x \notin T => T \cup {x} \in G
  PROVE  S \in G
<1> DEFINE N == {n \in Nat : \A T \in SUBSET S : Cardinality(T) = n => T \in G}
<1>1. 0 \in N
  <2>1. ASSUME NEW T \in SUBSET S, Cardinality(T) = 0 PROVE T \in G
    <3>1. IsFiniteSet(T)
      BY FS_Subset
    <3> QED
      BY <3>1, <2>1, FS_EmptySet
  <2> QED
    BY <2>1
<1>2. ASSUME NEW n \in Nat, n \in N PROVE n + 1 \in N
  <2>1. ASSUME NEW T \in SUBSET S, Cardinality(T) = n + 1 PROVE T \in G
    <3>1. IsFiniteSet(T)
      BY FS_Subset
    <3>2. T # {}
      <4>1. n + 1 # 0
        OBVIOUS
      <4>2. Cardinality(T) # 0
        BY <4>1, <2>1
      <4> QED
        BY <4>2, FS_EmptySet
    <3>3. PICK x \in T : TRUE
      BY <3>2
    <3>4. Cardinality(T \ {x}) = n
      <4>1. Cardinality(T \ {x}) = Cardinality(T) - 1
        BY <3>1, <3>3, FS_RemoveElement
      <4> QED
        BY <4>1, <2>1
    <3>5. T \ {x} \in G
      BY <1>2, <3>4
    <3>6. T = (T \ {x}) \cup {x} /\ T \ {x} \in SUBSET S /\ x \in S /\ x \notin T \ {x}
      OBVIOUS
    <3> QED
      BY <3>5, <3>6
  <2> QED
    BY <2>1
<1> HIDE DEF N
<1>3. \A n \in Nat : n \in N
  BY <1>1, <1>2, AllNumbers
<1>4. Cardinality(S) \in Nat
  BY FS_CardinalityType
<1> QED
  BY <1>3, <1>4 DEF N

----------------------------------------------------------------------------
(* The sum, as the fold computes it *)

Any(s) == CHOOSE x \in s : TRUE

(* g[s] is the sum over s, for every subset s of S. *)
Adds(f, S, g) ==
  g = [s \in SUBSET S |-> IF s = {} THEN 0 ELSE f[Any(s)] + g[s \ {Any(s)}]]

(* The fold is such a function, applied to the whole set. *)
LEMMA SumUnfolded ==
  ASSUME NEW f, NEW S
  PROVE  SumFunctionOnSet(f, S) = (CHOOSE g : Adds(f, S, g))[S]
<1>1. SumFunctionOnSet(f, S) =
        (CHOOSE g : g = [s \in SUBSET S |->
                           IF s = {} THEN 0
                           ELSE f[CHOOSE x \in s : TRUE] + g[s \ {CHOOSE x \in s : TRUE}]])[S]
  BY DEF SumFunctionOnSet, FoldFunctionOnSet, MapThenFoldSet
<1> QED
  BY <1>1 DEF Adds, Any

LEMMA AnyElement ==
  ASSUME NEW s, s # {}
  PROVE  Any(s) \in s
BY DEF Any

(* Such a function exists: it can be extended from the sets of up to n elements to *)
(* those of one more.                                                              *)
LEMMA SomethingAdds ==
  ASSUME NEW S, IsFiniteSet(S), NEW f, \A a \in S : f[a] \in Nat
  PROVE  \E g \in [SUBSET S -> Nat] : Adds(f, S, g)
<1> DEFINE Level(n) == {s \in SUBSET S : Cardinality(s) <= n}
           Next(g, s) == IF s = {} THEN 0 ELSE f[Any(s)] + g[s \ {Any(s)}]
           Good == {n \in Nat : \E g \in [Level(n) -> Nat] : \A s \in Level(n) : g[s] = Next(g, s)}
<1>1. \A s \in SUBSET S : IsFiniteSet(s) /\ Cardinality(s) \in Nat
  BY FS_Subset, FS_CardinalityType
<1>2. 0 \in Good
  <2>1. ASSUME NEW s \in Level(0) PROVE s = {}
    BY <1>1, <2>1, FS_EmptySet
  <2> DEFINE g == [s \in Level(0) |-> 0]
  <2>2. g \in [Level(0) -> Nat] /\ \A s \in Level(0) : g[s] = Next(g, s)
    BY <2>1
  <2> QED
    BY <2>2
<1>3. ASSUME NEW n \in Nat, n \in Good PROVE n + 1 \in Good
  <2>1. PICK g \in [Level(n) -> Nat] : \A s \in Level(n) : g[s] = Next(g, s)
    BY <1>3
  <2> DEFINE h == [s \in Level(n + 1) |-> Next(g, s)]
  <2>2. ASSUME NEW s \in Level(n + 1), s # {}
        PROVE  s \ {Any(s)} \in Level(n) /\ Any(s) \in S
    <3>1. Any(s) \in s
      BY <2>2, AnyElement
    <3>2. Cardinality(s \ {Any(s)}) = Cardinality(s) - 1
      BY <3>1, <1>1, FS_RemoveElement
    <3>3. Cardinality(s) \in Nat /\ Cardinality(s) <= n + 1
      BY <1>1
    <3> QED
      BY <3>1, <3>2, <3>3
  <2>3. \A s \in Level(n) : s \in Level(n + 1)
    BY <1>1
  <2>4. \A s \in Level(n) : h[s] = g[s]
    BY <2>1, <2>3
  <2>5. ASSUME NEW s \in Level(n + 1) PROVE h[s] = Next(h, s) /\ h[s] \in Nat
    <3>1. CASE s = {}
      BY <3>1
    <3>2. CASE s # {}
      <4>1. s \ {Any(s)} \in Level(n) /\ Any(s) \in S
        BY <2>2, <3>2
      <4>2. h[s] = f[Any(s)] + g[s \ {Any(s)}]
        BY <3>2
      <4>3. Next(h, s) = f[Any(s)] + h[s \ {Any(s)}]
        BY <3>2
      <4>4. h[s \ {Any(s)}] = g[s \ {Any(s)}] /\ g[s \ {Any(s)}] \in Nat
        BY <4>1, <2>4
      <4> HIDE DEF h, Next
      <4>5. f[Any(s)] \in Nat
        BY <4>1
      <4> QED
        BY <4>2, <4>3, <4>4, <4>5
    <3> QED
      BY <3>1, <3>2
  <2>6. h \in [Level(n + 1) -> Nat]
    <3>1. h = [s \in Level(n + 1) |-> h[s]]
      OBVIOUS
    <3> HIDE DEF h
    <3> QED
      BY <3>1, <2>5
  <2> HIDE DEF h
  <2>7. \E k \in [Level(n + 1) -> Nat] : \A s \in Level(n + 1) : k[s] = Next(k, s)
    BY <2>5, <2>6
  <2> HIDE DEF Level, Next
  <2>8. n + 1 \in Nat
    OBVIOUS
  <2> QED
    BY <2>7, <2>8
<1> HIDE DEF Good
<1>4. \A n \in Nat : n \in Good
  BY <1>2, <1>3, AllNumbers
<1>5. Cardinality(S) \in Nat /\ Cardinality(S) \in Good
  BY <1>4, FS_CardinalityType
<1>6. Level(Cardinality(S)) = SUBSET S
  BY FS_Subset
<1>7. PICK g \in [SUBSET S -> Nat] : \A s \in SUBSET S : g[s] = Next(g, s)
  BY <1>5, <1>6 DEF Good
<1>8. g = [s \in SUBSET S |-> Next(g, s)]
  BY <1>7
<1>9. Adds(f, S, g)
  BY <1>8 DEF Adds
<1> QED
  BY <1>9

(* There is only one, on the subsets of a smaller set too. *)
LEMMA OnlyOneAdds ==
  ASSUME NEW S, IsFiniteSet(S), NEW T \in SUBSET S, NEW f,
         NEW g, Adds(f, S, g), NEW k, Adds(f, T, k)
  PROVE  \A s \in SUBSET T : g[s] = k[s]
<1> DEFINE Same == {n \in Nat : \A s \in SUBSET T : Cardinality(s) = n => g[s] = k[s]}
<1>1. \A s \in SUBSET T : IsFiniteSet(s) /\ Cardinality(s) \in Nat
  BY FS_Subset, FS_CardinalityType
<1>2. \A s \in SUBSET T :
        /\ g[s] = IF s = {} THEN 0 ELSE f[Any(s)] + g[s \ {Any(s)}]
        /\ k[s] = IF s = {} THEN 0 ELSE f[Any(s)] + k[s \ {Any(s)}]
  BY DEF Adds
<1>3. 0 \in Same
  <2>1. ASSUME NEW s \in SUBSET T, Cardinality(s) = 0 PROVE g[s] = k[s]
    <3>1. s = {}
      BY <1>1, <2>1, FS_EmptySet
    <3> QED
      BY <1>2, <3>1
  <2> QED
    BY <2>1
<1>4. ASSUME NEW n \in Nat, n \in Same PROVE n + 1 \in Same
  <2>1. ASSUME NEW s \in SUBSET T, Cardinality(s) = n + 1 PROVE g[s] = k[s]
    <3>1. n + 1 # 0
      OBVIOUS
    <3>2. Cardinality(s) # 0
      BY <3>1, <2>1
    <3>3. s # {}
      BY <3>2, FS_EmptySet
    <3> DEFINE t == s \ {Any(s)}
    <3>4. Any(s) \in s
      BY <3>3, AnyElement
    <3>5. Cardinality(t) = Cardinality(s) - 1
      BY <3>4, <1>1, FS_RemoveElement
    <3>6. t \in SUBSET T /\ Cardinality(t) = n
      BY <3>5, <2>1
    <3>7. g[t] = k[t]
      BY <3>6, <1>4
    <3> QED
      BY <3>3, <3>7, <1>2
  <2> QED
    BY <2>1
<1> HIDE DEF Same
<1>5. \A n \in Nat : n \in Same
  BY <1>3, <1>4, AllNumbers
<1> QED
  BY <1>1, <1>5 DEF Same

(* The sum obeys the equation it is defined by. *)
LEMMA SumEquation ==
  ASSUME NEW S, IsFiniteSet(S), NEW f, \A a \in S : f[a] \in Nat
  PROVE  /\ SumFunctionOnSet(f, S) \in Nat
         /\ SumFunctionOnSet(f, S) =
              IF S = {} THEN 0 ELSE f[Any(S)] + SumFunctionOnSet(f, S \ {Any(S)})
<1> DEFINE g == CHOOSE g : Adds(f, S, g)
<1>1. \E x : Adds(f, S, x)
  BY SomethingAdds
<1>2. Adds(f, S, g)
  BY <1>1
<1>3. PICK x \in [SUBSET S -> Nat] : Adds(f, S, x)
  BY SomethingAdds
<1>4. SumFunctionOnSet(f, S) = g[S]
  BY SumUnfolded
<1> HIDE DEF g
<1>5. g[S] = x[S]
  BY <1>2, <1>3, OnlyOneAdds
<1>6. g[S] = IF S = {} THEN 0 ELSE f[Any(S)] + g[S \ {Any(S)}]
  BY <1>2 DEF Adds
<1>7. ASSUME S # {} PROVE SumFunctionOnSet(f, S \ {Any(S)}) = g[S \ {Any(S)}]
  <2> DEFINE T == S \ {Any(S)}
             k == CHOOSE k : Adds(f, T, k)
  <2>1. IsFiniteSet(T) /\ T \in SUBSET S
    BY FS_Subset
  <2>2. \E y : Adds(f, T, y)
    BY <2>1, SomethingAdds
  <2>3. Adds(f, T, k)
    BY <2>2
  <2>4. SumFunctionOnSet(f, T) = k[T]
    BY SumUnfolded
  <2> HIDE DEF k, T
  <2>5. g[T] = k[T]
    BY <1>2, <2>1, <2>3, OnlyOneAdds
  <2> QED
    BY <2>4, <2>5 DEF T
<1> QED
  BY <1>4, <1>5, <1>6, <1>7

----------------------------------------------------------------------------
(* What the budgets rest on *)

(* Nothing adds up to 0: a budget that reserves nothing is free. *)
LEMMA SumOfNothing ==
  ASSUME NEW f
  PROVE  SumFunctionOnSet(f, {}) = 0
<1>1. IsFiniteSet({})
  BY FS_EmptySet
<1> QED
  BY <1>1, SumEquation

(* Natural summands have a natural sum. *)
LEMMA SumIsNatural ==
  ASSUME NEW S, IsFiniteSet(S), NEW f, \A a \in S : f[a] \in Nat
  PROVE  SumFunctionOnSet(f, S) \in Nat
BY SumEquation

(* Whichever element the fold takes first, the sum is the same. *)
LEMMA SumWithout ==
  ASSUME NEW S, IsFiniteSet(S), NEW f, \A a \in S : f[a] \in Nat, NEW x \in S
  PROVE  SumFunctionOnSet(f, S) = f[x] + SumFunctionOnSet(f, S \ {x})
<1> DEFINE Sum(T) == SumFunctionOnSet(f, T)
           Splits == {n \in Nat : \A T \in SUBSET S : Cardinality(T) = n =>
                                     \A a \in T : Sum(T) = f[a] + Sum(T \ {a})}
<1>1. \A T \in SUBSET S : IsFiniteSet(T) /\ Cardinality(T) \in Nat
  BY FS_Subset, FS_CardinalityType
<1>2. \A T \in SUBSET S : Sum(T) \in Nat /\ (T # {} => Sum(T) = f[Any(T)] + Sum(T \ {Any(T)}))
  BY <1>1, SumEquation
<1>3. 0 \in Splits
  <2>1. ASSUME NEW T \in SUBSET S, Cardinality(T) = 0 PROVE T = {}
    BY <1>1, <2>1, FS_EmptySet
  <2> QED
    BY <2>1
<1> HIDE DEF Sum
<1>4. ASSUME NEW n \in Nat, n \in Splits PROVE n + 1 \in Splits
  <2>1. ASSUME NEW T \in SUBSET S, Cardinality(T) = n + 1, NEW a \in T
        PROVE  Sum(T) = f[a] + Sum(T \ {a})
    <3> DEFINE c == Any(T)
    <3>1. c \in T /\ T # {}
      BY AnyElement
    <3>2. Sum(T) = f[c] + Sum(T \ {c})
      BY <1>2, <3>1
    <3> HIDE DEF c
    <3>3. CASE a = c
      BY <3>2, <3>3
    <3>4. CASE a # c
      <4>1. Cardinality(T \ {c}) = Cardinality(T) - 1 /\ Cardinality(T \ {a}) = Cardinality(T) - 1
        BY <3>1, <1>1, FS_RemoveElement
      <4>2. Cardinality(T \ {c}) = n /\ Cardinality(T \ {a}) = n
        BY <4>1, <2>1
      <4>3. Sum(T \ {c}) = f[a] + Sum((T \ {c}) \ {a})
        BY <4>2, <3>4, <1>4
      <4>4. Sum(T \ {a}) = f[c] + Sum((T \ {a}) \ {c})
        BY <4>2, <3>1, <3>4, <1>4
      <4>5. (T \ {a}) \ {c} = (T \ {c}) \ {a}
        OBVIOUS
      <4>6. Sum((T \ {c}) \ {a}) \in Nat /\ f[a] \in Nat /\ f[c] \in Nat
        BY <1>2, <3>1
      <4> QED
        BY <3>2, <4>3, <4>4, <4>5, <4>6
    <3> QED
      BY <3>3, <3>4
  <2> QED
    BY <2>1
<1>5. \A n \in Nat : n \in Splits
  <2> HIDE DEF Splits
  <2> QED
    BY <1>3, <1>4, AllNumbers
<1>6. Sum(S) = f[x] + Sum(S \ {x})
  <2>1. Cardinality(S) \in Splits
    BY <1>1, <1>5
  <2> QED
    BY <2>1
<1> QED
  BY <1>6 DEF Sum

(* More and larger summands give a larger sum. *)
LEMMA SumIsMonotone ==
  ASSUME NEW S, IsFiniteSet(S), NEW T \in SUBSET S, NEW f, NEW g,
         \A a \in T : f[a] \in Nat /\ f[a] <= g[a],
         \A a \in S : g[a] \in Nat
  PROVE  SumFunctionOnSet(f, T) <= SumFunctionOnSet(g, S)
<1> DEFINE G == {U \in SUBSET S : SumFunctionOnSet(f, U \cap T) <= SumFunctionOnSet(g, U)}
<1>1. {} \in G
  <2>1. {} \cap T = {} /\ {} \in SUBSET S
    OBVIOUS
  <2>2. SumFunctionOnSet(f, {} \cap T) = 0 /\ SumFunctionOnSet(g, {}) = 0
    BY <2>1, SumOfNothing
  <2> QED
    BY <2>1, <2>2
<1>2. ASSUME NEW U \in SUBSET S, NEW x \in S, U \in G, x \notin U PROVE U \cup {x} \in G
  <2> DEFINE V == U \cup {x}
  <2>1. IsFiniteSet(V) /\ IsFiniteSet(U) /\ IsFiniteSet(V \cap T) /\ IsFiniteSet(U \cap T)
        /\ V \in SUBSET S
    BY FS_Subset
  <2>2. V \ {x} = U
    BY <1>2
  <2>3. SumFunctionOnSet(g, V) = g[x] + SumFunctionOnSet(g, U)
    BY <2>1, <2>2, SumWithout
  <2>4. g[x] \in Nat /\ SumFunctionOnSet(g, U) \in Nat /\ SumFunctionOnSet(f, U \cap T) \in Nat
    BY <2>1, SumIsNatural
  <2>5. SumFunctionOnSet(f, U \cap T) <= SumFunctionOnSet(g, U)
    BY <1>2
  <2>6. CASE x \in T
    <3>1. (V \cap T) \ {x} = U \cap T /\ x \in V \cap T
      BY <1>2, <2>6
    <3>2. \A a \in V \cap T : f[a] \in Nat
      OBVIOUS
    <3>3. SumFunctionOnSet(f, V \cap T) = f[x] + SumFunctionOnSet(f, U \cap T)
      BY <2>1, <3>1, <3>2, SumWithout
    <3>4. f[x] \in Nat /\ f[x] <= g[x]
      BY <2>6
    <3>5. SumFunctionOnSet(f, V \cap T) <= SumFunctionOnSet(g, V)
      BY <2>3, <2>4, <2>5, <3>3, <3>4
    <3> QED
      BY <2>1, <3>5
  <2>7. CASE x \notin T
    <3>1. V \cap T = U \cap T
      BY <2>7
    <3>2. SumFunctionOnSet(f, V \cap T) <= SumFunctionOnSet(g, V)
      BY <2>3, <2>4, <2>5, <3>1
    <3> QED
      BY <2>1, <3>2
  <2> QED
    BY <2>6, <2>7
<1>3. S \in G
  <2> HIDE DEF G
  <2> QED
    BY <1>1, <1>2, AllFiniteSets
<1>4. S \cap T = T
  OBVIOUS
<1> QED
  BY <1>3, <1>4
==============================================================================
