----------------------------- MODULE SumProofs -----------------------------
(***************************************************************************)
(* Facts about sums over finite sets, SumFunctionOnSet of the community    *)
(* modules, for every set and every function: the sum does not depend on   *)
(* the order of its terms, it grows by each term that is added, and it is  *)
(* an integer when every term is.  The balances, the caps and the journal  *)
(* of AccountDocuments and Settlement are such sums.                       *)
(***************************************************************************)
EXTENDS Integers, FiniteSets, Functions, FiniteSetTheorems, WellFoundedInduction, TLAPS

-----------------------------------------------------------------------------
(* Induction *)

\* Induction over the naturals, for a set of numbers.
LEMMA CountUp ==
  ASSUME NEW T \in SUBSET Nat, 0 \in T, \A n \in T : n + 1 \in T
  PROVE  T = Nat
<1> DEFINE R == OpToRel(<, Nat)
           Missing == Nat \ T
<1>1. SUFFICES ASSUME Missing # {} PROVE FALSE
  OBVIOUS
<1>2. Missing \subseteq Nat
  OBVIOUS
<1>3. PICK m \in Missing : \A n \in Missing : <<n, m>> \notin R
  <2> HIDE DEF Missing
  <2>1. QED
    BY <1>1, <1>2, NatLessThanWellFounded, WFMin
<1>4. \A n \in Missing : ~(n < m)
  BY <1>3 DEF OpToRel
<1>5. m \in Nat /\ m # 0 /\ m \notin T
  BY <1>3
<1>6. m - 1 \in Nat /\ m - 1 \notin Missing
  BY <1>4, <1>5
<1>7. PICK k \in T : k = m - 1
  BY <1>6
<1>8. k + 1 \in T /\ k + 1 = m
  BY <1>5, <1>7
<1>9. QED
  BY <1>5, <1>8

\* A set of naturals has a least number, a bounded or finite one a greatest.
LEMMA LeastOf ==
  ASSUME NEW S \in SUBSET Nat, S # {}
  PROVE  \E m \in S : \A x \in S : m <= x
<1>1. PICK m \in S : \A x \in S : <<x, m>> \notin OpToRel(<, Nat)
  BY NatLessThanWellFounded, WFMin
<1>2. \A x \in S : ~(x < m)
  BY <1>1 DEF OpToRel
<1> QED
  BY <1>2

LEMMA GreatestOf ==
  ASSUME NEW S \in SUBSET Nat, S # {}, NEW b \in Nat, \A x \in S : x <= b
  PROVE  \E m \in S : \A x \in S : x <= m
<1> DEFINE T == {n \in Nat : \A x \in S : x <= n}
<1>1. T \in SUBSET Nat /\ T # {}
  OBVIOUS
<1>2. PICK m \in T : \A n \in T : m <= n
  BY <1>1, LeastOf
<1>3. m \in Nat /\ \A x \in S : x <= m
  BY <1>2
<1>4. ASSUME m \notin S PROVE FALSE
  <2>1. PICK x \in S : TRUE
    OBVIOUS
  <2>2. \A y \in S : y <= m - 1
    BY <1>3, <1>4
  <2>3. m - 1 \in T
    BY <1>3, <2>1, <2>2
  <2> QED
    BY <1>2, <1>3, <2>3
<1> QED
  BY <1>3, <1>4

\* Induction over the subsets of a finite set, for a family of subsets: a family
\* that holds each subset whose smaller neighbors it holds is all of them.
LEMMA BuildUp ==
  ASSUME NEW U, IsFiniteSet(U), NEW F,
         \A S \in SUBSET U : (\A x \in S : S \ {x} \in F) => S \in F
  PROVE  \A S \in SUBSET U : S \in F
<1> DEFINE T == {n \in Nat : \A S \in SUBSET U : Cardinality(S) = n => S \in F}
<1>1. \A S \in SUBSET U : IsFiniteSet(S) /\ Cardinality(S) \in Nat
  BY FS_Subset, FS_CardinalityType
<1>2. 0 \in T
  <2>1. ASSUME NEW S \in SUBSET U, Cardinality(S) = 0 PROVE S \in F
    <3>1. S = {}
      BY <1>1, <2>1, FS_EmptySet
    <3>2. QED
      BY <3>1
  <2>2. QED
    BY <2>1
<1>3. ASSUME NEW n \in T PROVE n + 1 \in T
  <2>1. ASSUME NEW S \in SUBSET U, Cardinality(S) = n + 1 PROVE S \in F
    <3>1. ASSUME NEW x \in S PROVE S \ {x} \in F
      <4>1. Cardinality(S \ {x}) = Cardinality(S) - 1
        BY <1>1, FS_RemoveElement
      <4>2. Cardinality(S \ {x}) = n
        BY <2>1, <4>1
      <4>3. S \ {x} \in SUBSET U
        OBVIOUS
      <4>4. QED
        BY <4>2, <4>3
    <3>2. QED
      BY <3>1
  <2>2. n + 1 \in Nat
    OBVIOUS
  <2>3. QED
    BY <2>1, <2>2
<1>4. T = Nat
  <2>1. T \in SUBSET Nat
    OBVIOUS
  <2> HIDE DEF T
  <2>2. QED
    BY <1>2, <1>3, <2>1, CountUp
<1>5. QED
  BY <1>1, <1>4

LEMMA FiniteGreatest ==
  ASSUME NEW S \in SUBSET Nat, IsFiniteSet(S), S # {}
  PROVE  \E m \in S : \A x \in S : x <= m
<1> DEFINE F == {T \in SUBSET S : T = {} \/ \E m \in T : \A x \in T : x <= m}
<1>1. ASSUME NEW T \in SUBSET S, \A x \in T : T \ {x} \in F PROVE T \in F
  <2>1. SUFFICES ASSUME T # {} PROVE \E m \in T : \A x \in T : x <= m
    OBVIOUS
  <2>2. PICK y \in T : TRUE
    BY <2>1
  <2>3. T \ {y} \in F
    BY <1>1
  <2>4. CASE T \ {y} = {}
    BY <2>4
  <2>5. CASE T \ {y} # {}
    <3>1. PICK m \in T \ {y} : \A x \in T \ {y} : x <= m
      BY <2>3, <2>5
    <3>2. m \in Nat /\ y \in Nat
      OBVIOUS
    <3>3. CASE y <= m
      BY <3>1, <3>3
    <3>4. CASE m <= y
      <4>1. ASSUME NEW x \in T PROVE x <= y
        BY <3>1, <3>2, <3>4
      <4> QED
        BY <4>1
    <3> QED
      BY <3>2, <3>3, <3>4
  <2> QED
    BY <2>4, <2>5
<1> HIDE DEF F
<1>2. S \in F
  BY <1>1, BuildUp
<1> QED
  BY <1>2 DEF F

\* As many images as elements, at most: the image of a finite set is finite.
LEMMA ImageIsFinite ==
  ASSUME NEW f, NEW S, IsFiniteSet(S)
  PROVE  IsFiniteSet({f[x] : x \in S})
<1> DEFINE Image(s) == {f[x] : x \in s}
           F == {s \in SUBSET S : IsFiniteSet(Image(s))}
<1>1. ASSUME NEW s \in SUBSET S, \A x \in s : s \ {x} \in F PROVE s \in F
  <2>1. CASE s = {}
    <3>1. Image(s) = {}
      BY <2>1
    <3>2. IsFiniteSet(Image(s))
      BY <3>1, FS_EmptySet
    <3>3. QED
      BY <3>2
  <2>2. CASE s # {}
    <3>1. PICK x \in s : TRUE
      BY <2>2
    <3>2. Image(s) = Image(s \ {x}) \cup {f[x]} /\ IsFiniteSet(Image(s \ {x}))
      BY <1>1, <3>1
    <3>3. IsFiniteSet(Image(s \ {x}) \cup {f[x]})
      BY <3>2, FS_AddElement
    <3>4. QED
      BY <3>2, <3>3
  <2>3. QED
    BY <2>1, <2>2
<1> HIDE DEF F
<1>2. \A s \in SUBSET S : s \in F
  BY <1>1, BuildUp
<1>3. QED
  BY <1>2 DEF F

-----------------------------------------------------------------------------
(* The recursion behind the sum *)

First(S) == CHOOSE x \in S : TRUE

\* One step of the sum of f over S, with the sums of smaller sets from g.
Summand(f, g, S) == IF S = {} THEN 0 ELSE f[First(S)] + g[S \ {First(S)}]

Sums(f, S, g) == g = [s \in SUBSET S |-> Summand(f, g, s)]

LEMMA SumIsChosen ==
  ASSUME NEW f, NEW S
  PROVE  SumFunctionOnSet(f, S) = (CHOOSE g : Sums(f, S, g))[S]
BY DEF SumFunctionOnSet, FoldFunctionOnSet, MapThenFoldSet, Sums, Summand, First

LEMMA FirstIn ==
  ASSUME NEW S, S # {}
  PROVE  First(S) \in S
BY DEF First

\* Such sums exist, by induction on the size of the sets they are right for.
LEMMA SumsExist ==
  ASSUME NEW f, NEW U, IsFiniteSet(U)
  PROVE  \E g : Sums(f, U, g)
<1> DEFINE RightUpTo(g, n) ==
             \A s \in SUBSET U : Cardinality(s) <= n => g[s] = Summand(f, g, s)
           T == {n \in Nat : \E g : RightUpTo(g, n)}
<1>1. \A s \in SUBSET U : IsFiniteSet(s) /\ Cardinality(s) \in Nat
  BY FS_Subset, FS_CardinalityType
<1>2. \A s \in SUBSET U : s # {} => /\ s \ {First(s)} \in SUBSET U
                                   /\ Cardinality(s \ {First(s)}) = Cardinality(s) - 1
  BY <1>1, FirstIn, FS_RemoveElement
<1>3. 0 \in T
  <2> DEFINE g == [s \in SUBSET U |-> 0]
  <2>1. ASSUME NEW s \in SUBSET U, Cardinality(s) <= 0 PROVE g[s] = Summand(f, g, s)
    <3>1. s = {}
      BY <1>1, <2>1, FS_EmptySet
    <3>2. QED
      BY <3>1 DEF Summand
  <2> HIDE DEF g
  <2>2. RightUpTo(g, 0)
    BY <2>1
  <2>3. QED
    BY <2>2
<1>4. ASSUME NEW n \in T PROVE n + 1 \in T
  <2>1. PICK g : RightUpTo(g, n)
    OBVIOUS
  <2> DEFINE h == [s \in SUBSET U |-> Summand(f, g, s)]
  <2>2. \A s \in SUBSET U : h[s] = Summand(f, g, s)
    OBVIOUS
  <2> HIDE DEF h
  <2>3. ASSUME NEW s \in SUBSET U, Cardinality(s) <= n + 1 PROVE h[s] = Summand(f, h, s)
    <3>1. CASE s = {}
      BY <2>2, <3>1 DEF Summand
    <3>2. CASE s # {}
      <4> DEFINE r == s \ {First(s)}
      <4>1. r \in SUBSET U /\ Cardinality(r) <= n
        BY <1>1, <1>2, <2>3, <3>2
      <4>2. g[r] = h[r]
        BY <2>1, <2>2, <4>1
      <4>3. QED
        BY <2>2, <3>2, <4>2 DEF Summand
    <3>3. QED
      BY <3>1, <3>2
  <2>4. RightUpTo(h, n + 1)
    BY <2>3
  <2>5. QED
    BY <2>4
<1>5. T = Nat
  <2>1. T \in SUBSET Nat
    OBVIOUS
  <2> HIDE DEF T
  <2>2. QED
    BY <1>3, <1>4, <2>1, CountUp
<1>6. PICK g : RightUpTo(g, Cardinality(U))
  BY <1>1, <1>5
<1> DEFINE h == [s \in SUBSET U |-> g[s]]
<1>7. ASSUME NEW s \in SUBSET U PROVE g[s] = Summand(f, h, s)
  <2>1. Cardinality(s) <= Cardinality(U)
    BY FS_Subset
  <2>2. g[s] = Summand(f, g, s)
    BY <1>6, <2>1
  <2>3. Summand(f, g, s) = Summand(f, h, s)
    BY <1>2 DEF Summand
  <2>4. QED
    BY <2>2, <2>3
<1>8. h = [s \in SUBSET U |-> Summand(f, h, s)]
  <2>1. [s \in SUBSET U |-> g[s]] = [s \in SUBSET U |-> Summand(f, h, s)]
    <3> HIDE DEF h
    <3>1. QED
      BY <1>7
  <2>2. QED
    BY <2>1
<1>9. QED
  BY <1>8 DEF Sums

\* Two sums of one function agree wherever both are defined.
LEMMA SumsAgree ==
  ASSUME NEW f, NEW U, IsFiniteSet(U), NEW V, NEW g, NEW h,
         Sums(f, U, g), Sums(f, V, h), U \subseteq V
  PROVE  \A s \in SUBSET U : g[s] = h[s]
<1> DEFINE F == {s \in SUBSET U : g[s] = h[s]}
<1>1. ASSUME NEW s \in SUBSET U, \A x \in s : s \ {x} \in F PROVE s \in F
  <2>1. g[s] = Summand(f, g, s) /\ h[s] = Summand(f, h, s)
    BY DEF Sums
  <2>2. s # {} => g[s \ {First(s)}] = h[s \ {First(s)}]
    BY <1>1, FirstIn
  <2>3. QED
    BY <2>1, <2>2 DEF Summand
<1> HIDE DEF F
<1>2. \A s \in SUBSET U : s \in F
  BY <1>1, BuildUp
<1>3. QED
  BY <1>2 DEF F

-----------------------------------------------------------------------------
(* The sum *)

\* The sum over a nonempty set takes one term out and sums the rest.
LEMMA SumUnfolds ==
  ASSUME NEW f, NEW S, IsFiniteSet(S)
  PROVE  /\ S = {} => SumFunctionOnSet(f, S) = 0
         /\ S # {} => SumFunctionOnSet(f, S)
                        = f[First(S)] + SumFunctionOnSet(f, S \ {First(S)})
<1> DEFINE g == CHOOSE g : Sums(f, S, g)
           R == S \ {First(S)}
           h == CHOOSE h : Sums(f, R, h)
<1>1. IsFiniteSet(R) /\ R \subseteq S
  BY FS_Subset
<1>2. Sums(f, S, g) /\ Sums(f, R, h)
  BY <1>1, SumsExist
<1>3. SumFunctionOnSet(f, S) = g[S] /\ SumFunctionOnSet(f, R) = h[R]
  BY SumIsChosen
<1> HIDE DEF g, h
<1>4. g[R] = h[R]
  BY <1>1, <1>2, SumsAgree
<1>5. g[S] = Summand(f, g, S)
  BY <1>2 DEF Sums
<1>6. QED
  BY <1>3, <1>4, <1>5 DEF Summand

\* A sum of integers is an integer.
LEMMA SumIsInteger ==
  ASSUME NEW f, NEW S, IsFiniteSet(S), \A x \in S : f[x] \in Int
  PROVE  SumFunctionOnSet(f, S) \in Int
<1> DEFINE F == {s \in SUBSET S : SumFunctionOnSet(f, s) \in Int}
<1>1. ASSUME NEW s \in SUBSET S, \A x \in s : s \ {x} \in F PROVE s \in F
  <2>1. IsFiniteSet(s)
    BY FS_Subset
  <2>2. CASE s = {}
    <3>1. SumFunctionOnSet(f, s) = 0
      BY <2>1, <2>2, SumUnfolds
    <3>2. QED
      BY <3>1
  <2>3. CASE s # {}
    <3>1. SumFunctionOnSet(f, s) = f[First(s)] + SumFunctionOnSet(f, s \ {First(s)})
      BY <2>1, <2>3, SumUnfolds
    <3>2. First(s) \in s /\ f[First(s)] \in Int
      BY <2>3, FirstIn
    <3>3. SumFunctionOnSet(f, s \ {First(s)}) \in Int
      BY <1>1, <3>2
    <3>4. QED
      BY <3>1, <3>2, <3>3
  <2>4. QED
    BY <2>2, <2>3
<1> HIDE DEF F
<1>2. \A s \in SUBSET S : s \in F
  BY <1>1, BuildUp
<1>3. QED
  BY <1>2 DEF F

\* Any term may be taken out first: the sum does not depend on the order.
LEMMA SumWithout ==
  ASSUME NEW f, NEW S, IsFiniteSet(S), \A x \in S : f[x] \in Int, NEW x \in S
  PROVE  SumFunctionOnSet(f, S) = f[x] + SumFunctionOnSet(f, S \ {x})
<1> DEFINE Sum(s) == SumFunctionOnSet(f, s)
           F == {s \in SUBSET S : \A y \in s : Sum(s) = f[y] + Sum(s \ {y})}
<1>1. \A s \in SUBSET S : IsFiniteSet(s) /\ Sum(s) \in Int
  BY FS_Subset, SumIsInteger
<1>2. \A s \in SUBSET S : s # {} => Sum(s) = f[First(s)] + Sum(s \ {First(s)})
  BY <1>1, SumUnfolds
<1> HIDE DEF Sum
<1>3. ASSUME NEW s \in SUBSET S, \A y \in s : s \ {y} \in F, NEW y \in s
      PROVE  Sum(s) = f[y] + Sum(s \ {y})
  <2> DEFINE c == First(s)
  <2>1. c \in s /\ Sum(s) = f[c] + Sum(s \ {c})
    BY <1>2, FirstIn
  <2> HIDE DEF c
  <2>2. CASE y = c
    BY <2>1, <2>2
  <2>3. CASE y # c
    <3>1. Sum(s \ {c}) = f[y] + Sum((s \ {c}) \ {y})
      BY <1>3, <2>1, <2>3
    <3>2. Sum(s \ {y}) = f[c] + Sum((s \ {y}) \ {c})
      BY <1>3, <2>1, <2>3
    <3>3. (s \ {c}) \ {y} = (s \ {y}) \ {c}
      OBVIOUS
    <3>4. Sum((s \ {y}) \ {c}) \in Int /\ f[c] \in Int /\ f[y] \in Int
      BY <1>1, <2>1
    <3> DEFINE t == Sum((s \ {c}) \ {y})
    <3>5. Sum(s \ {c}) = f[y] + t /\ Sum(s \ {y}) = f[c] + t
          /\ t \in Int /\ f[c] \in Int /\ f[y] \in Int
      BY <3>1, <3>2, <3>3, <3>4
    <3> HIDE DEF t
    <3>6. f[c] + (f[y] + t) = f[y] + (f[c] + t)
      BY <3>5
    <3>7. QED
      BY <2>1, <3>5, <3>6
  <2>4. QED
    BY <2>2, <2>3
<1>4. \A s \in SUBSET S : (\A y \in s : s \ {y} \in F) => s \in F
  BY <1>3
<1> HIDE DEF F
<1>5. \A s \in SUBSET S : s \in F
  BY <1>4, BuildUp
<1>6. QED
  BY <1>5 DEF F, Sum

\* A new term adds itself.
LEMMA SumWith ==
  ASSUME NEW f, NEW S, IsFiniteSet(S), NEW x, x \notin S, \A y \in S \cup {x} : f[y] \in Int
  PROVE  SumFunctionOnSet(f, S \cup {x}) = SumFunctionOnSet(f, S) + f[x]
<1>1. IsFiniteSet(S \cup {x}) /\ (S \cup {x}) \ {x} = S
  BY FS_AddElement
<1>2. SumFunctionOnSet(f, S \cup {x}) = f[x] + SumFunctionOnSet(f, (S \cup {x}) \ {x})
  BY <1>1, SumWithout
<1>3. SumFunctionOnSet(f, S) \in Int /\ f[x] \in Int
  BY SumIsInteger
<1> DEFINE t == SumFunctionOnSet(f, S)
<1>4. t \in Int /\ SumFunctionOnSet(f, S \cup {x}) = f[x] + t
  BY <1>1, <1>2, <1>3
<1> HIDE DEF t
<1>5. SumFunctionOnSet(f, S \cup {x}) = t + f[x]
  BY <1>3, <1>4
<1>6. QED
  BY <1>5 DEF t

\* Only the terms count: functions that agree on a set have the same sum there.
LEMMA SumSame ==
  ASSUME NEW f, NEW g, NEW S, IsFiniteSet(S), \A x \in S : f[x] = g[x]
  PROVE  SumFunctionOnSet(f, S) = SumFunctionOnSet(g, S)
<1> DEFINE F == {s \in SUBSET S : SumFunctionOnSet(f, s) = SumFunctionOnSet(g, s)}
<1>1. ASSUME NEW s \in SUBSET S, \A x \in s : s \ {x} \in F PROVE s \in F
  <2>1. IsFiniteSet(s)
    BY FS_Subset
  <2>2. CASE s = {}
    BY <2>1, <2>2, SumUnfolds
  <2>3. CASE s # {}
    <3>1. /\ SumFunctionOnSet(f, s) = f[First(s)] + SumFunctionOnSet(f, s \ {First(s)})
          /\ SumFunctionOnSet(g, s) = g[First(s)] + SumFunctionOnSet(g, s \ {First(s)})
      BY <2>1, <2>3, SumUnfolds
    <3>2. First(s) \in s
      BY <2>3, FirstIn
    <3>3. SumFunctionOnSet(f, s \ {First(s)}) = SumFunctionOnSet(g, s \ {First(s)})
      BY <1>1, <3>2
    <3>4. QED
      BY <3>1, <3>2, <3>3
  <2>4. QED
    BY <2>2, <2>3
<1> HIDE DEF F
<1>2. \A s \in SUBSET S : s \in F
  BY <1>1, BuildUp
<1>3. QED
  BY <1>2 DEF F

\* Two sets without a common element are summed one after the other.
LEMMA SumOfUnion ==
  ASSUME NEW f, NEW S, NEW R, IsFiniteSet(S), IsFiniteSet(R), S \cap R = {},
         \A x \in S \cup R : f[x] \in Int
  PROVE  SumFunctionOnSet(f, S \cup R) = SumFunctionOnSet(f, S) + SumFunctionOnSet(f, R)
<1> DEFINE Sum(s) == SumFunctionOnSet(f, s)
           F == {s \in SUBSET R : Sum(S \cup s) = Sum(S) + Sum(s)}
<1>1. IsFiniteSet(S \cup R)
  BY FS_Union
<1>2. \A s \in SUBSET (S \cup R) : IsFiniteSet(s) /\ Sum(s) \in Int
  BY <1>1, FS_Subset, SumIsInteger
<1>3. \A s \in SUBSET (S \cup R) : \A x \in s : Sum(s) = f[x] + Sum(s \ {x})
  BY <1>2, SumWithout
<1>4. Sum({}) = 0
  BY FS_EmptySet, SumUnfolds
<1> HIDE DEF Sum
<1>5. ASSUME NEW s \in SUBSET R, \A x \in s : s \ {x} \in F PROVE s \in F
  <2>1. CASE s = {}
    <3>1. S \cup s = S
      BY <2>1
    <3>2. Sum(S) = Sum(S) + 0
      BY <1>2
    <3>3. QED
      BY <1>4, <2>1, <3>1, <3>2
  <2>2. CASE s # {}
    <3>1. PICK x \in s : TRUE
      BY <2>2
    <3>2. Sum(S \cup (s \ {x})) = Sum(S) + Sum(s \ {x})
      BY <1>5, <3>1
    <3>3. (S \cup s) \ {x} = S \cup (s \ {x})
      BY <3>1
    <3>4. Sum(S \cup s) = f[x] + Sum((S \cup s) \ {x}) /\ Sum(s) = f[x] + Sum(s \ {x})
      BY <1>3, <3>1
    <3>5. f[x] \in Int /\ Sum(S) \in Int /\ Sum(s \ {x}) \in Int
      BY <1>2, <3>1
    <3> DEFINE t == Sum(s \ {x})
    <3>6. Sum(S \cup s) = f[x] + (Sum(S) + t) /\ Sum(s) = f[x] + t /\ t \in Int
      BY <3>2, <3>3, <3>4, <3>5
    <3> HIDE DEF t
    <3>7. f[x] + (Sum(S) + t) = Sum(S) + (f[x] + t)
      BY <3>5, <3>6
    <3>8. QED
      BY <3>6, <3>7
  <2>3. QED
    BY <2>1, <2>2
<1> HIDE DEF F
<1>6. \A s \in SUBSET R : s \in F
  BY <1>5, BuildUp
<1>7. QED
  BY <1>6 DEF F, Sum

\* Renaming the indices one to one leaves the sum as it is.
LEMMA SumRenamed ==
  ASSUME NEW f, NEW g, NEW b, NEW S, IsFiniteSet(S),
         \A x \in S : g[x] \in Int /\ g[x] = f[b[x]],
         \A x, y \in S : b[x] = b[y] => x = y
  PROVE  SumFunctionOnSet(g, S) = SumFunctionOnSet(f, {b[x] : x \in S})
<1> DEFINE Image(s) == {b[x] : x \in s}
           F == {s \in SUBSET S : /\ IsFiniteSet(Image(s))
                                  /\ SumFunctionOnSet(g, s) = SumFunctionOnSet(f, Image(s))}
<1>1. ASSUME NEW s \in SUBSET S, \A x \in s : s \ {x} \in F PROVE s \in F
  <2>1. IsFiniteSet(s)
    BY FS_Subset
  <2>2. CASE s = {}
    <3>1. Image(s) = {}
      BY <2>2
    <3>2. QED
      BY <2>1, <2>2, <3>1, SumUnfolds
  <2>3. CASE s # {}
    <3>1. PICK x \in s : TRUE
      BY <2>3
    <3>2. Image(s) = Image(s \ {x}) \cup {b[x]} /\ b[x] \notin Image(s \ {x})
      OBVIOUS
    <3>3. \A y \in Image(s) : f[y] \in Int
      OBVIOUS
    <3>4. IsFiniteSet(Image(s \ {x}))
          /\ SumFunctionOnSet(g, s \ {x}) = SumFunctionOnSet(f, Image(s \ {x}))
      BY <1>1, <3>1
    <3> HIDE DEF Image
    <3> DEFINE Old == Image(s \ {x})
               new == b[x]
    <3>5. /\ Image(s) = Old \cup {new} /\ new \notin Old /\ IsFiniteSet(Old)
          /\ \A y \in Old \cup {new} : f[y] \in Int
      BY <3>2, <3>3, <3>4
    <3> HIDE DEF Old, new
    <3>6. IsFiniteSet(Old \cup {new})
          /\ SumFunctionOnSet(f, Old \cup {new}) = SumFunctionOnSet(f, Old) + f[new]
      BY <3>5, FS_AddElement, SumWith
    <3>7. SumFunctionOnSet(g, s) = g[x] + SumFunctionOnSet(g, s \ {x})
      BY <2>1, <3>1, SumWithout
    <3>8. SumFunctionOnSet(g, s \ {x}) \in Int /\ g[x] \in Int /\ g[x] = f[b[x]]
      BY <2>1, <3>1, FS_RemoveElement, SumIsInteger
    <3>9. SumFunctionOnSet(g, s) = SumFunctionOnSet(f, Image(s))
      BY <3>4, <3>5, <3>6, <3>7, <3>8 DEF Old, new
    <3>10. QED
      BY <3>5, <3>6, <3>9
  <2>4. QED
    BY <2>2, <2>3
<1> HIDE DEF F
<1>2. \A s \in SUBSET S : s \in F
  BY <1>1, BuildUp
<1>3. QED
  BY <1>2 DEF F

\* A sum without negative terms is not negative.
LEMMA SumNotNegative ==
  ASSUME NEW f, NEW S, IsFiniteSet(S), \A x \in S : f[x] \in Nat
  PROVE  SumFunctionOnSet(f, S) \in Nat
<1> DEFINE F == {s \in SUBSET S : SumFunctionOnSet(f, s) \in Nat}
<1>1. ASSUME NEW s \in SUBSET S, \A x \in s : s \ {x} \in F PROVE s \in F
  <2>1. IsFiniteSet(s)
    BY FS_Subset
  <2>2. CASE s = {}
    <3>1. SumFunctionOnSet(f, s) = 0
      BY <2>1, <2>2, SumUnfolds
    <3>2. QED
      BY <3>1
  <2>3. CASE s # {}
    <3>1. SumFunctionOnSet(f, s) = f[First(s)] + SumFunctionOnSet(f, s \ {First(s)})
      BY <2>1, <2>3, SumUnfolds
    <3>2. First(s) \in s /\ f[First(s)] \in Nat
      BY <2>3, FirstIn
    <3>3. SumFunctionOnSet(f, s \ {First(s)}) \in Nat
      BY <1>1, <3>2
    <3>4. QED
      BY <3>1, <3>2, <3>3
  <2>4. QED
    BY <2>2, <2>3
<1> HIDE DEF F
<1>2. \A s \in SUBSET S : s \in F
  BY <1>1, BuildUp
<1>3. QED
  BY <1>2 DEF F

\* The sum of the negated terms is the negated sum.
LEMMA SumNegated ==
  ASSUME NEW f, NEW g, NEW S, IsFiniteSet(S), \A x \in S : f[x] \in Int /\ g[x] = -f[x]
  PROVE  SumFunctionOnSet(g, S) = -SumFunctionOnSet(f, S)
<1> DEFINE F == {s \in SUBSET S : SumFunctionOnSet(g, s) = -SumFunctionOnSet(f, s)}
<1>1. ASSUME NEW s \in SUBSET S, \A x \in s : s \ {x} \in F PROVE s \in F
  <2>1. IsFiniteSet(s)
    BY FS_Subset
  <2>2. CASE s = {}
    <3>1. SumFunctionOnSet(f, s) = 0 /\ SumFunctionOnSet(g, s) = 0
      BY <2>1, <2>2, SumUnfolds
    <3> DEFINE n == SumFunctionOnSet(f, s)
               m == SumFunctionOnSet(g, s)
    <3>2. n \in Int /\ m \in Int /\ n + m = 0
      BY <3>1
    <3> HIDE DEF n, m
    <3>3. m = -n
      BY <3>2
    <3>4. QED
      BY <3>3 DEF n, m
  <2>3. CASE s # {}
    <3> DEFINE c == First(s)
               rest == SumFunctionOnSet(f, s \ {c})
    <3>1. /\ SumFunctionOnSet(f, s) = f[c] + rest
          /\ SumFunctionOnSet(g, s) = g[c] + SumFunctionOnSet(g, s \ {c})
      BY <2>1, <2>3, SumUnfolds
    <3>2. c \in s /\ f[c] \in Int /\ g[c] = -f[c]
      BY <2>3, FirstIn
    <3>3. IsFiniteSet(s \ {c}) /\ rest \in Int
      BY <2>1, FS_Subset, SumIsInteger
    <3>4. SumFunctionOnSet(g, s \ {c}) = -rest
      BY <1>1, <3>2
    <3> HIDE DEF c, rest
    <3>5. g[c] + (-rest) = -(f[c] + rest)
      BY <3>2, <3>3
    <3>6. QED
      BY <3>1, <3>4, <3>5
  <2>4. QED
    BY <2>2, <2>3
<1> HIDE DEF F
<1>2. \A s \in SUBSET S : s \in F
  BY <1>1, BuildUp
<1>3. QED
  BY <1>2 DEF F
=============================================================================
