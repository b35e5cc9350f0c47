-------------------------- MODULE ConfidenceProofs --------------------------
(***************************************************************************)
(* The arithmetic of the confidence model, for any set of inferences: the  *)
(* sums and products it is made of are folds over finite sets, and every   *)
(* figure that leaves it is a share - a number between 0 and One.          *)
(*                                                                         *)
(* A fold takes the elements in an order of its own, and an induction over *)
(* finite sets would take an operator as a parameter.  The lemmas argue by *)
(* a smallest counterexample instead: among the subsets of a finite set    *)
(* for which an equation fails there is one of which no proper part fails. *)
(***************************************************************************)
EXTENDS Confidence, FiniteSetTheorems, WellFoundedInduction, TLAPS

\* Certainty, as a fact: a range that ends in a large numeral costs the provers
\* time for each of its members, one that ends in a name does not.
LEMMA OneIs == One = 10000
BY DEF One

\* A non-empty set of naturals has a least element.
LEMMA LeastExists ==
  ASSUME NEW numbers, numbers # {}, numbers \subseteq Nat
  PROVE  \E n \in numbers : \A m \in numbers : n <= m
<1>1. PICK n \in numbers : \A m \in numbers : ~(<<m, n>> \in OpToRel(<, Nat))
  BY NatLessThanWellFounded, WFMin, Zenon
<1>2. ASSUME NEW m \in numbers PROVE n <= m
  <2>1. m \in Nat /\ n \in Nat
    OBVIOUS
  <2>2. ~(m < n)
    BY <1>1, <2>1 DEF OpToRel
  <2>. QED
    BY <2>1, <2>2
<1>. QED
  BY <1>2

\* A non-empty set of natural numbers below a bound has a greatest element.
LEMMA GreatestExists ==
  ASSUME NEW numbers, numbers # {}, NEW bound \in Nat, numbers \subseteq 0..bound
  PROVE  \E n \in numbers : \A m \in numbers : m <= n
<1>. DEFINE distances == {bound - n : n \in numbers}
<1>1. distances # {} /\ distances \subseteq Nat
  <2>1. \A n \in numbers : bound - n \in Nat
    OBVIOUS
  <2>. QED
    BY <2>1
<1>2. PICK d \in distances : \A m \in distances : d <= m
  <2>. HIDE DEF distances
  <2>. QED
    BY <1>1, LeastExists
<1>3. PICK n \in numbers : d = bound - n
  OBVIOUS
<1>4. ASSUME NEW m \in numbers PROVE m <= n
  BY <1>2, <1>3
<1>. QED
  BY <1>4

\* Among subsets of a finite set there is one of which no proper part is one.
LEMMA MinimalExists ==
  ASSUME NEW S, IsFiniteSet(S), NEW family, family # {}, family \subseteq SUBSET S
  PROVE  \E T \in family : \A U \in SUBSET T : U # T => U \notin family
<1>. DEFINE sizes == {Cardinality(T) : T \in family}
<1>1. \A T \in family : IsFiniteSet(T) /\ Cardinality(T) \in Nat
  BY FS_Subset, FS_CardinalityType
<1>2. sizes # {} /\ sizes \subseteq Nat
  BY <1>1
<1>3. PICK n \in sizes : \A m \in sizes : n <= m
  <2>. HIDE DEF sizes
  <2>. QED
    BY <1>2, LeastExists
<1>4. PICK T \in family : n = Cardinality(T)
  OBVIOUS
<1>5. ASSUME NEW U \in SUBSET T, U # T, U \in family PROVE FALSE
  <2>1. Cardinality(U) <= Cardinality(T) /\ Cardinality(U) # Cardinality(T)
    BY <1>1, <1>5, FS_Subset
  <2>2. Cardinality(T) <= Cardinality(U)
    BY <1>3, <1>4, <1>5
  <2>. QED
    BY <1>1, <1>5, <2>1, <2>2
<1>. QED
  BY <1>5

-----------------------------------------------------------------------------

\* The equation of a fold over the subsets of S with at most n elements.
UpTo(S, n) == {s \in SUBSET S : Cardinality(s) <= n}
Solves(it, pick, base, step, sets) ==
  \A s \in sets : it[s] = IF s = {} THEN base ELSE step[<<pick[s], it[s \ {pick[s]}]>>]

\* The recursion of a fold has a solution.
LEMMA FoldExists ==
  ASSUME NEW S, IsFiniteSet(S), NEW V, NEW base \in V,
         NEW pick, \A s \in SUBSET S : s # {} => pick[s] \in s,
         NEW step \in [S \X V -> V]
  PROVE  \E it \in [SUBSET S -> V] : Solves(it, pick, base, step, SUBSET S)
<1>. DEFINE bad == {n \in Nat : ~\E it \in [UpTo(S, n) -> V] : Solves(it, pick, base, step, UpTo(S, n))}
<1>1. \A s \in SUBSET S : IsFiniteSet(s) /\ Cardinality(s) \in Nat
  BY FS_Subset, FS_CardinalityType
<1>2. bad = {}
  <2>. SUFFICES ASSUME bad # {} PROVE FALSE
    OBVIOUS
  <2>1. PICK n \in bad : \A m \in bad : n <= m
    <3>1. bad \subseteq Nat
      OBVIOUS
    <3>. HIDE DEF bad
    <3>. QED
      BY <3>1, LeastExists
  <2>2. n \in Nat /\ ~\E it \in [UpTo(S, n) -> V] : Solves(it, pick, base, step, UpTo(S, n))
    OBVIOUS
  <2>3. CASE n = 0
    <3>1. \A s \in UpTo(S, 0) : s = {}
      BY <1>1, FS_EmptySet DEF UpTo
    <3>. DEFINE it == [s \in UpTo(S, 0) |-> base]
    <3>2. it \in [UpTo(S, 0) -> V] /\ Solves(it, pick, base, step, UpTo(S, 0))
      BY <3>1 DEF Solves
    <3>. QED
      BY <2>2, <2>3, <3>2
  <2>4. CASE n # 0
    <3>1. n - 1 \in Nat /\ n - 1 \notin bad
      BY <2>1, <2>2, <2>4
    <3>2. PICK it \in [UpTo(S, n - 1) -> V] : Solves(it, pick, base, step, UpTo(S, n - 1))
      BY <3>1
    <3>3. ASSUME NEW s \in UpTo(S, n), s # {}
          PROVE  /\ pick[s] \in S /\ s \ {pick[s]} \in UpTo(S, n - 1)
                 /\ s \ {pick[s]} \in UpTo(S, n)
      <4>1. s \in SUBSET S /\ pick[s] \in s /\ Cardinality(s) <= n
        BY <3>3 DEF UpTo
      <4>2. Cardinality(s \ {pick[s]}) = Cardinality(s) - 1
        BY <1>1, <4>1, FS_RemoveElement
      <4>. QED
        BY <1>1, <2>2, <4>1, <4>2 DEF UpTo
    <3>. DEFINE next == [s \in UpTo(S, n) |->
                           IF s = {} THEN base ELSE step[<<pick[s], it[s \ {pick[s]}]>>]]
    <3>4. next \in [UpTo(S, n) -> V]
      BY <3>2, <3>3
    <3>5. \A s \in UpTo(S, n - 1) : s \in UpTo(S, n) /\ next[s] = it[s]
      <4>1. \A s \in UpTo(S, n - 1) : s \in UpTo(S, n)
        BY <1>1, <2>2 DEF UpTo
      <4>2. \A s \in UpTo(S, n - 1) :
              it[s] = IF s = {} THEN base ELSE step[<<pick[s], it[s \ {pick[s]}]>>]
        BY <3>2 DEF Solves
      <4>. QED
        BY <4>1, <4>2
    <3>6. Solves(next, pick, base, step, UpTo(S, n))
      BY <3>3, <3>5 DEF Solves
    <3>. QED
      BY <2>2, <3>4, <3>6
  <2>. QED
    BY <2>3, <2>4
<1>3. UpTo(S, Cardinality(S)) = SUBSET S /\ Cardinality(S) \in Nat
  BY FS_Subset, FS_CardinalityType DEF UpTo
<1>4. \E it \in [UpTo(S, Cardinality(S)) -> V] :
        Solves(it, pick, base, step, UpTo(S, Cardinality(S)))
  BY <1>2, <1>3
<1>. QED
  BY <1>3, <1>4, Zenon

\* It has one solution.
LEMMA SolutionsAgree ==
  ASSUME NEW S, IsFiniteSet(S), NEW base, NEW step,
         NEW pick, \A s \in SUBSET S : s # {} => pick[s] \in s,
         NEW it, Solves(it, pick, base, step, SUBSET S),
         NEW jt, Solves(jt, pick, base, step, SUBSET S)
  PROVE  it[S] = jt[S]
<1>. DEFINE bad == {s \in SUBSET S : it[s] # jt[s]}
<1>1. bad = {}
  <2>. SUFFICES ASSUME bad # {} PROVE FALSE
    OBVIOUS
  <2>1. PICK T \in bad : \A U \in SUBSET T : U # T => U \notin bad
    <3>1. bad \subseteq SUBSET S
      OBVIOUS
    <3>. HIDE DEF bad
    <3>. QED
      BY <3>1, MinimalExists
  <2>2. T # {}
    BY DEF Solves
  <2>3. T \ {pick[T]} \in SUBSET T /\ T \ {pick[T]} # T
    BY <2>2
  <2>4. it[T \ {pick[T]}] = jt[T \ {pick[T]}]
    BY <2>1, <2>3
  <2>. QED
    BY <2>2, <2>4 DEF Solves
<1>. QED
  BY <1>1

-----------------------------------------------------------------------------
(***************************************************************************)
(* Sums                                                                    *)
(***************************************************************************)

NaturalOn(f, S) == \A x \in S : f[x] \in Nat

Chosen(S) == [s \in SUBSET S |-> CHOOSE x \in s : TRUE]
Adding(f, S) == [p \in S \X Nat |-> f[p[1]] + p[2]]

LEMMA ChosenIsIn ==
  ASSUME NEW S, NEW s \in SUBSET S, s # {}
  PROVE  Chosen(S)[s] \in s
BY DEF Chosen

\* The sum is what the recursion makes of the whole set.
LEMMA SumIsAFold ==
  ASSUME NEW S, IsFiniteSet(S), NEW f, NaturalOn(f, S)
  PROVE  \E it \in [SUBSET S -> Nat] : /\ Solves(it, Chosen(S), 0, Adding(f, S), SUBSET S)
                                       /\ SumFunctionOnSet(f, S) = it[S]
<1>. DEFINE Body(it) == [s \in SUBSET S |->
              IF s = {} THEN 0
              ELSE f[CHOOSE x \in s : TRUE] + it[s \ {CHOOSE x \in s : TRUE}]]
            total == CHOOSE it : it = Body(it)
<1>1. SumFunctionOnSet(f, S) = total[S]
  BY DEF SumFunctionOnSet, FoldFunctionOnSet, MapThenFoldSet
<1>2. Adding(f, S) \in [S \X Nat -> Nat]
  BY DEF Adding, NaturalOn
<1>3. \E it : it = Body(it)
  <2>0. 0 \in Nat /\ \A s \in SUBSET S : s # {} => Chosen(S)[s] \in s
    BY ChosenIsIn
  <2>1. PICK it \in [SUBSET S -> Nat] : Solves(it, Chosen(S), 0, Adding(f, S), SUBSET S)
    BY <1>2, <2>0, FoldExists, Zenon
  <2>2. ASSUME NEW s \in SUBSET S PROVE it[s] = Body(it)[s]
    <3>1. CASE s = {}
      BY <2>1, <3>1 DEF Solves
    <3>2. CASE s # {}
      <4>. DEFINE c == CHOOSE x \in s : TRUE
      <4>1. Chosen(S)[s] = c /\ c \in S /\ it[s \ {c}] \in Nat
        BY <2>1, <3>2 DEF Chosen
      <4>2. it[s] = Adding(f, S)[<<c, it[s \ {c}]>>]
        BY <2>1, <3>2, <4>1 DEF Solves
      <4>3. it[s] = f[c] + it[s \ {c}]
        <5>. HIDE DEF c
        <5>. QED
          BY <4>1, <4>2 DEF Adding
      <4>. QED
        BY <3>2, <4>3
    <3>. QED
      BY <3>1, <3>2
  <2>3. it = Body(it)
    BY <2>2
  <2>. QED
    BY <2>3
<1>4. total = Body(total)
  BY <1>3
<1>. HIDE DEF total
<1>5. \A s \in SUBSET S : total[s] \in Nat
  <2>. DEFINE bad == {s \in SUBSET S : total[s] \notin Nat}
  <2>. SUFFICES ASSUME bad # {} PROVE FALSE
    OBVIOUS
  <2>1. PICK T \in bad : \A U \in SUBSET T : U # T => U \notin bad
    <3>1. bad \subseteq SUBSET S
      OBVIOUS
    <3>. HIDE DEF bad
    <3>. QED
      BY <3>1, MinimalExists
  <2>. DEFINE c == CHOOSE x \in T : TRUE
  <2>2. T # {}
    BY <1>4
  <2>3. c \in T /\ total[T] = f[c] + total[T \ {c}]
    BY <1>4, <2>2
  <2>4. total[T \ {c}] \in Nat
    <3>. HIDE DEF c
    <3>. QED
      BY <2>1, <2>3
  <2>. QED
    BY <2>3, <2>4 DEF NaturalOn
<1>6. total \in [SUBSET S -> Nat]
  BY <1>4, <1>5
<1>7. Solves(total, Chosen(S), 0, Adding(f, S), SUBSET S)
  <2>. SUFFICES ASSUME NEW s \in SUBSET S, s # {}
                PROVE  total[s] = Adding(f, S)[<<Chosen(S)[s], total[s \ {Chosen(S)[s]}]>>]
    BY <1>4 DEF Solves
  <2>1. Chosen(S)[s] \in s /\ Chosen(S)[s] = CHOOSE x \in s : TRUE
    BY DEF Chosen
  <2>2. total[s] = f[Chosen(S)[s]] + total[s \ {Chosen(S)[s]}]
    BY <1>4, <2>1
  <2>. QED
    BY <1>5, <2>1, <2>2 DEF Adding
<1>. QED
  BY <1>1, <1>6, <1>7

LEMMA SumIsNatural ==
  ASSUME NEW S, IsFiniteSet(S), NEW f, NaturalOn(f, S)
  PROVE  SumFunctionOnSet(f, S) \in Nat
<1>. PICK it \in [SUBSET S -> Nat] : SumFunctionOnSet(f, S) = it[S]
  BY SumIsAFold, Zenon
<1>. QED
  OBVIOUS

LEMMA SumOfNone ==
  ASSUME NEW f
  PROVE  SumFunctionOnSet(f, {}) = 0
<1>1. IsFiniteSet({}) /\ NaturalOn(f, {})
  BY FS_EmptySet DEF NaturalOn
<1>2. PICK it \in [SUBSET {} -> Nat] : /\ Solves(it, Chosen({}), 0, Adding(f, {}), SUBSET {})
                                       /\ SumFunctionOnSet(f, {}) = it[{}]
  BY <1>1, SumIsAFold, Zenon
<1>. QED
  BY <1>2 DEF Solves

\* The element that is chosen first, and the rest.
LEMMA SumTakesChosen ==
  ASSUME NEW S, IsFiniteSet(S), S # {}, NEW f, NaturalOn(f, S)
  PROVE  \E c \in S : SumFunctionOnSet(f, S) = f[c] + SumFunctionOnSet(f, S \ {c})
<1>. DEFINE c == Chosen(S)[S]
            T == S \ {c}
<1>1. PICK it \in [SUBSET S -> Nat] : Solves(it, Chosen(S), 0, Adding(f, S), SUBSET S)
                                      /\ SumFunctionOnSet(f, S) = it[S]
  BY SumIsAFold
<1>2. c \in S
  BY ChosenIsIn
<1>3. it[S] = f[c] + it[T]
  <2>1. it[S] = Adding(f, S)[<<c, it[T]>>] /\ it[T] \in Nat
    BY <1>1 DEF Solves
  <2>. HIDE DEF c, T
  <2>. QED
    BY <1>2, <2>1 DEF Adding
<1>4. IsFiniteSet(T) /\ NaturalOn(f, T)
  BY FS_Subset DEF NaturalOn
<1>5. PICK jt \in [SUBSET T -> Nat] : Solves(jt, Chosen(T), 0, Adding(f, T), SUBSET T)
                                      /\ SumFunctionOnSet(f, T) = jt[T]
  BY <1>4, SumIsAFold
<1>. HIDE DEF c
<1>6. Solves(it, Chosen(T), 0, Adding(f, T), SUBSET T)
  <2>. SUFFICES ASSUME NEW s \in SUBSET T, s # {}
                PROVE  it[s] = Adding(f, T)[<<Chosen(T)[s], it[s \ {Chosen(T)[s]}]>>]
    BY <1>1 DEF Solves
  <2>1. Chosen(T)[s] \in s /\ Chosen(S)[s] = Chosen(T)[s]
    BY DEF Chosen
  <2>2. it[s] = Adding(f, S)[<<Chosen(T)[s], it[s \ {Chosen(T)[s]}]>>]
    BY <1>1, <2>1 DEF Solves
  <2>. QED
    BY <2>1, <2>2 DEF Adding
<1>7. \A s \in SUBSET T : s # {} => Chosen(T)[s] \in s
  BY ChosenIsIn
<1>8. it[T] = jt[T]
  <2>1. Solves(jt, Chosen(T), 0, Adding(f, T), SUBSET T)
    BY <1>5
  <2>. HIDE DEF T
  <2>. QED
    BY <1>4, <1>6, <1>7, <2>1, SolutionsAgree, Zenon
<1>. QED
  BY <1>1, <1>2, <1>3, <1>5, <1>8

LEMMA PartsOfFinite ==
  ASSUME NEW S, IsFiniteSet(S), NEW f, NaturalOn(f, S), NEW T \in SUBSET S
  PROVE  IsFiniteSet(T) /\ NaturalOn(f, T) /\ SumFunctionOnSet(f, T) \in Nat
<1>1. IsFiniteSet(T) /\ NaturalOn(f, T)
  BY FS_Subset DEF NaturalOn
<1>. QED
  BY <1>1, SumIsNatural

\* Any element, and the rest: the order of the terms does not matter.
LEMMA SumTakes ==
  ASSUME NEW S, IsFiniteSet(S), NEW f, NaturalOn(f, S), NEW x \in S
  PROVE  SumFunctionOnSet(f, S) = f[x] + SumFunctionOnSet(f, S \ {x})
<1>. DEFINE Sum(T) == SumFunctionOnSet(f, T)
            bad == {T \in SUBSET S : \E y \in T : Sum(T) # f[y] + Sum(T \ {y})}
<1>1. \A T \in SUBSET S : IsFiniteSet(T) /\ NaturalOn(f, T) /\ Sum(T) \in Nat
  BY PartsOfFinite, Zenon
<1>2. bad = {}
  <2>. SUFFICES ASSUME bad # {} PROVE FALSE
    OBVIOUS
  <2>1. PICK T \in bad : \A U \in SUBSET T : U # T => U \notin bad
    <3>1. bad \subseteq SUBSET S
      OBVIOUS
    <3>. HIDE DEF bad
    <3>. QED
      BY <3>1, MinimalExists
  <2>2. PICK y \in T : Sum(T) # f[y] + Sum(T \ {y})
    OBVIOUS
  <2>. HIDE DEF Sum
  <2>3. T \in SUBSET S
    OBVIOUS
  <2>4. PICK c \in T : Sum(T) = f[c] + Sum(T \ {c})
    <3>1. IsFiniteSet(T) /\ NaturalOn(f, T) /\ T # {}
      BY <1>1, <2>3
    <3>. QED
      BY <3>1, SumTakesChosen DEF Sum
  <2>5. c # y
    BY <2>2, <2>4
  <2>6. Sum(T \ {c}) = f[y] + Sum((T \ {c}) \ {y})
    <3>1. T \ {c} \in SUBSET T /\ T \ {c} # T
      OBVIOUS
    <3>2. T \ {c} \notin bad /\ T \ {c} \in SUBSET S
      BY <2>1, <2>3, <3>1
    <3>. QED
      BY <2>5, <3>2
  <2>7. Sum(T \ {y}) = f[c] + Sum((T \ {y}) \ {c})
    <3>1. T \ {y} \in SUBSET T /\ T \ {y} # T
      OBVIOUS
    <3>2. T \ {y} \notin bad /\ T \ {y} \in SUBSET S
      BY <2>1, <2>3, <3>1
    <3>. QED
      BY <2>5, <3>2
  <2>8. (T \ {c}) \ {y} = (T \ {y}) \ {c}
    OBVIOUS
  <2>9. f[c] \in Nat /\ f[y] \in Nat
    BY <2>3 DEF NaturalOn
  <2>10. Sum((T \ {c}) \ {y}) \in Nat
    BY <1>1, <2>3
  <2>. QED
    BY <2>2, <2>4, <2>6, <2>7, <2>8, <2>9, <2>10
<1>. QED
  BY <1>2

LEMMA SumOfOne ==
  ASSUME NEW x, NEW f, f[x] \in Nat
  PROVE  SumFunctionOnSet(f, {x}) = f[x]
<1>1. IsFiniteSet({x}) /\ NaturalOn(f, {x}) /\ {x} \ {x} = {}
  BY FS_Singleton DEF NaturalOn
<1>. QED
  BY <1>1, SumTakes, SumOfNone

\* A bound on every term bounds the sum.
LEMMA SumScaled ==
  ASSUME NEW S, IsFiniteSet(S), NEW f, NaturalOn(f, S), NEW g, NaturalOn(g, S),
         NEW k \in Nat, \A x \in S : f[x] <= k * g[x]
  PROVE  SumFunctionOnSet(f, S) <= k * SumFunctionOnSet(g, S)
<1>. DEFINE F(T) == SumFunctionOnSet(f, T)
            G(T) == SumFunctionOnSet(g, T)
            bad == {T \in SUBSET S : ~(F(T) <= k * G(T))}
<1>1. \A T \in SUBSET S : /\ IsFiniteSet(T) /\ NaturalOn(f, T) /\ NaturalOn(g, T)
                          /\ F(T) \in Nat /\ G(T) \in Nat
  BY PartsOfFinite, Zenon
<1>2. bad = {}
  <2>. SUFFICES ASSUME bad # {} PROVE FALSE
    OBVIOUS
  <2>1. PICK T \in bad : \A U \in SUBSET T : U # T => U \notin bad
    <3>1. bad \subseteq SUBSET S
      OBVIOUS
    <3>. HIDE DEF bad
    <3>. QED
      BY <3>1, MinimalExists
  <2>2. ~(F(T) <= k * G(T)) /\ T \in SUBSET S
    OBVIOUS
  <2>3. CASE T = {}
    <3>1. F({}) = 0 /\ G({}) = 0
      BY SumOfNone
    <3>. HIDE DEF F, G
    <3>. QED
      BY <2>2, <2>3, <3>1
  <2>4. CASE T # {}
    <3>1. PICK x \in T : TRUE
      BY <2>4
    <3>2. F(T) = f[x] + F(T \ {x}) /\ G(T) = g[x] + G(T \ {x})
      BY <1>1, <2>2, SumTakes
    <3>. HIDE DEF F, G
    <3>3. F(T \ {x}) <= k * G(T \ {x})
      <4>1. T \ {x} \in SUBSET T /\ T \ {x} # T
        OBVIOUS
      <4>. QED
        BY <2>1, <2>2, <4>1
    <3>4. F(T \ {x}) \in Nat /\ G(T \ {x}) \in Nat
      BY <1>1, <2>2
    <3>5. f[x] \in Nat /\ g[x] \in Nat /\ f[x] <= k * g[x]
      BY <2>2 DEF NaturalOn
    <3>6. k * G(T) = k * g[x] + k * G(T \ {x})
      BY <3>2, <3>4, <3>5
    <3>7. k * g[x] \in Int /\ k * G(T \ {x}) \in Int
      BY <3>4, <3>5
    <3>. QED
      BY <2>2, <3>2, <3>3, <3>4, <3>5, <3>6, <3>7
  <2>. QED
    BY <2>3, <2>4
<1>. QED
  BY <1>2

\* Only the values on the set matter.
LEMMA SumDependsOnTerms ==
  ASSUME NEW S, IsFiniteSet(S), NEW f, NaturalOn(f, S), NEW g, \A x \in S : g[x] = f[x]
  PROVE  SumFunctionOnSet(f, S) = SumFunctionOnSet(g, S)
<1>1. NaturalOn(g, S) /\ \A x \in S : f[x] <= 1 * g[x] /\ g[x] <= 1 * f[x]
  BY DEF NaturalOn
<1>2. SumFunctionOnSet(f, S) \in Nat /\ SumFunctionOnSet(g, S) \in Nat
  BY <1>1, SumIsNatural
<1>3. SumFunctionOnSet(f, S) <= 1 * SumFunctionOnSet(g, S)
  BY <1>1, SumScaled
<1>4. SumFunctionOnSet(g, S) <= 1 * SumFunctionOnSet(f, S)
  BY <1>1, SumScaled
<1>. QED
  BY <1>2, <1>3, <1>4

\* One term is no more than the sum.
LEMMA TermIsInSum ==
  ASSUME NEW S, IsFiniteSet(S), NEW f, NaturalOn(f, S), NEW x \in S
  PROVE  f[x] <= SumFunctionOnSet(f, S)
<1>1. f[x] \in Nat /\ SumFunctionOnSet(f, S \ {x}) \in Nat
  BY PartsOfFinite DEF NaturalOn
<1>2. SumFunctionOnSet(f, S) = f[x] + SumFunctionOnSet(f, S \ {x})
  BY SumTakes
<1>. QED
  BY <1>1, <1>2

\* A part of the terms sums to no more than all of them.
LEMMA SumOfPart ==
  ASSUME NEW S, IsFiniteSet(S), NEW f, NaturalOn(f, S), NEW T \in SUBSET S
  PROVE  SumFunctionOnSet(f, T) <= SumFunctionOnSet(f, S)
<1>. DEFINE Sum(U) == SumFunctionOnSet(f, U)
            bad == {U \in SUBSET S : ~(Sum(T \cap U) <= Sum(U))}
<1>1. \A U \in SUBSET S : /\ IsFiniteSet(U) /\ NaturalOn(f, U) /\ Sum(U) \in Nat
  BY PartsOfFinite, Zenon
<1>2. bad = {}
  <2>. SUFFICES ASSUME bad # {} PROVE FALSE
    OBVIOUS
  <2>1. PICK U \in bad : \A V \in SUBSET U : V # U => V \notin bad
    <3>1. bad \subseteq SUBSET S
      OBVIOUS
    <3>. HIDE DEF bad
    <3>. QED
      BY <3>1, MinimalExists
  <2>2. ~(Sum(T \cap U) <= Sum(U)) /\ U \in SUBSET S
    OBVIOUS
  <2>3. Sum(U) \in Nat /\ Sum(T \cap U) \in Nat
    BY <1>1, <2>2
  <2>4. PICK x \in U : x \notin T
    <3>1. U # T \cap U
      BY <2>2, <2>3
    <3>. QED
      BY <3>1
  <2>5. Sum(U) = f[x] + Sum(U \ {x})
    BY <1>1, <2>2, SumTakes
  <2>6. T \cap (U \ {x}) = T \cap U
    BY <2>4
  <2>. HIDE DEF Sum
  <2>7. Sum(T \cap (U \ {x})) <= Sum(U \ {x})
    <3>1. U \ {x} \in SUBSET U /\ U \ {x} # U
      OBVIOUS
    <3>. QED
      BY <2>1, <2>2, <3>1
  <2>8. f[x] \in Nat /\ Sum(U \ {x}) \in Nat
    BY <1>1, <2>2 DEF NaturalOn
  <2>9. Sum(T \cap U) <= Sum(U \ {x})
    BY <2>6, <2>7, Zenon
  <2>. QED
    BY <2>2, <2>3, <2>5, <2>8, <2>9
<1>3. Sum(T \cap S) <= Sum(S)
  BY <1>2
<1>4. T \cap S = T
  OBVIOUS
<1>. QED
  BY <1>3, <1>4

\* A linear bound on every term bounds the sum.
LEMMA SumBounded ==
  ASSUME NEW S, IsFiniteSet(S), NEW f, NaturalOn(f, S), NEW g, NaturalOn(g, S),
         NEW b \in Nat, NEW k \in Nat, NEW c \in Nat, \A x \in S : b * f[x] <= k * g[x] + c
  PROVE  b * SumFunctionOnSet(f, S) <= k * SumFunctionOnSet(g, S) + c * Cardinality(S)
<1>. DEFINE F(T) == SumFunctionOnSet(f, T)
            G(T) == SumFunctionOnSet(g, T)
            N(T) == Cardinality(T)
            bad == {T \in SUBSET S : ~(b * F(T) <= k * G(T) + c * N(T))}
<1>1. \A T \in SUBSET S : /\ IsFiniteSet(T) /\ NaturalOn(f, T) /\ NaturalOn(g, T)
                          /\ F(T) \in Nat /\ G(T) \in Nat
  BY PartsOfFinite, Zenon
<1>2. bad = {}
  <2>. SUFFICES ASSUME bad # {} PROVE FALSE
    OBVIOUS
  <2>1. PICK T \in bad : \A U \in SUBSET T : U # T => U \notin bad
    <3>1. bad \subseteq SUBSET S
      OBVIOUS
    <3>. HIDE DEF bad
    <3>. QED
      BY <3>1, MinimalExists
  <2>2. ~(b * F(T) <= k * G(T) + c * N(T)) /\ T \in SUBSET S
    OBVIOUS
  <2>3. CASE T = {}
    <3>1. F({}) = 0 /\ G({}) = 0 /\ N({}) = 0
      BY SumOfNone, FS_EmptySet
    <3>. HIDE DEF F, G, N
    <3>. QED
      BY <2>2, <2>3, <3>1
  <2>4. CASE T # {}
    <3>1. PICK x \in T : TRUE
      BY <2>4
    <3>2. F(T) = f[x] + F(T \ {x}) /\ G(T) = g[x] + G(T \ {x})
      BY <1>1, <2>2, SumTakes
    <3>3. N(T \ {x}) \in Nat /\ N(T) = N(T \ {x}) + 1
      <4>1. IsFiniteSet(T) /\ IsFiniteSet(T \ {x})
        BY <1>1, <2>2, FS_RemoveElement, Zenon
      <4>2. N(T \ {x}) \in Nat /\ N(T) \in Nat
        BY <4>1, FS_CardinalityType, Zenon
      <4>3. N(T \ {x}) = N(T) - 1
        BY <4>1, FS_RemoveElement, Zenon
      <4>. HIDE DEF N
      <4>. QED
        BY <4>2, <4>3
    <3>. HIDE DEF F, G, N
    <3>4. b * F(T \ {x}) <= k * G(T \ {x}) + c * N(T \ {x})
      <4>1. T \ {x} \in SUBSET T /\ T \ {x} # T
        OBVIOUS
      <4>. QED
        BY <2>1, <2>2, <4>1
    <3>5. F(T \ {x}) \in Nat /\ G(T \ {x}) \in Nat
      BY <1>1, <2>2
    <3>6. f[x] \in Nat /\ g[x] \in Nat /\ b * f[x] <= k * g[x] + c
      BY <2>2 DEF NaturalOn
    <3>7. /\ b * F(T) = b * f[x] + b * F(T \ {x})
          /\ k * G(T) = k * g[x] + k * G(T \ {x})
          /\ c * N(T) = c * N(T \ {x}) + c
      BY <3>2, <3>3, <3>5, <3>6
    <3>8. /\ b * f[x] \in Int /\ b * F(T \ {x}) \in Int /\ k * g[x] \in Int /\ k * G(T \ {x}) \in Int
          /\ c * N(T \ {x}) \in Int
      BY <3>3, <3>5, <3>6
    <3>. QED
      BY <2>2, <3>4, <3>6, <3>7, <3>8
  <2>. QED
    BY <2>3, <2>4
<1>. QED
  BY <1>2

-----------------------------------------------------------------------------
(***************************************************************************)
(* Products of shares                                                      *)
(***************************************************************************)

Shares(f, S) == \A x \in S : f[x] \in 0..One

\* A rounded product of two shares is a share, and no more than either.
LEMMA TimesOfShares ==
  ASSUME NEW a \in 0..One, NEW b \in 0..One
  PROVE  Times(a, b) \in 0..One /\ Times(a, b) <= a /\ Times(a, b) <= b
<1>1. a * b \in Nat /\ a * b <= a * One /\ a * b <= b * One
  BY OneIs
<1>. DEFINE p == a * b
<1>. HIDE DEF p
<1>2. \A q \in Nat : q <= a * 10000 /\ q <= b * 10000 =>
        /\ (q + 5000) \div 10000 \in Nat
        /\ (q + 5000) \div 10000 <= a
        /\ (q + 5000) \div 10000 <= b
  BY OneIs
<1>3. Times(a, b) = (p + 5000) \div 10000
  BY OneIs DEF Times, p
<1>4. p \in Nat /\ p <= a * 10000 /\ p <= b * 10000
  BY <1>1, OneIs DEF p
<1>. QED
  BY <1>2, <1>3, <1>4, OneIs

Multiplying(f, S) == [p \in S \X (0..One) |-> Times(f[p[1]], p[2])]

\* The product over a set of shares is a share, and no more than any of them.
LEMMA ProductOfShares ==
  ASSUME NEW f, IsFiniteSet(DOMAIN f), Shares(f, DOMAIN f)
  PROVE  /\ FoldFunction(Times, One, f) \in 0..One
         /\ \A x \in DOMAIN f : FoldFunction(Times, One, f) <= f[x]
<1>. DEFINE S == DOMAIN f
            Body(it) == [s \in SUBSET S |->
              IF s = {} THEN One
              ELSE Times(f[CHOOSE x \in s : TRUE], it[s \ {CHOOSE x \in s : TRUE}])]
            product == CHOOSE it : it = Body(it)
<1>1. FoldFunction(Times, One, f) = product[S]
  BY DEF FoldFunction, FoldFunctionOnSet, MapThenFoldSet
<1>2. Multiplying(f, S) \in [S \X (0..One) -> 0..One]
  BY TimesOfShares DEF Multiplying, Shares
<1>3. \E it : it = Body(it)
  <2>1. One \in 0..One /\ \A s \in SUBSET S : s # {} => Chosen(S)[s] \in s
    BY ChosenIsIn, OneIs
  <2>2. PICK it \in [SUBSET S -> 0..One] : Solves(it, Chosen(S), One, Multiplying(f, S), SUBSET S)
    <3>. DEFINE V == 0..One
                step == Multiplying(f, S)
                pick == Chosen(S)
    <3>1. One \in V /\ step \in [S \X V -> V] /\ IsFiniteSet(S)
      BY <1>2, <2>1
    <3>2. \A s \in SUBSET S : s # {} => pick[s] \in s
      BY <2>1
    <3>. HIDE DEF V, S, step, pick
    <3>3. \E it \in [SUBSET S -> V] : Solves(it, pick, One, step, SUBSET S)
      BY <3>1, <3>2, FoldExists
    <3>. QED
      BY <3>3 DEF V, S, step, pick
  <2>3. ASSUME NEW s \in SUBSET S PROVE it[s] = Body(it)[s]
    <3>1. CASE s = {}
      BY <2>2, <3>1 DEF Solves
    <3>2. CASE s # {}
      <4>. DEFINE c == CHOOSE x \in s : TRUE
      <4>1. Chosen(S)[s] = c /\ c \in S /\ it[s \ {c}] \in 0..One
        BY <2>2, <3>2 DEF Chosen
      <4>2. it[s] = Multiplying(f, S)[<<c, it[s \ {c}]>>]
        BY <2>2, <3>2, <4>1 DEF Solves
      <4>3. it[s] = Times(f[c], it[s \ {c}])
        <5>. HIDE DEF c
        <5>. QED
          BY <4>1, <4>2 DEF Multiplying
      <4>. QED
        BY <3>2, <4>3
    <3>. QED
      BY <3>1, <3>2
  <2>4. it = Body(it)
    BY <2>3
  <2>. QED
    BY <2>4
<1>4. product = Body(product)
  BY <1>3
<1>. HIDE DEF product
<1>. DEFINE Fits(s) == product[s] \in 0..One /\ \A x \in s : product[s] <= f[x]
            bad == {s \in SUBSET S : ~Fits(s)}
<1>5. bad = {}
  <2>. SUFFICES ASSUME bad # {} PROVE FALSE
    OBVIOUS
  <2>1. PICK T \in bad : \A U \in SUBSET T : U # T => U \notin bad
    <3>1. bad \subseteq SUBSET S
      OBVIOUS
    <3>. HIDE DEF bad
    <3>. QED
      BY <3>1, MinimalExists
  <2>2. ~Fits(T) /\ T \in SUBSET S
    OBVIOUS
  <2>3. CASE T = {}
    <3>1. product[T] = One
      BY <1>4, <2>2, <2>3
    <3>2. product[T] \in 0..One
      <4>. HIDE DEF bad, Fits
      <4>. QED
        BY <3>1, OneIs
    <3>. QED
      BY <2>2, <2>3, <3>2
  <2>4. CASE T # {}
    <3>. DEFINE c == CHOOSE x \in T : TRUE
    <3>1. c \in T /\ product[T] = Times(f[c], product[T \ {c}])
      BY <1>4, <2>2, <2>4
    <3>. HIDE DEF c
    <3>2. Fits(T \ {c})
      <4>1. T \ {c} \in SUBSET T /\ T \ {c} # T
        BY <3>1
      <4>2. T \ {c} \notin bad /\ T \ {c} \in SUBSET S
        BY <2>1, <2>2, <4>1
      <4>. QED
        BY <4>2
    <3>3. f[c] \in 0..One
      BY <2>2, <3>1 DEF Shares
    <3>4. /\ product[T] \in 0..One /\ product[T] <= f[c]
          /\ product[T] <= product[T \ {c}]
      BY <3>1, <3>2, <3>3, TimesOfShares
    <3>5. ASSUME NEW x \in T PROVE product[T] <= f[x]
      <4>1. CASE x = c
        BY <3>4, <4>1
      <4>2. CASE x # c
        <5>1. product[T \ {c}] <= f[x] /\ product[T \ {c}] \in 0..One
          BY <3>2, <4>2
        <5>2. f[x] \in 0..One
          BY <2>2 DEF Shares
        <5>. HIDE DEF Fits
        <5>. QED
          BY <3>4, <5>1, <5>2
      <4>. QED
        BY <4>1, <4>2
    <3>. QED
      BY <2>2, <3>4, <3>5
  <2>. QED
    BY <2>3, <2>4
<1>6. Fits(S)
  BY <1>5
<1>. QED
  BY <1>1, <1>6

-----------------------------------------------------------------------------
(***************************************************************************)
(* Rounding                                                                *)
(***************************************************************************)

LEMMA InRangeIsNatural ==
  ASSUME NEW a \in Nat, NEW b \in Nat, NEW x \in a..b
  PROVE  x \in Nat /\ a <= x /\ x <= b
OBVIOUS

\* Products of naturals grow with their factors.
LEMMA ProductsGrow ==
  ASSUME NEW a \in Nat, NEW b \in Nat, NEW m \in Nat, NEW n \in Nat, m <= a, n <= b
  PROVE  a * b \in Nat /\ m * n \in Nat /\ m * n <= a * b
<1>1. m * n \in Nat /\ a * n \in Nat /\ a * b \in Nat
  OBVIOUS
<1>2. m * n <= a * n
  OBVIOUS
<1>3. a * n <= a * b
  OBVIOUS
<1>. QED
  BY <1>1, <1>2, <1>3

\* A quotient by its bounds.
LEMMA QuotientBounds ==
  ASSUME NEW a \in Nat, NEW b \in Nat, b > 0
  PROVE  /\ a \div b \in Nat
         /\ \A k \in Nat : k * b <= a => k <= a \div b
         /\ \A k \in Nat : a < (k + 1) * b => a \div b <= k
<1>. DEFINE q == a \div b
<1>1. q \in Int /\ b * q <= a /\ a < b * q + b
  OBVIOUS
<1>. HIDE DEF q
<1>2. q \in Nat
  <2>. SUFFICES ASSUME q <= -1 PROVE FALSE
    BY <1>1
  <2>1. b * q <= b * (-1)
    BY <1>1
  <2>. QED
    BY <1>1, <2>1
<1>3. ASSUME NEW k \in Nat, k * b <= a PROVE k <= q
  <2>. SUFFICES ASSUME q + 1 <= k PROVE FALSE
    BY <1>2
  <2>1. (q + 1) * b <= k * b
    BY <1>2
  <2>2. (q + 1) * b = b * q + b
    BY <1>2
  <2>. QED
    BY <1>1, <1>2, <1>3, <2>1, <2>2
<1>4. ASSUME NEW k \in Nat, a < (k + 1) * b PROVE q <= k
  <2>. SUFFICES ASSUME k + 1 <= q PROVE FALSE
    BY <1>2
  <2>1. (k + 1) * b <= q * b
    BY <1>2
  <2>2. q * b = b * q
    BY <1>2
  <2>. QED
    BY <1>1, <1>2, <1>4, <2>1, <2>2
<1>. QED
  BY <1>2, <1>3, <1>4 DEF q

LEMMA RatioIsShare ==
  ASSUME NEW a \in Nat, NEW b \in Nat, b > 0, a <= b
  PROVE  Ratio(a, b) \in 0..One /\ (a = b => Ratio(a, b) = One)
<1>. DEFINE n == a * 10000 + b \div 2
<1>1. Ratio(a, b) = n \div b
  BY OneIs DEF Ratio
<1>2. n \in Nat /\ n < (10000 + 1) * b /\ (a = b => 10000 * b <= n)
  OBVIOUS
<1>. HIDE DEF n
<1>. DEFINE q == n \div b
<1>3. q \in Nat /\ q <= 10000 /\ (a = b => 10000 <= q)
  BY <1>2, QuotientBounds
<1>. HIDE DEF q
<1>4. Ratio(a, b) = q
  BY <1>1 DEF q
<1>. QED
  BY <1>3, <1>4, OneIs

\* To three decimals: a share stays one, and moves by no more than half a unit.
LEMMA RoundedShare ==
  ASSUME NEW x \in 0..One
  PROVE  Round3(x) \in 0..One /\ x <= Round3(x) + 4 /\ Round3(x) <= x + 5
BY OneIs DEF Round3

LEMMA DampedShare ==
  ASSUME NEW c \in 0..One, NEW coverage \in 0..One
  PROVE  dampByCoverage(c, coverage) \in 0..One
<1>1. 3500 + (65 * coverage) \div 100 \in 0..One
  BY OneIs
<1>2. Times(c, 3500 + (65 * coverage) \div 100) \in 0..One
  BY <1>1, TimesOfShares
<1>. QED
  BY <1>2, RoundedShare DEF dampByCoverage

\* A mean of shares is a share.
LEMMA MeanIsShare ==
  ASSUME NEW S, IsFiniteSet(S), S # {}, NEW weight, \A x \in S : weight[x] \in Nat /\ weight[x] > 0,
         NEW share, NEW bound \in Nat, \A x \in S : share[x] \in 0..bound
  PROVE  LET weighted == [x \in S |-> share[x] * weight[x]]
         IN  /\ SumFunction(weighted) \in Nat /\ SumFunctionOnSet(weight, S) \in Nat
             /\ SumFunctionOnSet(weight, S) > 0
             /\ SumFunction(weighted) <= bound * SumFunctionOnSet(weight, S)
<1>. DEFINE weighted == [x \in S |-> share[x] * weight[x]]
<1>1. \A x \in S : weighted[x] = share[x] * weight[x]
  OBVIOUS
<1>2. SumFunction(weighted) = SumFunctionOnSet(weighted, S)
  BY DEF SumFunction
<1>. HIDE DEF weighted
<1>3. ASSUME NEW x \in S PROVE weighted[x] \in Nat /\ weighted[x] <= bound * weight[x]
  <2>. DEFINE a == share[x]
              w == weight[x]
  <2>1. a \in Nat /\ w \in Nat /\ a <= bound /\ weighted[x] = a * w
    BY <1>1
  <2>. HIDE DEF a, w
  <2>2. a * w \in Nat /\ a * w <= bound * w
    BY <2>1, ProductsGrow
  <2>. QED
    BY <2>1, <2>2 DEF w
<1>4. NaturalOn(weighted, S) /\ NaturalOn(weight, S)
  BY <1>3 DEF NaturalOn
<1>5. SumFunctionOnSet(weighted, S) <= bound * SumFunctionOnSet(weight, S)
  BY <1>3, <1>4, SumScaled
<1>6. SumFunctionOnSet(weighted, S) \in Nat /\ SumFunctionOnSet(weight, S) \in Nat
  BY <1>4, SumIsNatural
<1>7. SumFunctionOnSet(weight, S) > 0
  <2>1. PICK x \in S : TRUE
    OBVIOUS
  <2>2. weight[x] <= SumFunctionOnSet(weight, S)
    BY <1>4, TermIsInSum
  <2>3. weight[x] \in Nat /\ weight[x] > 0
    OBVIOUS
  <2>. QED
    BY <1>6, <2>2, <2>3
<1>. QED
  BY <1>2, <1>5, <1>6, <1>7 DEF weighted

-----------------------------------------------------------------------------
(***************************************************************************)
(* Extremes                                                                *)
(***************************************************************************)

LEMMA MinOfNaturals ==
  ASSUME NEW numbers, numbers # {}, numbers \subseteq Nat
  PROVE  Min(numbers) \in numbers /\ \A n \in numbers : Min(numbers) <= n
<1>1. \E n \in numbers : \A m \in numbers : n <= m
  BY LeastExists
<1>. QED
  BY <1>1 DEF Min

LEMMA MaxOfBounded ==
  ASSUME NEW numbers, numbers # {}, NEW bound \in Nat, numbers \subseteq 0..bound
  PROVE  Max(numbers) \in numbers /\ \A n \in numbers : n <= Max(numbers)
<1>1. \E n \in numbers : \A m \in numbers : m <= n
  BY GreatestExists
<1>. QED
  BY <1>1 DEF Max

\* What a function makes of a finite set is finite.
LEMMA ImageIsFinite ==
  ASSUME NEW S, IsFiniteSet(S), NEW f
  PROVE  IsFiniteSet({f[x] : x \in S})
<1>. DEFINE T == {f[x] : x \in S}
            g == [x \in S |-> f[x]]
<1>1. g \in Surjection(S, T)
  BY DEF Surjection
<1>. QED
  BY <1>1, FS_Surjection

-----------------------------------------------------------------------------
(***************************************************************************)
(* Inferences                                                              *)
(***************************************************************************)

\* What the folds over a set of inferences need to know of it.
Weighed(inferences) ==
  /\ IsFiniteSet(inferences)
  /\ \A i \in inferences : i.weight \in Nat /\ i.confidence \in 0..One

LEMMA PartIsWeighed ==
  ASSUME NEW inferences, Weighed(inferences), NEW part \in SUBSET inferences
  PROVE  Weighed(part)
BY FS_Subset DEF Weighed

\* Corroboration is a share, and no weaker than any of the inferences.
LEMMA CorroborationIsShare ==
  ASSUME NEW inferences, Weighed(inferences)
  PROVE  /\ corroborate(inferences) \in 0..One
         /\ \A i \in inferences : i.confidence <= corroborate(inferences)
<1>. DEFINE groups == {SourcesOf(i) : i \in inferences}
            among(g) == {i.confidence : i \in {j \in inferences : SourcesOf(j) = g}}
            strongest(g) == Max(among(g))
            f == [g \in groups |-> One - strongest(g)]
            product == FoldFunction(Times, One, f)
<1>1. corroborate(inferences) = One - product
  BY DEF corroborate
<1>2. IsFiniteSet(groups)
  <2>. DEFINE sources == [i \in inferences |-> SourcesOf(i)]
  <2>1. IsFiniteSet({sources[i] : i \in inferences})
    BY ImageIsFinite DEF Weighed
  <2>2. groups = {sources[i] : i \in inferences}
    OBVIOUS
  <2>. QED
    BY <2>1, <2>2
<1>3. ASSUME NEW g \in groups
      PROVE  strongest(g) \in 0..One /\ \A n \in among(g) : n <= strongest(g)
  <2>1. among(g) # {} /\ among(g) \subseteq 0..One /\ One \in Nat
    BY OneIs DEF Weighed
  <2>2. strongest(g) \in among(g) /\ \A n \in among(g) : n <= strongest(g)
    <3>. HIDE DEF among
    <3>. QED
      BY <2>1, MaxOfBounded
  <2>. QED
    BY <2>1, <2>2
<1>4. DOMAIN f = groups /\ Shares(f, groups)
  <2>1. ASSUME NEW g \in groups PROVE f[g] \in 0..One
    <3>. DEFINE m == strongest(g)
    <3>1. f[g] = One - m
      OBVIOUS
    <3>2. m \in 0..One
      BY <1>3
    <3>. HIDE DEF f, m, groups
    <3>3. One - m \in 0..One
      BY <3>2, OneIs
    <3>. QED
      BY <3>1, <3>3
  <2>2. DOMAIN f = groups
    OBVIOUS
  <2>. HIDE DEF f, groups
  <2>. QED
    BY <2>1, <2>2 DEF Shares
<1>5. /\ product \in 0..One
      /\ \A g \in groups : product <= f[g]
  <2>. HIDE DEF f, groups
  <2>. QED
    BY <1>2, <1>4, ProductOfShares
<1>6. ASSUME NEW i \in inferences PROVE i.confidence <= One - product
  <2>. DEFINE g == SourcesOf(i)
  <2>1. g \in groups /\ i.confidence \in among(g) /\ i.confidence \in 0..One
    BY DEF Weighed
  <2>. DEFINE m == strongest(g)
              c == i.confidence
  <2>2. f[g] = One - m
    BY <2>1
  <2>3. m \in 0..One /\ c <= m /\ product <= f[g] /\ product \in 0..One /\ c \in 0..One
    <3>. HIDE DEF f, strongest, among, groups, g, product
    <3>. QED
      BY <1>3, <1>5, <2>1
  <2>. HIDE DEF f, m, c, product, g
  <2>4. c <= One - product
    BY <2>2, <2>3, OneIs
  <2>. QED
    BY <2>4 DEF c
<1>. HIDE DEF f, product
<1>. QED
  BY <1>1, <1>5, <1>6, OneIs

LEMMA MassIsNatural ==
  ASSUME NEW inferences, Weighed(inferences)
  PROVE  /\ Mass(inferences) \in Nat
         /\ \A i \in inferences : (i.weight * i.confidence) \div 100 <= Mass(inferences)
         /\ \A i \in inferences : inferences = {i} => Mass(inferences) = (i.weight * i.confidence) \div 100
<1>. DEFINE f == [i \in inferences |-> i.weight * i.confidence]
            sum == SumFunctionOnSet(f, inferences)
<1>1. Mass(inferences) = sum \div 100
  BY DEF Mass, SumFunction
<1>2. IsFiniteSet(inferences) /\ NaturalOn(f, inferences)
  <2>1. ASSUME NEW i \in inferences PROVE f[i] \in Nat
    <3>1. i.weight \in Nat /\ i.confidence \in Nat
      <4>. HIDE DEF f, sum
      <4>1. i.weight \in Nat /\ i.confidence \in 0..One
        BY Zenon DEF Weighed
      <4>2. \A x \in 0..One : x \in Nat
        BY OneIs
      <4>. QED
        BY <4>1, <4>2, Zenon
    <3>2. i.weight * i.confidence \in Nat
      BY <3>1
    <3>. QED
      BY <3>2
  <2>. HIDE DEF f
  <2>. QED
    BY <2>1 DEF Weighed, NaturalOn
<1>3. sum \in Nat
  BY <1>2, SumIsNatural
<1>4. ASSUME NEW i \in inferences
      PROVE  f[i] \in Nat /\ f[i] <= sum /\ (inferences = {i} => sum = f[i])
  <2>. HIDE DEF f
  <2>. QED
    BY <1>2, TermIsInSum, SumOfOne DEF NaturalOn
<1>5. \A i \in inferences : f[i] = i.weight * i.confidence
  OBVIOUS
<1>. HIDE DEF f, sum
<1>6. \A n, m \in Nat : n <= m => n \div 100 \in Nat /\ m \div 100 \in Nat /\ n \div 100 <= m \div 100
  OBVIOUS
<1>. QED
  BY <1>1, <1>3, <1>4, <1>5, <1>6

LEMMA MassOfNone == Mass({}) = 0
<1>. DEFINE f == [i \in {} |-> i.weight * i.confidence]
<1>1. Mass({}) = SumFunctionOnSet(f, {}) \div 100
  BY DEF Mass, SumFunction
<1>2. SumFunctionOnSet(f, {}) = 0
  BY SumOfNone
<1>. QED
  BY <1>1, <1>2

\* Agreement of two masses is a share; unopposed, it is complete.
LEMMA AgreementIsShare ==
  ASSUME NEW winning \in Nat, NEW opposing \in Nat
  PROVE  /\ agreement(winning, opposing) \in 0..One
         /\ winning > 0 /\ opposing = 0 => agreement(winning, opposing) = One
<1>1. CASE winning + opposing = 0
  BY <1>1, OneIs DEF agreement
<1>2. CASE winning + opposing # 0
  BY <1>2, RatioIsShare DEF agreement
<1>. QED
  BY <1>1, <1>2

LEMMA VerdictConfidenceIsShare ==
  ASSUME NEW supporting, Weighed(supporting), NEW opposing \in Nat
  PROVE  /\ verdictConfidence(supporting, opposing) \in 0..One
         /\ Mass(supporting) > 0 /\ opposing = 0 =>
              \A i \in supporting : i.confidence <= verdictConfidence(supporting, opposing) + 4
<1>. DEFINE c == corroborate(supporting)
            a == agreement(Mass(supporting), opposing)
<1>1. verdictConfidence(supporting, opposing) = Round3(Times(c, a))
  BY DEF verdictConfidence
<1>2. c \in 0..One /\ \A i \in supporting : i.confidence <= c
  BY CorroborationIsShare
<1>3. a \in 0..One /\ (Mass(supporting) > 0 /\ opposing = 0 => a = One)
  BY MassIsNatural, AgreementIsShare
<1>. HIDE DEF c, a
<1>4. Times(c, a) \in 0..One
  BY <1>2, <1>3, TimesOfShares
<1>5. a = One => Times(c, a) = c
  BY <1>2, OneIs DEF Times
<1>6. \A i \in supporting : i.confidence \in 0..One
  BY DEF Weighed
<1>. DEFINE v == Times(c, a)
<1>7. Round3(v) \in 0..One /\ v <= Round3(v) + 4
  BY <1>4, RoundedShare
<1>. HIDE DEF v
<1>8. ASSUME Mass(supporting) > 0, opposing = 0, NEW i \in supporting
      PROVE  i.confidence <= Round3(v) + 4
  <2>1. v = c
    BY <1>3, <1>5, <1>8 DEF v
  <2>. QED
    BY <1>2, <1>6, <1>7, <2>1
<1>. QED
  BY <1>1, <1>7, <1>8 DEF v
=============================================================================
