------------------------------- MODULE SetTheorems -------------------------------
(***************************************************************************)
(* What several of the proofs need to know of finite sets, of the least    *)
(* and the largest of a set of numbers, and of sums.  The sums of the      *)
(* community modules are folds with an operator for a parameter; here the  *)
(* weights are a function, so that induction over the set summed is        *)
(* induction over the members of a set of sets.                            *)
(***************************************************************************)
EXTENDS Integers, FiniteSetsExt, FiniteSetTheorems, WellFoundedInduction, TLAPS

-------------------------------------------------------------------------------
(* Numbers.                                                                *)

(* The order of the natural numbers.                                       *)
Before == {ss \in Nat \X Nat : ss[1] < ss[2]}
(* It has no infinite descent.                                             *)
LEMMA BeforeIsWellFounded == IsWellFoundedOn(Before, Nat)
BY NatLessThanWellFounded DEF OpToRel, Before

(* A set of numbers with a member has a least one, which Min chooses.      *)
LEMMA Least ==
  ASSUME NEW S \in SUBSET Nat, S # {}
  PROVE  Min(S) \in S /\ \A y \in S : Min(S) <= y
<1>1. PICK x \in S : \A y \in S : ~(<<y, x>> \in Before)
  BY BeforeIsWellFounded, WFMin
<1>2. ASSUME NEW y \in S PROVE x <= y
  <2>1. x \in Nat /\ y \in Nat
    OBVIOUS
  <2>2. <<y, x>> \in Nat \X Nat /\ <<y, x>>[1] = y /\ <<y, x>>[2] = x
    BY <2>1
  <2>3. ~(y < x)
    BY <1>1, <2>2 DEF Before
  <2> QED BY <2>1, <2>3
<1> QED BY <1>2 DEF Min

(* The largest of some numbers is what Max chooses.                        *)
LEMMA Largest ==
  ASSUME NEW S \in SUBSET Nat, NEW x \in S, \A y \in S : y <= x
  PROVE  Max(S) = x
<1>1. \A z \in S : (\A y \in S : z >= y) => z = x
  <2>1. SUFFICES ASSUME NEW z \in S, \A y \in S : z >= y PROVE z = x
    OBVIOUS
  <2>2. z >= x /\ x >= z /\ z \in Nat /\ x \in Nat
    BY <2>1
  <2> QED BY <2>2
<1>2. \A y \in S : x >= y
  OBVIOUS
<1> QED BY <1>1, <1>2 DEF Max

(* A product grows with what is multiplied.                                *)
LEMMA Products ==
  ASSUME NEW a \in Nat, NEW b \in Nat, NEW c \in Nat, a <= b
  PROVE  a * c <= b * c
<1>1. PICK k \in Nat : b = a + k
  <2>1. b - a \in Nat /\ b = a + (b - a)
    OBVIOUS
  <2> QED BY <2>1
<1>2. (a + k) * c = a * c + k * c /\ a * c \in Nat /\ k * c \in Nat
  OBVIOUS
<1> QED BY <1>1, <1>2

-------------------------------------------------------------------------------
(* Finite sets.                                                            *)

(* A part of a finite set counts no more than it.                          *)
LEMMA PartCounts ==
  ASSUME NEW S, IsFiniteSet(S), NEW T \in SUBSET S
  PROVE  /\ IsFiniteSet(T) /\ Cardinality(T) \in Nat /\ Cardinality(S) \in Nat
         /\ Cardinality(T) <= Cardinality(S)
         /\ Cardinality(T) = Cardinality(S) => T = S
BY FS_Subset, FS_CardinalityType

(* What holds of a finite set if it holds of every subset from which it    *)
(* is one member away holds of all its subsets.                            *)
LEMMA SetInduction ==
  ASSUME NEW S, IsFiniteSet(S), NEW Good,
         \A T \in SUBSET S : (\A x \in T : T \ {x} \in Good) => T \in Good
  PROVE  \A T \in SUBSET S : T \in Good
<1>1. SUFFICES ASSUME {T \in SUBSET S : T \notin Good} # {} PROVE FALSE
  OBVIOUS
<1>2. PICK Bad : Bad = {T \in SUBSET S : T \notin Good}
  OBVIOUS
<1>3. Bad \in SUBSET FiniteSubsetsOf(S) /\ Bad # {}
  BY <1>1, <1>2, FS_Subset DEF FiniteSubsetsOf
<1>4. PICK T \in Bad : \A U \in Bad : ~(<<U, T>> \in StrictSubsetOrdering(S))
  BY <1>3, FS_StrictSubsetOrderingWellFounded, WFMin
<1>5. ASSUME NEW x \in T PROVE T \ {x} \in Good
  <2>1. T \in SUBSET S /\ T \ {x} \in SUBSET S /\ T \ {x} \subseteq T /\ T \ {x} # T
    BY <1>2
  <2>2. <<T \ {x}, T>> \in StrictSubsetOrdering(S)
    BY <2>1 DEF StrictSubsetOrdering
  <2> QED BY <1>2, <1>4, <2>1, <2>2
<1> QED BY <1>2, <1>5

(* What a finite set is mapped to is finite.                               *)
LEMMA ImageIsFinite ==
  ASSUME NEW S, IsFiniteSet(S), NEW T, NEW f \in [S -> T], \A y \in T : \E x \in S : f[x] = y
  PROVE  IsFiniteSet(T) /\ Cardinality(T) <= Cardinality(S)
<1>1. f \in Surjection(S, T)
  BY DEF Surjection
<1> QED BY <1>1, FS_Surjection

-------------------------------------------------------------------------------
(* Sums.                                                                   *)

(* The sum of the weights of the members of S.                             *)
Weighed(w, S) == MapThenSumSet(LAMBDA s : w[s], S)

(* The fold takes the member CHOOSE gives, and goes on with the others.    *)
Pick(S) == CHOOSE x \in S : TRUE
Adds(it, w, S) ==
  it = [s \in SUBSET S |-> IF s = {} THEN 0 ELSE w[Pick(s)] + it[s \ {Pick(s)}]]
Total(w, S) == CHOOSE it : Adds(it, w, S)

-------------------------------------------------------------------------------
(* A member that is picked is one of the set.                              *)
LEMMA Picked ==
  ASSUME NEW S, S # {}
  PROVE  Pick(S) \in S
BY DEF Pick

(* What a function that adds gives.                                        *)
LEMMA AddsStep ==
  ASSUME NEW it, NEW w, NEW S, Adds(it, w, S), NEW T \in SUBSET S
  PROVE  it[T] = IF T = {} THEN 0 ELSE w[Pick(T)] + it[T \ {Pick(T)}]
BY DEF Adds

(* Two functions that add agree on what both are defined for,              *)
LEMMA AddsUnique ==
  ASSUME NEW R, NEW S, IsFiniteSet(R \cap S), NEW w, NEW f, NEW g,
         Adds(f, w, R), Adds(g, w, S)
  PROVE  \A T \in SUBSET (R \cap S) : f[T] = g[T]
<1>1. PICK Good : Good = {T \in SUBSET (R \cap S) : f[T] = g[T]}
  OBVIOUS
<1>2. ASSUME NEW T \in SUBSET (R \cap S), \A x \in T : T \ {x} \in Good
      PROVE  T \in Good
  <2>1. T \in SUBSET R /\ T \in SUBSET S
    OBVIOUS
  <2>2. f[T] = IF T = {} THEN 0 ELSE w[Pick(T)] + f[T \ {Pick(T)}]
    BY <2>1, AddsStep
  <2>3. g[T] = IF T = {} THEN 0 ELSE w[Pick(T)] + g[T \ {Pick(T)}]
    BY <2>1, AddsStep
  <2>4. T # {} => T \ {Pick(T)} \in Good
    BY <1>2, Picked
  <2> QED BY <1>1, <2>2, <2>3, <2>4
<1>3. \A T \in SUBSET (R \cap S) : T \in Good
  BY <1>2, SetInduction
<1> QED BY <1>1, <1>3

(* and one adds over every finite set.                                     *)
LEMMA AddsExists ==
  ASSUME NEW S, IsFiniteSet(S), NEW w
  PROVE  \E it : Adds(it, w, S)
<1> DEFINE Good == {T \in SUBSET S : \E it : Adds(it, w, T)}
<1>1. ASSUME NEW T \in SUBSET S, T # {}, \E it : Adds(it, w, T)
      PROVE  Total(w, T)[T] = w[Pick(T)] + Total(w, T \ {Pick(T)})[T \ {Pick(T)}]
  <2>1. PICK U : U = T \ {Pick(T)}
    OBVIOUS
  <2>2. PICK f : f = Total(w, T)
    OBVIOUS
  <2>3. Adds(f, w, T)
    BY <1>1, <2>2 DEF Total
  <2>4. f[T] = w[Pick(T)] + f[U]
    BY <1>1, <2>1, <2>3, AddsStep
  <2>5. PICK g : g = [s \in SUBSET U |-> f[s]]
    OBVIOUS
  <2>6. Adds(g, w, U)
    <3>1. \A s \in SUBSET U : f[s] = IF s = {} THEN 0 ELSE w[Pick(s)] + f[s \ {Pick(s)}]
      BY <2>1, <2>3, AddsStep
    <3>2. \A s \in SUBSET U : g[s] = f[s] /\ g[s \ {Pick(s)}] = f[s \ {Pick(s)}]
      BY <2>5
    <3>3. \A s \in SUBSET U : f[s] = IF s = {} THEN 0 ELSE w[Pick(s)] + g[s \ {Pick(s)}]
      BY <3>1, <3>2
    <3>4. g = [s \in SUBSET U |-> IF s = {} THEN 0 ELSE w[Pick(s)] + g[s \ {Pick(s)}]]
      BY <2>5, <3>3
    <3> QED BY <3>4 DEF Adds
  <2>7. Adds(Total(w, U), w, U)
    BY <2>6 DEF Total
  <2>8. IsFiniteSet(U \cap U) /\ U \in SUBSET (U \cap U)
    <3>1. U \in SUBSET S /\ U \cap U = U
      BY <2>1
    <3> QED BY <3>1, FS_Subset
  <2>9. Total(w, U)[U] = g[U]
    BY <2>6, <2>7, <2>8, AddsUnique
  <2>10. g[U] = f[U]
    BY <2>5
  <2> QED BY <2>1, <2>2, <2>4, <2>9, <2>10
<1>2. ASSUME NEW T \in SUBSET S, \A x \in T : T \ {x} \in Good
      PROVE  T \in Good
  <2>1. ASSUME NEW U \in SUBSET T, U # T PROVE \E it : Adds(it, w, U)
    <3>1. PICK x \in T : U \subseteq T \ {x}
      BY <2>1
    <3>2. PICK R : R = T \ {x}
      OBVIOUS
    <3>3. PICK f : Adds(f, w, R)
      BY <1>2, <3>2
    <3>4. PICK g : g = [s \in SUBSET U |-> f[s]]
      OBVIOUS
    <3>5. \A s \in SUBSET U : f[s] = IF s = {} THEN 0 ELSE w[Pick(s)] + f[s \ {Pick(s)}]
      BY <3>1, <3>2, <3>3, AddsStep
    <3>6. \A s \in SUBSET U : f[s] = IF s = {} THEN 0 ELSE w[Pick(s)] + g[s \ {Pick(s)}]
      BY <3>4, <3>5
    <3>7. g = [s \in SUBSET U |-> IF s = {} THEN 0 ELSE w[Pick(s)] + g[s \ {Pick(s)}]]
      BY <3>4, <3>6
    <3> QED BY <3>7 DEF Adds
  <2>2. PICK it : it = [s \in SUBSET T |->
                          IF s = {} THEN 0 ELSE w[Pick(s)] + Total(w, s \ {Pick(s)})[s \ {Pick(s)}]]
    OBVIOUS
  <2>3. ASSUME NEW U \in SUBSET T, U # T PROVE it[U] = Total(w, U)[U]
    <3>1. \E f : Adds(f, w, U)
      BY <2>1, <2>3
    <3>2. CASE U = {}
      <4>1. Adds(Total(w, U), w, U)
        BY <3>1 DEF Total
      <4>2. Total(w, U)[U] = 0
        BY <3>2, <4>1, AddsStep
      <4> QED BY <2>2, <3>2, <4>2
    <3>3. CASE U # {}
      <4>1. U \in SUBSET S
        OBVIOUS
      <4>2. Total(w, U)[U] = w[Pick(U)] + Total(w, U \ {Pick(U)})[U \ {Pick(U)}]
        BY <1>1, <3>1, <3>3, <4>1
      <4> QED BY <2>2, <3>3, <4>2
    <3> QED BY <3>2, <3>3
  <2>4. ASSUME NEW s \in SUBSET T, s # {} PROVE it[s \ {Pick(s)}] = Total(w, s \ {Pick(s)})[s \ {Pick(s)}]
    <3>1. Pick(s) \in s
      BY <2>4, Picked
    <3>2. s \ {Pick(s)} \in SUBSET T /\ s \ {Pick(s)} # T
      BY <3>1
    <3> QED BY <2>3, <3>2
  <2>5. it = [s \in SUBSET T |-> IF s = {} THEN 0 ELSE w[Pick(s)] + it[s \ {Pick(s)}]]
    BY <2>2, <2>4
  <2> QED BY <2>5 DEF Adds
<1>3. \A T \in SUBSET S : T \in Good
  BY <1>2, SetInduction
<1> QED BY <1>3

-------------------------------------------------------------------------------
(* A sum is what any function that adds gives.                             *)
LEMMA WeighedAdds ==
  ASSUME NEW S, IsFiniteSet(S), NEW w, NEW it, Adds(it, w, S)
  PROVE  \A T \in SUBSET S : Weighed(w, T) = it[T]
<1>1. SUFFICES ASSUME NEW T \in SUBSET S PROVE Weighed(w, T) = it[T]
  OBVIOUS
<1>2. Weighed(w, T) = (CHOOSE f : Adds(f, w, T))[T]
  BY Zenon DEF Weighed, MapThenSumSet, MapThenFoldSet, Adds, Pick
<1>3. PICK g : g = CHOOSE f : Adds(f, w, T)
  OBVIOUS
<1>4. IsFiniteSet(T) /\ IsFiniteSet(T \cap S) /\ T \in SUBSET (T \cap S)
  <2>1. T \cap S = T
    OBVIOUS
  <2> QED BY <2>1, FS_Subset
<1>5. \E f : Adds(f, w, T)
  BY <1>4, AddsExists
<1>6. Adds(g, w, T)
  BY <1>3, <1>5
<1>7. g[T] = it[T]
  BY <1>4, <1>6, AddsUnique
<1> QED BY <1>2, <1>3, <1>7

(* The sum over no members is zero.                                        *)
LEMMA SumOfNone ==
  ASSUME NEW w
  PROVE  Weighed(w, {}) = 0
<1>1. PICK it : Adds(it, w, {})
  BY AddsExists, FS_EmptySet
<1>2. Weighed(w, {}) = it[{}]
  BY <1>1, FS_EmptySet, WeighedAdds
<1> QED BY <1>1, <1>2, AddsStep

(* Numbers weigh a number,                                                 *)
LEMMA SumIsNumber ==
  ASSUME NEW S, IsFiniteSet(S), NEW w, \A s \in S : w[s] \in Nat
  PROVE  Weighed(w, S) \in Nat
<1>1. PICK it : Adds(it, w, S)
  BY AddsExists
<1>2. PICK Good : Good = {T \in SUBSET S : it[T] \in Nat}
  OBVIOUS
<1>3. ASSUME NEW T \in SUBSET S, \A x \in T : T \ {x} \in Good PROVE T \in Good
  <2>1. it[T] = IF T = {} THEN 0 ELSE w[Pick(T)] + it[T \ {Pick(T)}]
    BY <1>1, AddsStep
  <2>2. T # {} => Pick(T) \in T
    BY Picked
  <2>3. T # {} => w[Pick(T)] \in Nat /\ it[T \ {Pick(T)}] \in Nat
    BY <1>2, <1>3, <2>2
  <2> QED BY <1>2, <2>1, <2>3
<1>4. \A T \in SUBSET S : T \in Good
  BY <1>3, SetInduction
<1> QED BY <1>1, <1>2, <1>4, WeighedAdds

(* and one member weighs what it adds, whichever is added last.            *)
LEMMA SumLess ==
  ASSUME NEW S, IsFiniteSet(S), NEW w, \A s \in S : w[s] \in Nat, NEW e \in S
  PROVE  Weighed(w, S) = w[e] + Weighed(w, S \ {e})
<1>1. PICK it : Adds(it, w, S)
  BY AddsExists
<1>2. \A T \in SUBSET S : it[T] = Weighed(w, T)
  BY <1>1, WeighedAdds
<1>3. \A T \in SUBSET S : it[T] \in Nat
  <2>1. ASSUME NEW T \in SUBSET S PROVE it[T] \in Nat
    <3>1. IsFiniteSet(T) /\ \A s \in T : w[s] \in Nat
      BY FS_Subset
    <3> QED BY <1>2, <3>1, SumIsNumber
  <2> QED BY <2>1
<1>4. PICK Good : Good = {T \in SUBSET S : \A x \in T : it[T] = w[x] + it[T \ {x}]}
  OBVIOUS
<1>5. ASSUME NEW T \in SUBSET S, \A x \in T : T \ {x} \in Good PROVE T \in Good
  <2>1. SUFFICES ASSUME NEW x \in T PROVE it[T] = w[x] + it[T \ {x}]
    BY <1>4
  <2>2. PICK p \in T : p = Pick(T)
    BY Picked
  <2>3. it[T] = w[p] + it[T \ {p}]
    BY <1>1, <2>2, AddsStep
  <2>4. CASE x # p
    <3>1. x \in T \ {p} /\ p \in T \ {x} /\ (T \ {p}) \ {x} = (T \ {x}) \ {p}
      BY <2>4
    <3>2. it[T \ {p}] = w[x] + it[(T \ {p}) \ {x}]
      BY <1>4, <1>5, <3>1
    <3>3. it[T \ {x}] = w[p] + it[(T \ {x}) \ {p}]
      BY <1>4, <1>5, <3>1
    <3>4. PICK rest \in Nat : rest = it[(T \ {p}) \ {x}]
      BY <1>3
    <3>5. w[x] \in Nat /\ w[p] \in Nat
      OBVIOUS
    <3> QED BY <2>3, <3>1, <3>2, <3>3, <3>4, <3>5
  <2> QED BY <2>3, <2>4
<1>6. \A T \in SUBSET S : T \in Good
  BY <1>5, SetInduction
<1>7. S \in SUBSET S /\ S \ {e} \in SUBSET S
  OBVIOUS
<1> QED BY <1>2, <1>4, <1>6, <1>7

(* A member more adds its weight.                                          *)
LEMMA SumMore ==
  ASSUME NEW S, IsFiniteSet(S), NEW w, \A s \in S : w[s] \in Nat,
         NEW e, e \notin S, w[e] \in Nat
  PROVE  Weighed(w, S \cup {e}) = Weighed(w, S) + w[e]
<1>1. PICK T : T = S \cup {e}
  OBVIOUS
<1>2. IsFiniteSet(T) /\ (\A s \in T : w[s] \in Nat) /\ e \in T /\ T \ {e} = S
  BY <1>1, FS_AddElement
<1>3. Weighed(w, T) = w[e] + Weighed(w, T \ {e})
  BY <1>2, SumLess
<1>4. Weighed(w, S) \in Nat
  BY SumIsNumber
<1> QED BY <1>1, <1>2, <1>3, <1>4

(* Disjoint sets weigh together what each of them weighs,                  *)
LEMMA SumOfBoth ==
  ASSUME NEW R, IsFiniteSet(R), NEW S, IsFiniteSet(S), R \cap S = {},
         NEW w, \A s \in R \cup S : w[s] \in Nat
  PROVE  Weighed(w, R \cup S) = Weighed(w, R) + Weighed(w, S)
<1>1. Weighed(w, R) \in Nat
  BY SumIsNumber
<1>2. PICK Good : Good = {T \in SUBSET S : Weighed(w, R \cup T) = Weighed(w, R) + Weighed(w, T)}
  OBVIOUS
<1>3. ASSUME NEW T \in SUBSET S, \A x \in T : T \ {x} \in Good PROVE T \in Good
  <2>1. CASE T = {}
    <3>1. R \cup T = R
      BY <2>1
    <3> QED BY <1>1, <1>2, <2>1, <3>1, SumOfNone
  <2>2. CASE T # {}
    <3>1. PICK e \in T : TRUE
      BY <2>2
    <3>2. PICK U : U = T \ {e}
      OBVIOUS
    <3>3. PICK V : V = R \cup U
      OBVIOUS
    <3>4. IsFiniteSet(U) /\ IsFiniteSet(V)
      BY <3>2, <3>3, FS_Subset, FS_Union
    <3>5. e \notin U /\ e \notin V /\ T = U \cup {e} /\ R \cup T = V \cup {e}
      BY <3>1, <3>2, <3>3
    <3>6. (\A s \in U : w[s] \in Nat) /\ (\A s \in V : w[s] \in Nat) /\ w[e] \in Nat
      BY <3>1, <3>2, <3>3
    <3>7. Weighed(w, T) = Weighed(w, U) + w[e]
      BY <3>4, <3>5, <3>6, SumMore
    <3>8. Weighed(w, R \cup T) = Weighed(w, V) + w[e]
      BY <3>4, <3>5, <3>6, SumMore
    <3>9. Weighed(w, V) = Weighed(w, R) + Weighed(w, U)
      BY <1>2, <1>3, <3>1, <3>2, <3>3
    <3>10. Weighed(w, U) \in Nat
      BY <3>4, <3>6, SumIsNumber
    <3> QED BY <1>1, <1>2, <3>6, <3>7, <3>8, <3>9, <3>10
  <2> QED BY <2>1, <2>2
<1>4. \A T \in SUBSET S : T \in Good
  BY <1>3, SetInduction
<1> QED BY <1>2, <1>4

(* and a part of a set weighs no more than the whole.                      *)
LEMMA SumOfPart ==
  ASSUME NEW S, IsFiniteSet(S), NEW R \in SUBSET S, NEW w, \A s \in S : w[s] \in Nat
  PROVE  Weighed(w, R) <= Weighed(w, S)
<1>1. PICK T : T = S \ R
  OBVIOUS
<1>2. IsFiniteSet(R) /\ IsFiniteSet(T) /\ R \cap T = {} /\ S = R \cup T
  BY <1>1, FS_Subset
<1>3. Weighed(w, S) = Weighed(w, R) + Weighed(w, T)
  BY <1>2, SumOfBoth
<1>4. Weighed(w, R) \in Nat /\ Weighed(w, T) \in Nat
  BY <1>2, SumIsNumber
<1> QED BY <1>3, <1>4

(* Members that weigh no more, each of them, weigh no more together,       *)
LEMMA SumOfLighter ==
  ASSUME NEW S, IsFiniteSet(S), NEW w, NEW v,
         \A s \in S : w[s] \in Nat /\ v[s] \in Nat /\ w[s] <= v[s]
  PROVE  Weighed(w, S) <= Weighed(v, S)
<1>1. PICK Good : Good = {T \in SUBSET S : Weighed(w, T) <= Weighed(v, T)}
  OBVIOUS
<1>2. ASSUME NEW T \in SUBSET S, \A x \in T : T \ {x} \in Good PROVE T \in Good
  <2>1. CASE T = {}
    BY <1>1, <2>1, SumOfNone
  <2>2. CASE T # {}
    <3>1. PICK e \in T : TRUE
      BY <2>2
    <3>2. PICK U : U = T \ {e}
      OBVIOUS
    <3>3. IsFiniteSet(U) /\ e \notin U /\ T = U \cup {e}
      BY <3>1, <3>2, FS_Subset
    <3>4. /\ \A s \in U : w[s] \in Nat /\ v[s] \in Nat
          /\ w[e] \in Nat /\ v[e] \in Nat /\ w[e] <= v[e]
      BY <3>1, <3>2
    <3>5. /\ Weighed(w, T) = Weighed(w, U) + w[e]
          /\ Weighed(v, T) = Weighed(v, U) + v[e]
      BY <3>3, <3>4, SumMore
    <3>6. Weighed(w, U) \in Nat /\ Weighed(v, U) \in Nat
      BY <3>3, <3>4, SumIsNumber
    <3>7. Weighed(w, U) <= Weighed(v, U)
      BY <1>1, <1>2, <3>1, <3>2
    <3> QED BY <1>1, <3>4, <3>5, <3>6, <3>7
  <2> QED BY <2>1, <2>2
<1>3. \A T \in SUBSET S : T \in Good
  BY <1>2, SetInduction
<1> QED BY <1>1, <1>3

(* and only the weights of the members count.                              *)
LEMMA SumOfSame ==
  ASSUME NEW S, IsFiniteSet(S), NEW w, NEW v, \A s \in S : w[s] \in Nat /\ v[s] = w[s]
  PROVE  Weighed(w, S) = Weighed(v, S)
<1>1. \A s \in S : w[s] \in Nat /\ v[s] \in Nat /\ w[s] <= v[s] /\ v[s] <= w[s]
  OBVIOUS
<1>2. Weighed(w, S) <= Weighed(v, S) /\ Weighed(v, S) <= Weighed(w, S)
  BY <1>1, SumOfLighter
<1>3. Weighed(w, S) \in Nat /\ Weighed(v, S) \in Nat
  BY <1>1, SumIsNumber
<1> QED BY <1>2, <1>3

(* Weightless members weigh nothing together.                              *)
LEMMA SumOfZeros ==
  ASSUME NEW S, IsFiniteSet(S), NEW w, \A s \in S : w[s] = 0
  PROVE  Weighed(w, S) = 0
<1>1. PICK v : v = [s \in S |-> 0]
  OBVIOUS
<1>2. PICK Good : Good = {T \in SUBSET S : Weighed(w, T) = 0}
  OBVIOUS
<1>3. ASSUME NEW T \in SUBSET S, \A x \in T : T \ {x} \in Good PROVE T \in Good
  <2>1. CASE T = {}
    BY <1>2, <2>1, SumOfNone
  <2>2. CASE T # {}
    <3>1. PICK e \in T : TRUE
      BY <2>2
    <3>2. IsFiniteSet(T) /\ \A s \in T : w[s] \in Nat
      BY FS_Subset
    <3>3. Weighed(w, T) = w[e] + Weighed(w, T \ {e})
      BY <3>1, <3>2, SumLess
    <3>4. w[e] = 0 /\ Weighed(w, T \ {e}) = 0
      BY <1>2, <1>3, <3>1
    <3> QED BY <1>2, <3>3, <3>4
  <2> QED BY <2>1, <2>2
<1>4. \A T \in SUBSET S : T \in Good
  BY <1>3, SetInduction
<1> QED BY <1>2, <1>4

-------------------------------------------------------------------------------
(* Unions.                                                                 *)

UnionOf(A, I) == UNION {A[i] : i \in I}

(* The union of finitely many sets gains one set with one index.           *)
LEMMA UnionOfMore ==
  ASSUME NEW A, NEW I, NEW e \in I
  PROVE  UnionOf(A, I) = UnionOf(A, I \ {e}) \cup A[e]
BY DEF UnionOf

(* Finitely many finite sets have a finite union, with no more members     *)
(* than all of them.                                                       *)
LEMMA CountOfUnion ==
  ASSUME NEW I, IsFiniteSet(I), NEW A, \A i \in I : IsFiniteSet(A[i]),
         NEW v, \A i \in I : v[i] = Cardinality(A[i])
  PROVE  IsFiniteSet(UnionOf(A, I)) /\ Cardinality(UnionOf(A, I)) <= Weighed(v, I)
<1>1. PICK Good : Good = {J \in SUBSET I : /\ IsFiniteSet(UnionOf(A, J))
                                          /\ Cardinality(UnionOf(A, J)) <= Weighed(v, J)}
  OBVIOUS
<1>2. \A i \in I : v[i] \in Nat
  BY FS_CardinalityType
<1>3. ASSUME NEW J \in SUBSET I, \A x \in J : J \ {x} \in Good PROVE J \in Good
  <2>1. CASE J = {}
    <3>1. UnionOf(A, J) = {}
      BY <2>1 DEF UnionOf
    <3> QED BY <1>1, <2>1, <3>1, FS_EmptySet, SumOfNone
  <2>2. CASE J # {}
    <3>1. PICK e \in J : TRUE
      BY <2>2
    <3>2. PICK R : R = UnionOf(A, J \ {e})
      OBVIOUS
    <3>3. IsFiniteSet(R) /\ Cardinality(R) <= Weighed(v, J \ {e})
      BY <1>1, <1>3, <3>1, <3>2
    <3>4. UnionOf(A, J) = R \cup A[e]
      BY <3>1, <3>2, UnionOfMore
    <3>5. IsFiniteSet(A[e]) /\ v[e] = Cardinality(A[e])
      OBVIOUS
    <3>6. /\ IsFiniteSet(R \cup A[e]) /\ IsFiniteSet(R \cap A[e])
          /\ Cardinality(R \cup A[e]) = Cardinality(R) + Cardinality(A[e]) - Cardinality(R \cap A[e])
      BY <3>3, <3>5, FS_Union, FS_Intersection
    <3>7. Cardinality(R) \in Nat /\ Cardinality(A[e]) \in Nat /\ Cardinality(R \cap A[e]) \in Nat
      BY <3>3, <3>5, <3>6, FS_CardinalityType
    <3>8. IsFiniteSet(J) /\ IsFiniteSet(J \ {e}) /\ \A s \in J : v[s] \in Nat
      BY <1>2, FS_Subset, FS_Difference
    <3>9. Weighed(v, J) = v[e] + Weighed(v, J \ {e})
      BY <3>1, <3>8, SumLess
    <3>10. Weighed(v, J \ {e}) \in Nat
      BY <3>8, SumIsNumber
    <3>11. Cardinality(R \cup A[e]) <= Weighed(v, J)
      BY <3>3, <3>5, <3>6, <3>7, <3>9, <3>10
    <3> QED BY <1>1, <3>4, <3>6, <3>11
  <2> QED BY <2>1, <2>2
<1>4. \A J \in SUBSET I : J \in Good
  BY <1>3, SetInduction
<1> QED BY <1>1, <1>4

(* What disjoint sets weigh, added up, is what their union weighs.         *)
LEMMA SumOfUnion ==
  ASSUME NEW I, IsFiniteSet(I), NEW A, \A i \in I : IsFiniteSet(A[i]),
         \A i, j \in I : i # j => A[i] \cap A[j] = {},
         NEW w, \A i \in I : \A x \in A[i] : w[x] \in Nat,
         NEW v, \A i \in I : v[i] = Weighed(w, A[i])
  PROVE  Weighed(v, I) = Weighed(w, UnionOf(A, I))
<1>1. PICK Good : Good = {J \in SUBSET I : Weighed(v, J) = Weighed(w, UnionOf(A, J))}
  OBVIOUS
<1>2. \A i \in I : v[i] \in Nat
  BY SumIsNumber
<1>3. ASSUME NEW J \in SUBSET I PROVE IsFiniteSet(UnionOf(A, J))
  <2>1. PICK n : n = [i \in J |-> Cardinality(A[i])]
    OBVIOUS
  <2>2. IsFiniteSet(J) /\ (\A i \in J : IsFiniteSet(A[i])) /\ \A i \in J : n[i] = Cardinality(A[i])
    BY <2>1, FS_Subset
  <2> QED BY <2>2, CountOfUnion
<1>4. ASSUME NEW J \in SUBSET I, \A x \in J : J \ {x} \in Good PROVE J \in Good
  <2>1. CASE J = {}
    <3>1. UnionOf(A, J) = {}
      BY <2>1 DEF UnionOf
    <3> QED BY <1>1, <2>1, <3>1, SumOfNone
  <2>2. CASE J # {}
    <3>1. PICK e \in J : TRUE
      BY <2>2
    <3>2. PICK K \in SUBSET I : K = J \ {e}
      OBVIOUS
    <3>3. PICK R : R = UnionOf(A, K)
      OBVIOUS
    <3>4. IsFiniteSet(R) /\ IsFiniteSet(A[e])
      BY <1>3, <3>3
    <3>5. R \cap A[e] = {}
      BY <3>1, <3>2, <3>3 DEF UnionOf
    <3>6. \A x \in R \cup A[e] : w[x] \in Nat
      BY <3>2, <3>3 DEF UnionOf
    <3>7. Weighed(w, R \cup A[e]) = Weighed(w, R) + Weighed(w, A[e])
      BY <3>4, <3>5, <3>6, SumOfBoth
    <3>8. Weighed(w, R) \in Nat
      BY <3>4, <3>6, SumIsNumber
    <3>9. IsFiniteSet(J) /\ \A i \in J : v[i] \in Nat
      BY <1>2, FS_Subset
    <3>10. Weighed(v, J) = v[e] + Weighed(v, K)
      BY <3>1, <3>2, <3>9, SumLess
    <3>11. Weighed(v, K) = Weighed(w, R)
      BY <1>1, <1>4, <3>1, <3>2, <3>3
    <3>12. UnionOf(A, J) = R \cup A[e]
      BY <3>1, <3>2, <3>3, UnionOfMore
    <3>13. v[e] \in Nat /\ v[e] = Weighed(w, A[e])
      BY <1>2
    <3>14. Weighed(v, J) = Weighed(w, UnionOf(A, J))
      BY <3>7, <3>8, <3>10, <3>11, <3>12, <3>13
    <3> QED BY <1>1, <3>14
  <2> QED BY <2>1, <2>2
<1>5. \A J \in SUBSET I : J \in Good
  BY <1>4, SetInduction
<1> QED BY <1>1, <1>5
================================================================================
