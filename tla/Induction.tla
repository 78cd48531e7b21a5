--------------------------------- MODULE Induction ---------------------------------
(***************************************************************************)
(* Induction over numbers and finite sets, and the recursive functions behind  *)
(* the folds of the community modules, stated for sets and functions so that     *)
(* no prover has to instantiate an operator; and the laws of Lists.             *)
(***************************************************************************)
EXTENDS Lists, FiniteSetTheorems, WellFoundedInduction, TLAPS

LessThan == {ss \in Nat \X Nat : ss[1] < ss[2]}

(* A set of numbers that is not empty has a least one. *)
LEMMA LeastNumber ==
  ASSUME NEW T \in SUBSET Nat, T # {}
  PROVE  \E n \in T : \A m \in T : n <= m
<1>1. IsWellFoundedOn(LessThan, Nat)
  BY NatLessThanWellFounded DEF LessThan, OpToRel
<1>2. PICK n \in T : \A m \in T : ~ (<<m, n>> \in LessThan)
  BY <1>1, WFMin
<1>3. \A m \in T : ~ (m < n)
  <2> SUFFICES ASSUME NEW m \in T, m < n PROVE <<m, n>> \in LessThan
    BY <1>2
  <2>1. <<m, n>> \in Nat \X Nat
    OBVIOUS
  <2>2. QED
    BY <2>1 DEF LessThan
<1>4. QED
  BY <1>3

(* A set of numbers with a bound has a greatest one. *)
LEMMA LargestNumber ==
  ASSUME NEW T \in SUBSET Nat, T # {}, NEW b \in Nat, \A t \in T : t <= b
  PROVE  \E n \in T : \A m \in T : m <= n
<1> DEFINE Below == {d \in Nat : \E x \in T : x + d = b}
<1>1. \A x \in T : x \in Nat /\ b - x \in Below
  OBVIOUS
<1>2. PICK d \in Below : \A e \in Below : d <= e
  <2>1. Below \in SUBSET Nat /\ Below # {}
    BY <1>1
  <2>2. QED
    BY <2>1, LeastNumber
<1>3. PICK x \in T : x + d = b
  OBVIOUS
<1>4. ASSUME NEW m \in T PROVE m <= x
  <2>1. d <= b - m /\ m \in Nat /\ x \in Nat
    BY <1>1, <1>2
  <2>2. QED
    BY <1>3, <2>1
<1>5. QED
  BY <1>4

(* A set that holds 0, and n + 1 with n, holds every number. *)
LEMMA NumbersInduction ==
  ASSUME NEW S, 0 \in S, \A n \in Nat : n \in S => n + 1 \in S
  PROVE  \A n \in Nat : n \in S
<1> SUFFICES ASSUME Nat \ S # {} PROVE FALSE
  OBVIOUS
<1>1. PICK n \in Nat \ S : \A m \in Nat \ S : n <= m
  BY LeastNumber
<1>2. n - 1 \in Nat /\ n - 1 \in S /\ n - 1 + 1 = n
  BY <1>1
<1>3. QED
  BY <1>1, <1>2

(* What holds of the empty set, and of a set with one element more, holds of a   *)
(* finite set.                                                              *)
LEMMA SubsetsInduction ==
  ASSUME NEW S, IsFiniteSet(S), NEW Good, {} \in Good,
         \A U \in SUBSET S : U # {} /\ (\A x \in U : U \ {x} \in Good) => U \in Good
  PROVE  \A U \in SUBSET S : U \in Good
<1> DEFINE Sizes == {n \in Nat : \A U \in SUBSET S : Cardinality(U) = n => U \in Good}
<1>1. \A U \in SUBSET S : IsFiniteSet(U) /\ Cardinality(U) \in Nat
  BY FS_Subset, FS_CardinalityType
<1>2. 0 \in Sizes
  BY <1>1, FS_EmptySet
<1>3. ASSUME NEW n \in Nat, n \in Sizes PROVE n + 1 \in Sizes
  <2> SUFFICES ASSUME NEW U \in SUBSET S, Cardinality(U) = n + 1 PROVE U \in Good
    BY <1>3
  <2>1. U # {}
    BY FS_EmptySet
  <2>2. \A x \in U : Cardinality(U \ {x}) = n
    BY <1>1, FS_RemoveElement
  <2>3. \A x \in U : U \ {x} \in Good
    BY <1>3, <2>2
  <2>4. QED
    BY <2>1, <2>3
<1>4. \A n \in Nat : n \in Sizes
  <2> HIDE DEF Sizes
  <2>1. QED
    BY <1>2, <1>3, NumbersInduction
<1>5. QED
  BY <1>1, <1>4

(* pick[U] is an element of U. *)
Picks(pick, S) == \A U \in SUBSET S : U # {} => pick[U] \in U

(* f[U] is made by step from the element picked from U and f of the others.       *)
Recursive(f, S, base, pick, step) ==
  f = [U \in SUBSET S |-> IF U = {} THEN base
                          ELSE step[<<pick[U], f[U \ {pick[U]}]>>]]

(* The function a fold takes its value from exists.                             *)
LEMMA RecursionOnSubsets ==
  ASSUME NEW S, IsFiniteSet(S), NEW T, NEW base, base \in T,
         NEW pick, Picks(pick, S), NEW step, step \in [S \X T -> T]
  PROVE  \E f : f \in [SUBSET S -> T] /\ Recursive(f, S, base, pick, step)
<1> DEFINE Small(n) == {U \in SUBSET S : Cardinality(U) <= n}
           Solves(f, D) == \A U \in D :
             f[U] = IF U = {} THEN base ELSE step[<<pick[U], f[U \ {pick[U]}]>>]
           Sizes == {n \in Nat : \E f \in [Small(n) -> T] : Solves(f, Small(n))}
<1> USE DEF Picks
<1>1. \A U \in SUBSET S : IsFiniteSet(U) /\ Cardinality(U) \in Nat
  BY FS_Subset, FS_CardinalityType
<1>2. 0 \in Sizes
  <2>1. Small(0) = {{}}
    BY <1>1, FS_EmptySet
  <2>2. [U \in Small(0) |-> base] \in [Small(0) -> T] /\ Solves([U \in Small(0) |-> base], Small(0))
    BY <2>1
  <2>3. QED
    BY <2>2
<1>3. ASSUME NEW n \in Nat, n \in Sizes PROVE n + 1 \in Sizes
  <2>1. PICK f \in [Small(n) -> T] : Solves(f, Small(n))
    BY <1>3
  <2> DEFINE g == [U \in Small(n + 1) |->
                     IF U = {} THEN base ELSE step[<<pick[U], f[U \ {pick[U]}]>>]]
  <2>2. ASSUME NEW U \in Small(n + 1), U # {}
        PROVE  U \ {pick[U]} \in Small(n) /\ pick[U] \in S
    <3>1. pick[U] \in U /\ Cardinality(U) <= n + 1
      BY <2>2
    <3>2. Cardinality(U \ {pick[U]}) = Cardinality(U) - 1
      BY <1>1, <3>1, FS_RemoveElement
    <3>3. QED
      BY <1>1, <3>1, <3>2
  <2>3. g \in [Small(n + 1) -> T]
    BY <2>1, <2>2
  <2>4. Small(n) \subseteq Small(n + 1)
    BY <1>1
  <2>5. \A U \in Small(n) : g[U] = f[U]
    BY <2>1, <2>4
  <2>6. Solves(g, Small(n + 1))
    BY <2>2, <2>5
  <2>7. QED
    <3> HIDE DEF g, Small, Solves
    <3>1. QED
      BY <2>3, <2>6
<1>4. \A n \in Nat : n \in Sizes
  <2> HIDE DEF Sizes
  <2>1. QED
    BY <1>2, <1>3, NumbersInduction
<1>5. Cardinality(S) \in Nat /\ Small(Cardinality(S)) = SUBSET S
  BY <1>1, FS_Subset
<1>6. PICK f \in [SUBSET S -> T] : Solves(f, SUBSET S)
  <2>1. Cardinality(S) \in Sizes
    <3> HIDE DEF Sizes
    <3>1. QED
      BY <1>4, <1>5
  <2>2. PICK f \in [Small(Cardinality(S)) -> T] : Solves(f, Small(Cardinality(S)))
    BY <2>1
  <2> HIDE DEF Small, Solves
  <2>3. QED
    BY <1>5, <2>2
<1>7. Recursive(f, S, base, pick, step)
  BY <1>6 DEF Recursive
<1>8. QED
  BY <1>6, <1>7

-----------------------------------------------------------------------------
(* Folds of sequences *)

(* A finite set of numbers that is not empty has a maximum.                     *)
LEMMA MaxIsGreatest ==
  ASSUME NEW n \in Nat
  PROVE  \A U \in SUBSET (1 .. n) : U # {} => Max(U) \in U /\ \A m \in U : m <= Max(U)
<1> SUFFICES ASSUME NEW U \in SUBSET (1 .. n), U # {}
             PROVE  Max(U) \in U /\ \A m \in U : m <= Max(U)
  OBVIOUS
<1>1. U \in SUBSET Nat /\ \A m \in U : m <= n
  OBVIOUS
<1>2. \E x \in U : \A m \in U : x >= m
  BY <1>1, LargestNumber
<1>3. QED
  BY <1>2 DEF Max

(* The last of the first k + 1 positions is k + 1, and the first k are before it.  *)
LEMMA LastPosition ==
  ASSUME NEW k \in Nat
  PROVE  /\ 1 .. k + 1 # {} /\ Max(1 .. k + 1) = k + 1
         /\ (1 .. k + 1) \ {k + 1} = 1 .. k
<1>1. Max(1 .. k + 1) \in 1 .. k + 1 /\ \A m \in 1 .. k + 1 : m <= Max(1 .. k + 1)
  <2>1. k + 1 \in Nat /\ 1 .. k + 1 \in SUBSET (1 .. k + 1) /\ 1 .. k + 1 # {}
    OBVIOUS
  <2>2. QED
    BY <2>1, MaxIsGreatest, Zenon
<1>2. QED
  BY <1>1

(* f[U] folds the positions in U from the left. *)
FoldsLeft(f, n, base, step) ==
  \A U \in SUBSET (1 .. n) :
    f[U] = IF U = {} THEN base ELSE step[<<Max(U), f[U \ {Max(U)}]>>]

(* A fold from the left over n positions has a function to take its values from.  *)
LEMMA FoldExists ==
  ASSUME NEW n, n \in Nat, NEW T, NEW base, base \in T,
         NEW step, step \in [(1 .. n) \X T -> T]
  PROVE  \E f : f \in [SUBSET (1 .. n) -> T] /\ FoldsLeft(f, n, base, step)
<1> DEFINE pick == [U \in SUBSET (1 .. n) |-> Max(U)]
<1>1. IsFiniteSet(1 .. n)
  BY FS_Interval
<1>2. Picks(pick, 1 .. n)
  BY MaxIsGreatest DEF Picks
<1>3. PICK f : f \in [SUBSET (1 .. n) -> T] /\ Recursive(f, 1 .. n, base, pick, step)
  <2> HIDE DEF pick
  <2>1. QED
    BY <1>1, <1>2, RecursionOnSubsets, Zenon
<1>4. FoldsLeft(f, n, base, step)
  BY <1>3 DEF Recursive, FoldsLeft
<1>5. QED
  BY <1>3, <1>4

(* What holds before the first position, and after a position when it held before   *)
(* it, holds after all of them.                                             *)
LEMMA FoldStays ==
  ASSUME NEW n, n \in Nat, NEW f, NEW T, f[{}] \in T,
         \A U \in SUBSET (1 .. n) : U # {} /\ f[U \ {Max(U)}] \in T => f[U] \in T
  PROVE  f[1 .. n] \in T
<1> DEFINE Good == {U \in SUBSET (1 .. n) : f[U] \in T}
<1>1. {} \in Good
  OBVIOUS
<1>2. ASSUME NEW U \in SUBSET (1 .. n), U # {}, \A x \in U : U \ {x} \in Good
      PROVE  U \in Good
  <2>1. Max(U) \in U
    BY <1>2, MaxIsGreatest
  <2>2. f[U \ {Max(U)}] \in T
    BY <1>2, <2>1
  <2>3. QED
    BY <1>2, <2>2
<1>3. IsFiniteSet(1 .. n)
  BY FS_Interval
<1>4. \A U \in SUBSET (1 .. n) : U \in Good
  <2> HIDE DEF Good
  <2>1. QED
    BY <1>1, <1>2, <1>3, SubsetsInduction
<1>5. QED
  BY <1>4

-----------------------------------------------------------------------------
(* Sums *)

(* The elements of S have a weight. *)
Weighs(w, S) == \A x \in S : w[x] \in Nat

(* f is the sum of the weights of each subset of S. *)
Sums(f, S, w) ==
  \A U \in SUBSET S : f[U] = IF U = {} THEN 0
    ELSE w[CHOOSE x \in U : TRUE] + f[U \ {CHOOSE x \in U : TRUE}]

(* The sum over a set is made by adding its elements in some order.              *)
LEMMA SumRecursion ==
  ASSUME NEW S, IsFiniteSet(S), NEW w, Weighs(w, S)
  PROVE  \E f : /\ f \in [SUBSET S -> Nat]
              /\ SumFunctionOnSet(w, S) = f[S]
              /\ Sums(f, S, w)
<1> DEFINE Body(it) == [s \in SUBSET S |-> IF s = {} THEN 0
              ELSE LET x == CHOOSE x \in s : TRUE IN w[x] + it[s \ {x}]]
           Iter == CHOOSE it : it = Body(it)
           pick == [U \in SUBSET S |-> CHOOSE x \in U : TRUE]
           step == [p \in S \X Nat |-> w[p[1]] + p[2]]
<1>1. Picks(pick, S) /\ step \in [S \X Nat -> Nat] /\ 0 \in Nat
  BY DEF Picks, Weighs
<1>2. PICK f : f \in [SUBSET S -> Nat] /\ Recursive(f, S, 0, pick, step)
  <2> HIDE DEF pick, step
  <2>1. QED
    BY <1>1, RecursionOnSubsets, Zenon
<1>3. f = Body(f)
  <2>1. \A U \in SUBSET S : U # {} => pick[U] \in S /\ U \ {pick[U]} \in SUBSET S
                                       /\ pick[U] = CHOOSE x \in U : TRUE
    BY <1>1 DEF Picks
  <2>2. \A U \in SUBSET S : f[U] = IF U = {} THEN 0 ELSE step[<<pick[U], f[U \ {pick[U]}]>>]
    BY <1>2 DEF Recursive
  <2>3. \A U \in SUBSET S : U # {} => f[U] = w[pick[U]] + f[U \ {pick[U]}]
    <3> HIDE DEF pick
    <3>1. QED
      BY <1>2, <2>1, <2>2
  <2>4. \A U \in SUBSET S : f[U] = Body(f)[U]
    BY <2>1, <2>2, <2>3
  <2>5. QED
    BY <1>2, <2>4
<1>4. Iter = Body(Iter)
  <2> HIDE DEF Body
  <2>1. QED
    BY <1>3
<1>5. SumFunctionOnSet(w, S) = Iter[S]
  BY DEF SumFunctionOnSet, FoldFunctionOnSet, MapThenFoldSet
<1>6. Iter = f
  <2> DEFINE Same == {U \in SUBSET S : Iter[U] = f[U]}
  <2>1. \A U \in SUBSET S : Iter[U] = Body(Iter)[U] /\ f[U] = Body(f)[U]
    BY <1>3, <1>4
  <2>2. {} \in Same
    BY <2>1
  <2>3. ASSUME NEW U \in SUBSET S, U # {}, \A x \in U : U \ {x} \in Same
        PROVE  U \in Same
    <3>1. U \ {CHOOSE x \in U : TRUE} \in Same
      BY <2>3
    <3>2. QED
      BY <2>1, <2>3, <3>1
  <2>4. \A U \in SUBSET S : U \in Same
    <3> HIDE DEF Same
    <3>1. QED
      BY <2>2, <2>3, SubsetsInduction
  <2> HIDE DEF Iter
  <2>5. Iter = [U \in SUBSET S |-> Iter[U]]
    BY <1>4
  <2>6. QED
    BY <1>2, <2>4, <2>5
<1>7. Sums(f, S, w)
  BY <1>3 DEF Sums
<1>8. SumFunctionOnSet(w, S) = f[S]
  BY <1>5, <1>6
<1>9. QED
  BY <1>2, <1>7, <1>8

(* Two such functions, for two sets, agree where both are defined.               *)
LEMMA SumOfSubset ==
  ASSUME NEW S, IsFiniteSet(S), NEW w, Weighs(w, S), NEW f,
         Sums(f, S, w), NEW V, V \in SUBSET S
  PROVE  SumFunctionOnSet(w, V) = f[V]
<1>1. IsFiniteSet(V) /\ Weighs(w, V)
  BY FS_Subset DEF Weighs
<1>2. PICK g : /\ g \in [SUBSET V -> Nat]
           /\ SumFunctionOnSet(w, V) = g[V]
           /\ Sums(g, V, w)
  BY <1>1, SumRecursion, Zenon
<1> DEFINE Same == {U \in SUBSET V : g[U] = f[U]}
<1>3. {} \in Same
  BY <1>2 DEF Sums
<1>4. ASSUME NEW U \in SUBSET V, U # {}, \A x \in U : U \ {x} \in Same
      PROVE  U \in Same
  <2>1. U \ {CHOOSE x \in U : TRUE} \in Same
    BY <1>4
  <2>2. QED
    BY <1>2, <1>4, <2>1 DEF Sums
<1>5. \A U \in SUBSET V : U \in Same
  <2> HIDE DEF Same
  <2>1. QED
    BY <1>1, <1>3, <1>4, SubsetsInduction
<1>6. QED
  BY <1>2, <1>5

(* A sum of numbers is a number, the sum over no element is 0, and any element    *)
(* can be taken out of a sum.                                                *)
LEMMA SumLaws ==
  ASSUME NEW S, IsFiniteSet(S), NEW w, Weighs(w, S)
  PROVE  /\ SumFunctionOnSet(w, S) \in Nat
         /\ S = {} => SumFunctionOnSet(w, S) = 0
         /\ \A x \in S : SumFunctionOnSet(w, S) = w[x] + SumFunctionOnSet(w, S \ {x})
<1>1. PICK f : /\ f \in [SUBSET S -> Nat]
           /\ SumFunctionOnSet(w, S) = f[S]
           /\ Sums(f, S, w)
  BY SumRecursion, Zenon
<1>2. \A V \in SUBSET S : SumFunctionOnSet(w, V) = f[V]
  BY <1>1, SumOfSubset
<1> DEFINE Good == {U \in SUBSET S : \A x \in U : f[U] = w[x] + f[U \ {x}]}
<1>3. {} \in Good
  OBVIOUS
<1>4. ASSUME NEW U \in SUBSET S, U # {}, \A x \in U : U \ {x} \in Good
      PROVE  U \in Good
  <2> DEFINE c == CHOOSE x \in U : TRUE
  <2>1. c \in U /\ f[U] = w[c] + f[U \ {c}]
    BY <1>1, <1>4 DEF Sums
  <2> HIDE DEF c
  <2>2. ASSUME NEW x \in U, x # c PROVE f[U] = w[x] + f[U \ {x}]
    <3>1. f[U \ {c}] = w[x] + f[(U \ {c}) \ {x}]
      BY <1>4, <2>1, <2>2
    <3>2. f[U \ {x}] = w[c] + f[(U \ {x}) \ {c}]
      BY <1>4, <2>1, <2>2
    <3>3. (U \ {c}) \ {x} = (U \ {x}) \ {c}
      OBVIOUS
    <3> DEFINE rest == f[(U \ {c}) \ {x}]
    <3>4. rest \in Nat /\ w[c] \in Nat /\ w[x] \in Nat
      BY <1>1, <2>1 DEF Weighs
    <3>5. f[U \ {c}] = w[x] + rest /\ f[U \ {x}] = w[c] + rest
      BY <3>1, <3>2, <3>3
    <3> HIDE DEF rest
    <3>6. QED
      BY <2>1, <3>4, <3>5
  <2>3. QED
    BY <2>1, <2>2
<1>5. \A U \in SUBSET S : U \in Good
  <2> HIDE DEF Good
  <2>1. QED
    BY <1>3, <1>4, SubsetsInduction
<1>6. \A x \in S : f[S] = w[x] + f[S \ {x}]
  BY <1>5
<1>7. f[{}] = 0
  BY <1>1 DEF Sums
<1>8. QED
  BY <1>1, <1>2, <1>6, <1>7

(* A sum depends on the numbers added only.                                   *)
LEMMA SumCongruence ==
  ASSUME NEW S, IsFiniteSet(S), NEW v, NEW w, Weighs(w, S), \A x \in S : v[x] = w[x]
  PROVE  SumFunctionOnSet(v, S) = SumFunctionOnSet(w, S)
<1>1. PICK f : /\ f \in [SUBSET S -> Nat]
           /\ SumFunctionOnSet(w, S) = f[S]
           /\ Sums(f, S, w)
  BY SumRecursion, Zenon
<1>2. Sums(f, S, v)
  <2>1. \A U \in SUBSET S : U # {} => v[CHOOSE x \in U : TRUE] = w[CHOOSE x \in U : TRUE]
    OBVIOUS
  <2>2. QED
    BY <1>1, <2>1 DEF Sums
<1>3. Weighs(v, S) /\ S \in SUBSET S
  BY DEF Weighs
<1>4. SumFunctionOnSet(v, S) = f[S]
  BY <1>2, <1>3, SumOfSubset
<1>5. QED
  BY <1>1, <1>4

-----------------------------------------------------------------------------
(* Orders *)

(* The pairs in leq order S totally. *)
OrdersTotally(leq, S) ==
  /\ \A x, y \in S : <<x, y>> \in leq \/ <<y, x>> \in leq
  /\ \A x, y \in S : <<x, y>> \in leq /\ <<y, x>> \in leq => x = y
  /\ \A x, y, z \in S : <<x, y>> \in leq /\ <<y, z>> \in leq => <<x, z>> \in leq

(* How many elements of S come up to x. *)
Rank(leq, S, x) == Cardinality({y \in S : <<y, x>> \in leq})

(* The ranks of a finite set are the numbers up to its size, each of one element,  *)
(* in the order of the elements.                                             *)
LEMMA RanksCount ==
  ASSUME NEW S, IsFiniteSet(S), NEW leq, OrdersTotally(leq, S)
  PROVE  /\ Cardinality(S) \in Nat
         /\ \A x \in S : Rank(leq, S, x) \in 1 .. Cardinality(S)
         /\ \A x, y \in S : Rank(leq, S, x) <= Rank(leq, S, y) <=> <<x, y>> \in leq
         /\ \A x, y \in S : Rank(leq, S, x) = Rank(leq, S, y) => x = y
         /\ \A n \in 1 .. Cardinality(S) : \E x \in S : Rank(leq, S, x) = n
<1> DEFINE upTo(x) == {y \in S : <<y, x>> \in leq}
           r == [x \in S |-> Rank(leq, S, x)]
           k == Cardinality(S)
<1>1. \A x \in S : x \in upTo(x) /\ upTo(x) \subseteq S
  BY DEF OrdersTotally
<1>2. \A x, y \in S : <<x, y>> \in leq => upTo(x) \subseteq upTo(y)
  BY DEF OrdersTotally
<1>3. \A x, y \in S : <<x, y>> \in leq /\ x # y => y \notin upTo(x)
  BY DEF OrdersTotally
<1>4. \A x \in S : Rank(leq, S, x) = Cardinality(upTo(x))
  BY DEF Rank
<1> HIDE DEF upTo
<1>5. k \in Nat /\ \A x \in S : IsFiniteSet(upTo(x)) /\ Cardinality(upTo(x)) \in Nat
                              /\ Cardinality(upTo(x)) <= k /\ Cardinality(upTo(x)) # 0
  BY <1>1, FS_Subset, FS_CardinalityType, FS_EmptySet
<1>6. \A x, y \in S : <<x, y>> \in leq => r[x] <= r[y]
  BY <1>2, <1>4, <1>5, FS_Subset
<1>7. \A x, y \in S : <<x, y>> \in leq /\ x # y => r[x] # r[y]
  BY <1>1, <1>2, <1>3, <1>4, <1>5, FS_Subset
<1>8. \A x \in S : r[x] \in 1 .. k
  <2> HIDE DEF k
  <2>1. QED
    BY <1>4, <1>5
<1>9. \A x, y \in S : r[x] = r[y] => x = y
  BY <1>7 DEF OrdersTotally
<1>10. \A x, y \in S : r[x] <= r[y] => <<x, y>> \in leq
  <2> SUFFICES ASSUME NEW x \in S, NEW y \in S, r[x] <= r[y], <<x, y>> \notin leq
               PROVE  FALSE
    OBVIOUS
  <2>1. <<y, x>> \in leq /\ x # y
    BY DEF OrdersTotally
  <2>2. r[y] <= r[x] /\ r[x] # r[y] /\ r[x] \in Nat /\ r[y] \in Nat
    BY <1>6, <1>8, <1>9, <2>1
  <2> HIDE DEF r
  <2>3. QED
    BY <2>2
<1>11. r \in Surjection(S, 1 .. k)
  <2>1. r \in Injection(S, 1 .. k)
    <3>1. r \in [S -> 1 .. k]
      BY <1>8
    <3> HIDE DEF r
    <3>2. QED
      BY <1>9, <3>1 DEF Injection, IsInjective
  <2>2. IsFiniteSet(1 .. k) /\ Cardinality(1 .. k) = k
    BY <1>5, FS_Interval
  <2> HIDE DEF r
  <2>3. QED
    BY <2>1, <2>2, FS_Injection
<1>12. \A n \in 1 .. k : \E x \in S : r[x] = n
  <2> HIDE DEF r
  <2>1. QED
    BY <1>11 DEF Surjection
<1>13. QED
  BY <1>5, <1>6, <1>8, <1>9, <1>10, <1>12

(* The elements of S in the order leq. *)
Listed(leq, S) == [n \in 1 .. Cardinality(S) |-> CHOOSE x \in S : Rank(leq, S, x) = n]

(* A list of a finite set has each element once, in order. *)
LEMMA ListedLaws ==
  ASSUME NEW S, IsFiniteSet(S), NEW leq, OrdersTotally(leq, S)
  PROVE  /\ Cardinality(S) \in Nat
         /\ Listed(leq, S) \in [1 .. Cardinality(S) -> S]
         /\ \A i, j \in 1 .. Cardinality(S) :
              i <= j => <<Listed(leq, S)[i], Listed(leq, S)[j]>> \in leq
         /\ \A i, j \in 1 .. Cardinality(S) : Listed(leq, S)[i] = Listed(leq, S)[j] => i = j
         /\ \A x \in S : \E i \in 1 .. Cardinality(S) : Listed(leq, S)[i] = x
<1> DEFINE k == Cardinality(S)
           q == Listed(leq, S)
           r(x) == Rank(leq, S, x)
<1>1. /\ k \in Nat
      /\ \A x \in S : r(x) \in 1 .. k
      /\ \A x, y \in S : r(x) <= r(y) <=> <<x, y>> \in leq
      /\ \A x, y \in S : r(x) = r(y) => x = y
      /\ \A n \in 1 .. k : \E x \in S : r(x) = n
  BY RanksCount
<1>2. q = [n \in 1 .. k |-> CHOOSE x \in S : r(x) = n]
  BY DEF Listed
<1> HIDE DEF r, q, k
<1>3. ASSUME NEW n \in 1 .. k PROVE q[n] \in S /\ r(q[n]) = n
  BY <1>1, <1>2
<1>4. q \in [1 .. k -> S]
  BY <1>2, <1>3
<1>5. \A i, j \in 1 .. k : i <= j => <<q[i], q[j]>> \in leq
  BY <1>1, <1>3
<1>6. \A i, j \in 1 .. k : q[i] = q[j] => i = j
  BY <1>3
<1>7. \A x \in S : \E i \in 1 .. k : q[i] = x
  BY <1>1, <1>3
<1>8. QED
  BY <1>1, <1>4, <1>5, <1>6, <1>7 DEF k, q

(* f goes through S, once. *)
GoesThrough(f, n, S) ==
  /\ n \in Nat /\ f \in [1 .. n -> S]
  /\ \A i, j \in 1 .. n : f[i] = f[j] => i = j
  /\ \A x \in S : \E i \in 1 .. n : f[i] = x

-----------------------------------------------------------------------------
(* Lists *)

(* p puts n positions into the order of their keys. *)
Sorts(p, n, keys) ==
  /\ GoesThrough(p, n, 1 .. n)
  /\ \A i, j \in 1 .. n : i <= j => keys[p[i]] <= keys[p[j]]

(* seq has n elements, each with a key. *)
HasKeys(n, seq, keys) ==
  n \in Nat /\ DOMAIN seq = 1 .. n /\ \A i \in 1 .. n : keys[i] \in Int

(* seq, sorted, is its elements in the order p. *)
SortedSo(p, n, seq, keys) ==
  Sorts(p, n, keys) /\ Sorted(seq, keys) = [r \in 1 .. n |-> seq[p[r]]]

(* Sorted puts a sequence into the order of its keys, keeping every element. *)
LEMMA SortedLaws ==
  ASSUME NEW n, NEW seq, NEW keys, HasKeys(n, seq, keys)
  PROVE  \E p : SortedSo(p, n, seq, keys)
<1> DEFINE S == 1 .. n
           before(i, j) == keys[i] < keys[j] \/ (keys[i] = keys[j] /\ i < j)
           upto(i) == {j \in S : before(j, i) \/ j = i}
           below(i) == {j \in S : before(j, i)}
           leq == {x \in S \X S : before(x[1], x[2]) \/ x[1] = x[2]}
           p == Listed(leq, S)
<1>0. n \in Nat /\ DOMAIN seq = 1 .. n /\ \A i \in 1 .. n : keys[i] \in Int
  BY DEF HasKeys
<1>1. IsFiniteSet(S) /\ Cardinality(S) = n
  BY <1>0, FS_Interval
<1>2. OrdersTotally(leq, S)
  BY <1>0 DEF OrdersTotally
<1>3. \A i \in S : Rank(leq, S, i) = Cardinality(upto(i))
  <2>1. \A i \in S : {j \in S : <<j, i>> \in leq} = upto(i)
    OBVIOUS
  <2> HIDE DEF leq, upto
  <2>2. QED
    BY <2>1 DEF Rank
<1>4. \A i \in S : Cardinality(upto(i)) = Cardinality(below(i)) + 1 /\ Cardinality(below(i)) \in Nat
  <2> SUFFICES ASSUME NEW i \in S
               PROVE  Cardinality(upto(i)) = Cardinality(below(i)) + 1 /\ Cardinality(below(i)) \in Nat
    OBVIOUS
  <2>1. upto(i) = below(i) \union {i} /\ i \notin below(i) /\ below(i) \in SUBSET S
    BY <1>0
  <2> HIDE DEF upto, below, S
  <2>2. IsFiniteSet(below(i)) /\ Cardinality(below(i)) \in Nat
    BY <1>1, <2>1, FS_Subset, FS_CardinalityType
  <2>3. QED
    BY <2>1, <2>2, FS_AddElement
<1>5. \A i \in S, r \in S : Cardinality(below(i)) = r - 1 <=> Rank(leq, S, i) = r
  <2> SUFFICES ASSUME NEW i \in S, NEW r \in S
               PROVE  Cardinality(below(i)) = r - 1 <=> Rank(leq, S, i) = r
    OBVIOUS
  <2>1. Rank(leq, S, i) = Cardinality(below(i)) + 1 /\ Cardinality(below(i)) \in Nat
    <3> HIDE DEF below, upto, leq
    <3>1. QED
      BY <1>3, <1>4
  <2>2. r \in Nat
    BY <1>0
  <2> HIDE DEF below, upto, leq
  <2>3. QED
    BY <2>1, <2>2
<1>6. Sorted(seq, keys) = [r \in S |-> seq[CHOOSE i \in S : Cardinality(below(i)) = r - 1]]
  BY <1>0 DEF Sorted
<1>7. p = [r \in S |-> CHOOSE i \in S : Rank(leq, S, i) = r]
  BY <1>1 DEF Listed
<1> DEFINE c(i) == Cardinality(below(i))
           k(i) == Rank(leq, S, i)
<1>8. \A r \in S : (CHOOSE i \in S : c(i) = r - 1) = (CHOOSE i \in S : k(i) = r)
  <2>1. \A i \in S, r \in S : c(i) = r - 1 <=> k(i) = r
    BY <1>5
  <2> HIDE DEF c, k, S
  <2>2. QED
    BY <2>1
<1>9. Sorted(seq, keys) = [r \in S |-> seq[p[r]]]
  <2>1. Sorted(seq, keys) = [r \in S |-> seq[CHOOSE i \in S : c(i) = r - 1]]
    BY <1>6
  <2>2. p = [r \in S |-> CHOOSE i \in S : k(i) = r]
    BY <1>7
  <2> HIDE DEF c, k, S, p
  <2>3. QED
    BY <1>8, <2>1, <2>2
<1>10. /\ p \in [S -> S]
       /\ \A i, j \in S : i <= j => <<p[i], p[j]>> \in leq
       /\ \A i, j \in S : p[i] = p[j] => i = j
       /\ \A x \in S : \E i \in S : p[i] = x
  <2>1. 1 .. Cardinality(S) = S
    BY <1>1
  <2> HIDE DEF leq, S
  <2>2. /\ p \in [1 .. Cardinality(S) -> S]
        /\ \A i, j \in 1 .. Cardinality(S) : i <= j => <<p[i], p[j]>> \in leq
        /\ \A i, j \in 1 .. Cardinality(S) : p[i] = p[j] => i = j
        /\ \A x \in S : \E i \in 1 .. Cardinality(S) : p[i] = x
    BY <1>1, <1>2, ListedLaws, Zenon
  <2> HIDE DEF p
  <2>3. QED
    BY <2>1, <2>2
<1>11. \A x, y \in S : <<x, y>> \in leq => keys[x] <= keys[y]
  BY <1>0
<1> HIDE DEF p, leq
<1>12. Sorts(p, n, keys)
  BY <1>0, <1>10, <1>11 DEF Sorts, GoesThrough
<1>13. QED
  BY <1>9, <1>12 DEF SortedSo

(* f is the first m of s, k if there are so many. *)
IsFirst(f, m, s, k, C) ==
  /\ m \in Nat /\ m <= k /\ m <= Len(s) /\ (m = k \/ m = Len(s))
  /\ f \in Seq(C) /\ Len(f) = m /\ DOMAIN f = 1 .. m
  /\ \A i \in 1 .. m : f[i] = s[i]

(* FirstOf is the first of a sequence. *)
LEMMA FirstOfLaws ==
  ASSUME NEW C, NEW s \in Seq(C), NEW k \in Nat
  PROVE  \E m : IsFirst(FirstOf(s, k), m, s, k, C)
<1> DEFINE m == IF k < Len(s) THEN k ELSE Len(s)
           f == SubSeq(s, 1, m)
<1>1. m \in Nat /\ m <= k /\ m <= Len(s) /\ (m = k \/ m = Len(s))
  OBVIOUS
<1>2. FirstOf(s, k) = f
  BY DEF FirstOf
<1> HIDE DEF m
<1>3. f \in Seq(C) /\ Len(f) = m /\ DOMAIN f = 1 .. m /\ \A i \in 1 .. m : f[i] = s[i]
  BY <1>1
<1> HIDE DEF f
<1>4. QED
  BY <1>1, <1>2, <1>3 DEF IsFirst

=============================================================================
