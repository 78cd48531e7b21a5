---------------------------- MODULE StructuresProof ----------------------------
(***************************************************************************)
(* The in-memory structures, for any number of threads, grains and blocks.  The     *)
(* clock never issues a duplicate, skips no timestamp and orders each timestamp     *)
(* after what its caller knew.  Blocks answer as a scan of all grains does,          *)
(* whatever their descriptors let a query skip.                                 *)
(***************************************************************************)
EXTENDS Hlc, Blocks, Induction

-----------------------------------------------------------------------------
(* The clock *)

(* A thread's local value is no newer than what it has seen, which is no newer *)
(* than the counter; inside next() it has seen at least what it started with.  *)
ViewsAreBehind ==
  \A t \in Threads :
    /\ seen[t] <= last
    /\ prev[t] <= seen[t]
    /\ at[t] = "cas" => started[t] <= prev[t]

(* Inductive: gap-freedom makes last + 1 new to everyone, which is what keeps   *)
(* timestamps unique.                                                       *)
IInv == TypeOK /\ ViewsAreBehind /\ IssuedIsGapFree /\ NoDuplicates

(* The counter starts where nothing was issued. *)
LEMMA InitIInv == Init => IInv
  BY HlcAssumption DEF Init, IInv, TypeOK, Ticks, ViewsAreBehind, IssuedIsGapFree,
     NoDuplicates, AllIssued

(* Every step keeps the counter ahead of all views and issues last + 1 only. *)
LEMMA StepIInv == IInv /\ [Next]_vars => IInv'
<1> SUFFICES ASSUME IInv, [Next]_vars PROVE IInv'
  OBVIOUS
<1> USE HlcAssumption DEF IInv, TypeOK, Ticks
<1>1. ASSUME NEW t \in Threads, StartNext(t) PROVE IInv'
  BY <1>1 DEF StartNext, Loadable, ViewsAreBehind, IssuedIsGapFree, NoDuplicates, AllIssued
<1>2. ASSUME NEW t \in Threads, CasSucceeds(t) PROVE IInv'
  <2>1. TypeOK' /\ ViewsAreBehind'
    BY <1>2 DEF CasSucceeds, ViewsAreBehind
  <2>2. AllIssued' = AllIssued \union {last + 1}
    BY <1>2 DEF CasSucceeds, AllIssued
  <2>3. IssuedIsGapFree'
    BY <1>2, <2>2 DEF CasSucceeds, IssuedIsGapFree
  <2>4. NoDuplicates'
    <3>1. \A u \in Threads : last + 1 \notin issued[u]
      BY DEF IssuedIsGapFree, AllIssued
    <3>2. QED
      BY <1>2, <3>1 DEF CasSucceeds, NoDuplicates
  <2>5. QED
    BY <2>1, <2>3, <2>4
<1>3. ASSUME NEW t \in Threads, CasFails(t) PROVE IInv'
  BY <1>3 DEF CasFails, Loadable, ViewsAreBehind, IssuedIsGapFree, NoDuplicates, AllIssued
<1>4. ASSUME NEW t \in Threads, Now(t) PROVE IInv'
  BY <1>4 DEF Now, Loadable, ViewsAreBehind, IssuedIsGapFree, NoDuplicates, AllIssued
<1>5. ASSUME NEW t \in Threads, NEW u \in Threads, Tell(u, t) PROVE IInv'
  BY <1>5 DEF Tell, ViewsAreBehind, IssuedIsGapFree, NoDuplicates, AllIssued
<1>6. CASE UNCHANGED vars
  BY <1>6 DEF vars, ViewsAreBehind, IssuedIsGapFree, NoDuplicates, AllIssued
<1>7. QED
  BY <1>1, <1>2, <1>3, <1>4, <1>5, <1>6 DEF Next

(* The inductive invariant holds in every reachable state. *)
LEMMA ClockInvariance == Spec => []IInv
  BY InitIInv, StepIInv, PTL DEF Spec

(* The clock's state stays in its type: the counter never leaves Base and up. *)
THEOREM ClockTypeCorrect == Spec => []TypeOK
<1>1. IInv => TypeOK
  BY DEF IInv
<1>2. QED
  BY <1>1, ClockInvariance, PTL

(* For any number of threads, weak compare-and-swaps and stale loads: next()  *)
(* never returns the same timestamp to two callers, and skips none (hlc.rs).   *)
THEOREM TimestampsAreExact == Spec => []EachOnceAndNoneSkipped
<1>1. IInv => EachOnceAndNoneSkipped
  BY DEF IInv, EachOnceAndNoneSkipped
<1>2. QED
  BY <1>1, ClockInvariance, PTL

(* ... and each is above everything its caller knew when it asked.             *)
THEOREM TimestampsAreCausal == Spec => NextIsCausal
<1> DEFINE A == \A t \in Threads : \A n \in issued'[t] \ issued[t] : n > started[t]
<1>1. IInv /\ [Next]_vars => [A]_vars
  <2> SUFFICES ASSUME IInv, Next, NEW t \in Threads, NEW n \in issued'[t] \ issued[t]
               PROVE n > started[t]
    BY DEF vars
  <2>1. CasSucceeds(t) /\ n = last + 1
    BY DEF Next, StartNext, CasSucceeds, CasFails, Now, Tell, IInv, TypeOK
  <2>2. QED
    BY <2>1, HlcAssumption DEF CasSucceeds, IInv, TypeOK, Ticks, ViewsAreBehind
<1>2. QED
  BY <1>1, ClockInvariance, PTL DEF Spec, NextIsCausal

-----------------------------------------------------------------------------
(* Orders *)

(* InOrder goes through a set of numbers, once. *)
LEMMA InOrderLaws ==
  ASSUME NEW S \in SUBSET Nat, IsFiniteSet(S)
  PROVE  GoesThrough(InOrder(S), Cardinality(S), S)
<1> DEFINE leq == {p \in S \X S : p[1] <= p[2]}
<1>1. OrdersTotally(leq, S)
  BY DEF OrdersTotally
<1>2. \A x \in S : {y \in S : <<y, x>> \in leq} = {y \in S : y <= x}
  OBVIOUS
<1> HIDE DEF leq
<1>3. \A x \in S : Rank(leq, S, x) = Cardinality({y \in S : y <= x})
  BY <1>2 DEF Rank
<1>4. InOrder(S) = Listed(leq, S)
  <2> DEFINE c(x) == Cardinality({y \in S : y <= x})
             r(x) == Rank(leq, S, x)
  <2>1. InOrder(S) = [n \in 1 .. Cardinality(S) |-> CHOOSE x \in S : c(x) = n]
    BY DEF InOrder
  <2>2. Listed(leq, S) = [n \in 1 .. Cardinality(S) |-> CHOOSE x \in S : r(x) = n]
    BY DEF Listed
  <2>3. \A x \in S : c(x) = r(x)
    BY <1>3
  <2> HIDE DEF c, r
  <2>4. \A n : (CHOOSE x \in S : c(x) = n) = (CHOOSE x \in S : r(x) = n)
    BY <2>3
  <2>5. QED
    BY <2>1, <2>2, <2>4
<1>5. QED
  BY <1>1, <1>4, ListedLaws DEF GoesThrough

-----------------------------------------------------------------------------
(* Distances *)

(* A distance is a number, the same from both ends. *)
LEMMA DistanceLaws ==
  ASSUME NEW x \in Int, NEW y \in Int
  PROVE  L2(x, y) \in Nat /\ L2(x, y) = L2(y, x)
  BY DEF L2

(* A detour is not shorter. *)
LEMMA Triangle ==
  ASSUME NEW x \in Int, NEW y \in Int, NEW z \in Int
  PROVE  L2(x, z) <= L2(x, y) + L2(y, z)
  BY DEF L2

(* f takes k places, each another, of m. *)
Places(f, k, m) ==
  /\ f \in [1 .. k -> 1 .. m]
  /\ \A i, j \in 1 .. k : f[i] = f[j] => i = j

(* There is no room for more than m in m places. *)
LEMMA NoRoom ==
  ASSUME NEW k \in Nat, NEW m \in Nat, NEW f, Places(f, k, m)
  PROVE  k <= m
<1>1. f \in Injection(1 .. k, 1 .. m)
  BY DEF Injection, IsInjective, Places
<1>2. IsFiniteSet(1 .. k) /\ Cardinality(1 .. k) = k /\ IsFiniteSet(1 .. m) /\ Cardinality(1 .. m) = m
  BY FS_Interval
<1>3. Cardinality(1 .. k) <= Cardinality(1 .. m)
  BY <1>1, <1>2, FS_Injection
<1>4. QED
  BY <1>2, <1>3

-----------------------------------------------------------------------------
(* The k nearest *)

(* best has the k nearest of V: d is how far each is. *)
TopOf(best, k, V, d) ==
  /\ DOMAIN best = 1 .. Len(best) /\ Len(best) \in Nat /\ Len(best) <= k
  /\ \A i \in DOMAIN best : best[i].sid \in V /\ best[i].dist = d[best[i].sid]
  /\ \A i, j \in DOMAIN best : best[i].sid = best[j].sid => i = j
  /\ \A i, j \in DOMAIN best : i <= j => best[i].dist <= best[j].dist
  /\ \A v \in V : \/ \E i \in DOMAIN best : best[i].sid = v
                  \/ Len(best) = k /\ \A i \in DOMAIN best : best[i].dist <= d[v]

(* Nothing of W beats the k-th. *)
LEMMA TopSkips ==
  ASSUME NEW k \in Nat, NEW V, NEW W, NEW d, NEW best, TopOf(best, k, V, d),
         Len(best) = k, \A w \in W, i \in DOMAIN best : best[i].dist <= d[w]
  PROVE  TopOf(best, k, V \union W, d)
  BY DEF TopOf

(* all has what best has, and then W; keys are its distances. *)
Merges(all, keys, best, V, W, d) ==
  /\ \A v \in V \union W : d[v] \in Nat
  /\ Len(best) <= Len(all)
  /\ \A i \in DOMAIN best : all[i] = best[i]
  /\ \A i \in DOMAIN all : /\ all[i].sid \in V \union W /\ all[i].dist = d[all[i].sid]
                           /\ keys[i] = all[i].dist
  /\ \A i, j \in DOMAIN all : all[i].sid = all[j].sid => i = j
  /\ \A w \in W : \E i \in DOMAIN all : all[i].sid = w

(* The nearest of both are the first of all. *)
LEMMA TopMerges ==
  ASSUME NEW k \in Nat, NEW V, NEW W, NEW d, NEW best, TopOf(best, k, V, d),
         NEW C, NEW all \in Seq(C), NEW keys, Merges(all, keys, best, V, W, d)
  PROVE  /\ FirstOf(Sorted(all, keys), k) \in Seq(C)
         /\ TopOf(FirstOf(Sorted(all, keys), k), k, V \union W, d)
<1> DEFINE n == Len(all)
           b == Len(best)
           s == Sorted(all, keys)
           top == FirstOf(s, k)
<1>0. /\ \A v \in V \union W : d[v] \in Nat
      /\ Len(best) <= Len(all)
      /\ \A i \in DOMAIN best : all[i] = best[i]
      /\ \A i \in DOMAIN all : /\ all[i].sid \in V \union W /\ all[i].dist = d[all[i].sid]
                               /\ keys[i] = all[i].dist
      /\ \A i, j \in DOMAIN all : all[i].sid = all[j].sid => i = j
      /\ \A w \in W : \E i \in DOMAIN all : all[i].sid = w
  BY DEF Merges
<1>1. n \in Nat /\ DOMAIN all = 1 .. n /\ \A i \in 1 .. n : all[i] \in C
  OBVIOUS
<1>2. \A i \in 1 .. n : keys[i] = all[i].dist /\ keys[i] \in Nat
  BY <1>0, <1>1
<1>3. PICK p : Sorts(p, n, keys) /\ s = [r \in 1 .. n |-> all[p[r]]]
  <2> HIDE DEF n, s
  <2>1. HasKeys(n, all, keys)
    BY <1>1, <1>2 DEF HasKeys
  <2>2. PICK p : SortedSo(p, n, all, keys)
    BY <2>1, SortedLaws, Zenon
  <2>3. QED
    BY <2>2 DEF s, SortedSo
<1>4. /\ \A i \in 1 .. n : p[i] \in 1 .. n
      /\ \A i, j \in 1 .. n : p[i] = p[j] => i = j
      /\ \A x \in 1 .. n : \E i \in 1 .. n : p[i] = x
      /\ \A i, j \in 1 .. n : i <= j => keys[p[i]] <= keys[p[j]]
  BY <1>3 DEF Sorts, GoesThrough
<1>5. s \in Seq(C) /\ Len(s) = n /\ \A r \in 1 .. n : s[r] = all[p[r]] /\ s[r].dist = keys[p[r]]
  <2>1. s \in [1 .. n -> C]
    <3> HIDE DEF n, s
    <3>1. QED
      BY <1>1, <1>3, <1>4
  <2>2. \A r \in 1 .. n : s[r] = all[p[r]]
    <3> HIDE DEF n, s
    <3>1. QED
      BY <1>3
  <2> HIDE DEF n, s
  <2>3. s \in Seq(C) /\ Len(s) = n
    BY <1>1, <2>1
  <2>4. \A r \in 1 .. n : s[r].dist = keys[p[r]]
    <3> HIDE DEF n
    <3>1. \A r \in 1 .. n : p[r] \in 1 .. n
      BY <1>4
    <3>2. QED
      BY <1>2, <2>2, <3>1
  <2>5. QED
    BY <2>2, <2>3, <2>4
<1> HIDE DEF s
<1>6. PICK m \in Nat : /\ m <= k /\ m <= n /\ (m = k \/ m = n)
                       /\ top \in Seq(C) /\ Len(top) = m /\ DOMAIN top = 1 .. m
                       /\ \A i \in 1 .. m : top[i] = s[i]
  <2> HIDE DEF n
  <2>1. PICK m : IsFirst(FirstOf(s, k), m, s, k, C)
    BY <1>5, FirstOfLaws, Zenon
  <2>2. QED
    BY <1>5, <2>1 DEF IsFirst
<1> HIDE DEF top, n
<1>7. \A i \in 1 .. m : i \in 1 .. n /\ p[i] \in 1 .. n /\ top[i] = all[p[i]] /\ top[i].dist = keys[p[i]]
  <2>1. \A i \in 1 .. m : i \in 1 .. n
    BY <1>1, <1>6
  <2>2. QED
    BY <1>4, <1>5, <1>6, <2>1
<1>8. /\ b \in Nat /\ b <= n /\ b <= k
      /\ \A i \in 1 .. b : i \in 1 .. n /\ i \in DOMAIN best /\ all[i] = best[i]
      /\ \A v \in V : \/ \E i \in 1 .. b : best[i].sid = v
                      \/ b = k /\ \A i \in 1 .. b : best[i].dist <= d[v]
  <2>1. b \in Nat /\ b <= n /\ b <= k /\ DOMAIN best = 1 .. b
    BY <1>0 DEF TopOf, n
  <2>2. \A i \in 1 .. b : i \in 1 .. n
    <3> HIDE DEF b
    <3>1. QED
      BY <1>1, <2>1
  <2>3. QED
    BY <1>0, <2>1, <2>2 DEF TopOf
<1> HIDE DEF b
<1>9. \A i \in 1 .. m : top[i].sid \in V \union W /\ top[i].dist = d[top[i].sid]
  BY <1>0, <1>1, <1>2, <1>7
<1>10. \A i, j \in 1 .. m : top[i].sid = top[j].sid => i = j
  <2> SUFFICES ASSUME NEW i \in 1 .. m, NEW j \in 1 .. m, top[i].sid = top[j].sid PROVE i = j
    OBVIOUS
  <2>1. p[i] \in DOMAIN all /\ p[j] \in DOMAIN all /\ all[p[i]].sid = all[p[j]].sid
    BY <1>1, <1>7
  <2>2. p[i] = p[j]
    BY <1>0, <2>1
  <2>3. QED
    BY <1>4, <1>7, <2>2
<1>11. \A i, j \in 1 .. m : i <= j => top[i].dist <= top[j].dist
  <2> SUFFICES ASSUME NEW i \in 1 .. m, NEW j \in 1 .. m, i <= j
               PROVE  top[i].dist <= top[j].dist
    OBVIOUS
  <2>1. i \in 1 .. n /\ j \in 1 .. n
    BY <1>7
  <2>2. keys[p[i]] <= keys[p[j]]
    BY <1>4, <2>1
  <2>3. QED
    BY <1>7, <2>2
<1>12. ASSUME NEW j \in 1 .. n
       PROVE  \/ \E i \in 1 .. m : top[i].sid = all[j].sid
              \/ m = k /\ \A i \in 1 .. m : top[i].dist <= d[all[j].sid]
  <2>1. PICK r \in 1 .. n : p[r] = j
    BY <1>4
  <2>2. CASE r \in 1 .. m
    BY <1>7, <2>1, <2>2
  <2>3. CASE r \notin 1 .. m
    <3>1. m < r /\ m # n /\ m = k
      BY <1>1, <1>6, <2>3
    <3>2. \A i \in 1 .. m : i \in 1 .. n /\ i <= r
      BY <1>7, <3>1
    <3>3. \A i \in 1 .. m : keys[p[i]] <= keys[j]
      BY <1>4, <2>1, <3>2
    <3>4. keys[j] = d[all[j].sid]
      BY <1>0, <1>1, <1>2
    <3>5. QED
      BY <1>7, <3>1, <3>3, <3>4
  <2>4. QED
    BY <2>2, <2>3
<1>13. ASSUME NEW v \in V, b = k, \A i \in 1 .. b : best[i].dist <= d[v]
       PROVE  m = k /\ \A i \in 1 .. m : top[i].dist <= d[v]
  <2>1. m = k
    BY <1>1, <1>6, <1>8, <1>13
  <2>2. ASSUME NEW i \in 1 .. m, ~ (top[i].dist <= d[v])
        PROVE  FALSE
    <3> DEFINE where == [x \in 1 .. k |-> CHOOSE r \in 1 .. n : p[r] = x]
    <3>1. \A x \in 1 .. k : x \in 1 .. n /\ keys[x] <= d[v]
      BY <1>0, <1>1, <1>2, <1>8, <1>13
    <3>2. \A x \in 1 .. k : where[x] \in 1 .. n /\ p[where[x]] = x
      BY <1>4, <3>1
    <3>3. d[v] \in Nat /\ top[i].dist = keys[p[i]] /\ i \in 1 .. n /\ keys[p[i]] \in Nat
      BY <1>0, <1>2, <1>7
    <3> HIDE DEF where
    <3>4. ASSUME NEW x \in 1 .. k PROVE where[x] \in 1 .. i - 1
      <4>1. keys[p[where[x]]] <= d[v] /\ keys[x] \in Nat
        BY <1>2, <3>1, <3>2
      <4>2. ~ (keys[p[i]] <= keys[p[where[x]]])
        BY <2>2, <3>2, <3>3, <4>1
      <4>3. ~ (i <= where[x])
        BY <1>4, <3>2, <3>3, <4>2
      <4>4. where[x] \in Nat /\ where[x] >= 1 /\ i \in Nat
        BY <3>2
      <4>5. QED
        BY <4>3, <4>4
    <3>5. where \in [1 .. k -> 1 .. i - 1]
      BY <3>4 DEF where
    <3>6. i - 1 \in Nat /\ i - 1 < k
      BY <2>1
    <3>7. \A x, y \in 1 .. k : where[x] = where[y] => x = y
      BY <3>2
    <3>9. Places(where, k, i - 1)
      BY <3>5, <3>7 DEF Places
    <3>10. k <= i - 1
      BY <3>6, <3>9, NoRoom, Zenon
    <3>8. QED
      BY <3>6, <3>10
  <2>3. QED
    BY <2>1, <2>2
<1>14. ASSUME NEW v \in V \union W
       PROVE  \/ \E i \in 1 .. m : top[i].sid = v
              \/ m = k /\ \A i \in 1 .. m : top[i].dist <= d[v]
  <2>1. CASE \E j \in 1 .. n : all[j].sid = v
    <3>1. PICK j \in 1 .. n : all[j].sid = v
      BY <2>1
    <3>2. QED
      BY <1>12, <3>1
  <2>2. CASE ~ \E j \in 1 .. n : all[j].sid = v
    <3>1. v \in V
      BY <1>0, <1>1, <2>2
    <3>2. ~ \E i \in 1 .. b : best[i].sid = v
      BY <1>8, <2>2
    <3>3. QED
      BY <1>8, <1>13, <3>1, <3>2
  <2>3. QED
    BY <2>1, <2>2
<1>15. TopOf(top, k, V \union W, d)
  BY <1>6, <1>9, <1>10, <1>11, <1>14 DEF TopOf
<1>16. QED
  BY <1>6, <1>15 DEF top, s

(* Two such answers are as long and as far. *)
LEMMA TopIsUnique ==
  ASSUME NEW k \in Nat, NEW V, NEW d, \A v \in V : d[v] \in Nat,
         NEW a, TopOf(a, k, V, d), NEW b, TopOf(b, k, V, d)
  PROVE  Len(a) <= Len(b) /\ \A i \in DOMAIN a : a[i].dist >= b[i].dist
<1> DEFINE m == Len(a)
           n == Len(b)
<1>1. /\ m \in Nat /\ n \in Nat /\ m <= k /\ n <= k /\ DOMAIN a = 1 .. m /\ DOMAIN b = 1 .. n
      /\ \A i \in 1 .. m : a[i].sid \in V /\ a[i].dist = d[a[i].sid] /\ a[i].dist \in Nat
      /\ \A i \in 1 .. n : b[i].sid \in V /\ b[i].dist = d[b[i].sid] /\ b[i].dist \in Nat
  BY DEF TopOf
<1>2. /\ \A i, j \in 1 .. m : a[i].sid = a[j].sid => i = j
      /\ \A i, j \in 1 .. m : i <= j => a[i].dist <= a[j].dist
      /\ \A i, j \in 1 .. n : i <= j => b[i].dist <= b[j].dist
      /\ \A v \in V : \/ \E i \in 1 .. n : b[i].sid = v
                      \/ n = k /\ \A i \in 1 .. n : b[i].dist <= d[v]
  BY DEF TopOf
<1> HIDE DEF m, n
<1>3. m <= n
  <2> SUFFICES ASSUME ~ (m <= n) PROVE FALSE
    OBVIOUS
  <2>1. n # k
    BY <1>1
  <2> DEFINE who == [i \in 1 .. m |-> CHOOSE j \in 1 .. n : b[j].sid = a[i].sid]
  <2>2. \A i \in 1 .. m : who[i] \in 1 .. n /\ b[who[i]].sid = a[i].sid
    BY <1>1, <1>2, <2>1
  <2>3. who \in [1 .. m -> 1 .. n]
    BY <2>2
  <2> HIDE DEF who
  <2>6. \A x, y \in 1 .. m : who[x] = who[y] => x = y
    BY <1>2, <2>2
  <2>7. Places(who, m, n)
    BY <2>3, <2>6 DEF Places
  <2>4. m <= n
    BY <1>1, <2>7, NoRoom, Zenon
  <2>5. QED
    BY <2>4
<1>4. ASSUME NEW i \in 1 .. m PROVE a[i].dist >= b[i].dist
  <2> SUFFICES ASSUME ~ (a[i].dist >= b[i].dist) PROVE FALSE
    OBVIOUS
  <2>0. i \in 1 .. n /\ i \in Nat /\ i - 1 \in Nat
    BY <1>1, <1>3
  <2> DEFINE who == [x \in 1 .. i |-> CHOOSE j \in 1 .. n : b[j].sid = a[x].sid]
  <2>1. \A x \in 1 .. i : x \in 1 .. m /\ x <= i
    BY <1>1
  <2>2. ASSUME NEW x \in 1 .. i PROVE d[a[x].sid] < b[i].dist /\ d[a[x].sid] \in Nat
    <3>1. a[x].dist <= a[i].dist /\ a[x].dist \in Nat /\ a[i].dist \in Nat /\ b[i].dist \in Nat
          /\ a[x].dist = d[a[x].sid]
      BY <1>1, <1>2, <2>0, <2>1
    <3>2. QED
      BY <3>1
  <2>3. ASSUME NEW x \in 1 .. i PROVE \E j \in 1 .. n : b[j].sid = a[x].sid
    <3>1. b[i].dist \in Nat /\ ~ (b[i].dist <= d[a[x].sid])
      BY <1>1, <2>0, <2>2
    <3>2. QED
      BY <1>1, <1>2, <2>0, <2>1, <3>1
  <2>4. \A x \in 1 .. i : who[x] \in 1 .. n /\ b[who[x]].sid = a[x].sid
    BY <2>3
  <2> HIDE DEF who
  <2>5. ASSUME NEW x \in 1 .. i PROVE who[x] \in 1 .. i - 1
    <3>1. who[x] \in 1 .. n /\ b[who[x]].dist = d[a[x].sid] /\ b[who[x]].dist \in Nat
      BY <1>1, <2>4
    <3>2. ~ (b[i].dist <= b[who[x]].dist)
      BY <1>1, <2>0, <2>2, <3>1
    <3>3. ~ (i <= who[x])
      BY <1>2, <2>0, <3>1, <3>2
    <3>4. who[x] \in Nat /\ who[x] >= 1
      BY <3>1
    <3>5. QED
      BY <2>0, <3>3, <3>4
  <2>6. who \in [1 .. i -> 1 .. i - 1]
    BY <2>5 DEF who
  <2>9. \A x, y \in 1 .. i : who[x] = who[y] => x = y
    BY <1>2, <2>1, <2>4
  <2>10. Places(who, i, i - 1)
    BY <2>6, <2>9 DEF Places
  <2>7. i <= i - 1
    BY <2>0, <2>10, NoRoom, Zenon
  <2>8. QED
    BY <2>0, <2>7
<1>5. QED
  BY <1>1, <1>3, <1>4 DEF m, n

-----------------------------------------------------------------------------
(* k-means *)

(* A mean of numbers is a number. *)
LEMMA MeanIsANumber ==
  ASSUME NEW n \in Nat \ {0}, NEW ats \in [1 .. n -> Int]
  PROVE  Mean(ats) \in Int
<1> DEFINE Body(it) == [U \in SUBSET DOMAIN ats |->
                          IF U = {} THEN 0 ELSE it[U \ {Max(U)}] + ats[Max(U)]]
           Iter == CHOOSE it : it = Body(it)
           step == [x \in (1 .. n) \X Int |-> x[2] + ats[x[1]]]
<1>1. n \in Nat /\ DOMAIN ats = 1 .. n /\ Len(ats) = n
  <2>1. ats \in Seq(Int)
    OBVIOUS
  <2>2. QED
    BY <2>1
<1>2. step \in [(1 .. n) \X Int -> Int]
  OBVIOUS
<1>3. PICK f : f \in [SUBSET (1 .. n) -> Int] /\ FoldsLeft(f, n, 0, step)
  <2> HIDE DEF step
  <2>1. 0 \in Int
    OBVIOUS
  <2>2. QED
    BY <1>1, <1>2, <2>1, FoldExists, Zenon
<1>4. f = Body(f)
  <2>1. \A U \in SUBSET (1 .. n) :
          U # {} => Max(U) \in 1 .. n /\ U \ {Max(U)} \in SUBSET (1 .. n)
    BY MaxIsGreatest, <1>1
  <2>2. \A U \in SUBSET (1 .. n) :
          f[U] = IF U = {} THEN 0 ELSE f[U \ {Max(U)}] + ats[Max(U)]
    BY <1>3, <2>1 DEF FoldsLeft
  <2>3. QED
    BY <1>1, <1>3, <2>2
<1>5. Iter = Body(Iter)
  <2> HIDE DEF Body
  <2>1. QED
    BY <1>4
<1>6. Mean(ats) = Iter[DOMAIN ats] \div n
  <2>1. FoldLeft(LAMBDA sum, x : sum + x, 0, ats) = Iter[DOMAIN ats]
    BY DEF FoldLeft, MapThenFoldSet
  <2> HIDE DEF Iter
  <2>2. QED
    BY <1>1, <2>1 DEF Mean
<1> HIDE DEF Iter
<1>7. Iter[1 .. n] \in Int
  <2>1. Iter[{}] \in Int
    <3>1. Iter[{}] = Body(Iter)[{}]
      BY <1>5
    <3>2. QED
      BY <3>1
  <2>2. ASSUME NEW U \in SUBSET (1 .. n), U # {}, Iter[U \ {Max(U)}] \in Int
        PROVE  Iter[U] \in Int
    <3>1. Iter[U] = Body(Iter)[U]
      BY <1>5
    <3>2. Iter[U] = Iter[U \ {Max(U)}] + ats[Max(U)]
      BY <1>1, <2>2, <3>1
    <3>3. ats[Max(U)] \in Int
      BY <1>1, <2>2, MaxIsGreatest
    <3>4. QED
      BY <2>2, <3>2, <3>3
  <2> HIDE DEF Body
  <2>3. QED
    BY <1>1, <2>1, <2>2, FoldStays
<1>8. QED
  BY <1>1, <1>6, <1>7

(* Some centroid is the first of the nearest. *)
LEMMA NearestIsOne ==
  ASSUME NEW b \in Nat \ {0}, NEW centroids \in [1 .. b -> Int], NEW point \in Int
  PROVE  NearestOf(centroids, point) \in 1 .. b
<1> DEFINE l(c) == L2(point, centroids[c])
           Nearest(c) == \A d \in 1 .. b : l(c) < l(d) \/ (l(c) = l(d) /\ c <= d)
<1>1. \A c \in 1 .. b : l(c) \in Nat
  BY DistanceLaws
<1>2. NearestOf(centroids, point) = CHOOSE c \in 1 .. b : Nearest(c)
  BY DEF NearestOf
<1> HIDE DEF l
<1>3. PICK x \in 1 .. b : \A d \in 1 .. b : l(x) <= l(d)
  <2> DEFINE T == {l(c) : c \in 1 .. b}
  <2>1. T \in SUBSET Nat /\ T # {}
    BY <1>1
  <2> HIDE DEF T
  <2>2. PICK n \in T : \A m \in T : n <= m
    BY <2>1, LeastNumber
  <2>3. QED
    BY <2>2 DEF T
<1>4. PICK c \in 1 .. b : l(c) = l(x) /\ \A d \in 1 .. b : l(d) = l(x) => c <= d
  <2> DEFINE T == {d \in 1 .. b : l(d) = l(x)}
  <2>1. T \in SUBSET Nat /\ T # {}
    OBVIOUS
  <2> HIDE DEF T
  <2>2. PICK n \in T : \A m \in T : n <= m
    BY <2>1, LeastNumber
  <2>3. QED
    BY <2>2 DEF T
<1>5. Nearest(c)
  BY <1>1, <1>3, <1>4
<1> HIDE DEF Nearest
<1>6. QED
  BY <1>2, <1>5

Grain == [sid : BlockSids, cat : Categories, at : Points]

(* The grains a store is built from: each is fed under its number. *)
IsFed(rs) ==
  /\ rs \in Seq(Grain) /\ Len(rs) <= MaxRecs
  /\ \A i \in DOMAIN rs : rs[i].sid = i

(* group is the grains of rs at the places own goes through. *)
GroupedSo(own, m, group, rs, assign, c) ==
  /\ GoesThrough(own, m, {i \in DOMAIN rs : assign[i] = c})
  /\ group = [x \in 1 .. m |-> rs[own[x]]]

(* A group is what is assigned to a centroid, in the order it was fed. *)
LEMMA GroupLaws ==
  ASSUME NEW rs \in Seq(Grain), NEW assign, NEW c
  PROVE  \E own, m : GroupedSo(own, m, GroupOf(rs, assign, c), rs, assign, c)
<1> DEFINE S == {i \in DOMAIN rs : assign[i] = c}
           own == InOrder(S)
<1>1. S \in SUBSET Nat /\ IsFiniteSet(S)
  <2>1. DOMAIN rs = 1 .. Len(rs) /\ Len(rs) \in Nat
    OBVIOUS
  <2>2. IsFiniteSet(1 .. Len(rs)) /\ S \subseteq 1 .. Len(rs)
    BY <2>1, FS_Interval
  <2>3. IsFiniteSet(S)
    <3> HIDE DEF S
    <3>1. QED
      BY <2>2, FS_Subset
  <2>4. QED
    BY <2>1, <2>2, <2>3
<1>2. GroupOf(rs, assign, c) = [x \in DOMAIN own |-> rs[own[x]]]
  BY DEF GroupOf
<1>3. GoesThrough(own, Cardinality(S), S)
  <2> HIDE DEF S
  <2>1. QED
    BY <1>1, InOrderLaws
<1> HIDE DEF own
<1>4. GroupedSo(own, Cardinality(S), GroupOf(rs, assign, c), rs, assign, c)
  BY <1>2, <1>3 DEF GroupedSo, GoesThrough
<1>5. QED
  BY <1>4

(* What a group is made of. *)
LEMMA GroupHas ==
  ASSUME NEW rs \in Seq(Grain), NEW assign, NEW c
  PROVE  /\ GroupOf(rs, assign, c) \in Seq(Grain)
         /\ \A x \in DOMAIN GroupOf(rs, assign, c) :
              \E i \in DOMAIN rs : assign[i] = c /\ GroupOf(rs, assign, c)[x] = rs[i]
         /\ \A i \in DOMAIN rs :
              assign[i] = c => \E x \in DOMAIN GroupOf(rs, assign, c) : GroupOf(rs, assign, c)[x] = rs[i]
<1> DEFINE g == GroupOf(rs, assign, c)
<1>1. PICK own, m : GroupedSo(own, m, g, rs, assign, c)
  BY GroupLaws, Zenon
<1> HIDE DEF g
<1>2. /\ m \in Nat /\ g = [x \in 1 .. m |-> rs[own[x]]]
      /\ \A x \in 1 .. m : own[x] \in DOMAIN rs /\ assign[own[x]] = c
      /\ \A i \in DOMAIN rs : assign[i] = c => \E x \in 1 .. m : own[x] = i
  BY <1>1 DEF GroupedSo, GoesThrough
<1>3. g \in [1 .. m -> Grain]
  BY <1>2
<1>4. g \in Seq(Grain) /\ DOMAIN g = 1 .. m
  BY <1>2, <1>3
<1>5. \A x \in DOMAIN g : \E i \in DOMAIN rs : assign[i] = c /\ g[x] = rs[i]
  BY <1>2, <1>4
<1>6. \A i \in DOMAIN rs : assign[i] = c => \E x \in DOMAIN g : g[x] = rs[i]
  BY <1>2, <1>4
<1>7. QED
  BY <1>4, <1>5, <1>6 DEF g

(* A group has no grain twice. *)
LEMMA GroupHasOnce ==
  ASSUME NEW rs, IsFed(rs), NEW assign, NEW c
  PROVE  \A x, y \in DOMAIN GroupOf(rs, assign, c) :
           GroupOf(rs, assign, c)[x].sid = GroupOf(rs, assign, c)[y].sid => x = y
<1> DEFINE g == GroupOf(rs, assign, c)
<1>0. rs \in Seq(Grain) /\ \A i \in DOMAIN rs : rs[i].sid = i
  BY DEF IsFed
<1>1. PICK own, m : GroupedSo(own, m, g, rs, assign, c)
  BY <1>0, GroupLaws, Zenon
<1> HIDE DEF g
<1>2. /\ m \in Nat /\ g = [x \in 1 .. m |-> rs[own[x]]]
      /\ \A x \in 1 .. m : own[x] \in DOMAIN rs
      /\ \A x, y \in 1 .. m : own[x] = own[y] => x = y
  BY <1>1 DEF GroupedSo, GoesThrough
<1>3. QED
  BY <1>0, <1>2 DEF g

(* A place picked evenly is a place. *)
LEMMA Quotient ==
  ASSUME NEW l \in Nat \ {0}, NEW b \in Nat \ {0}, NEW c \in 1 .. b
  PROVE  ((c - 1) * l) \div b + 1 \in 1 .. l
<1> DEFINE x == (c - 1) * l
           y == x \div b
           z == x % b
<1>1. x \in Nat /\ x < b * l
  <2>1. c - 1 \in Nat /\ c - 1 <= b - 1
    OBVIOUS
  <2>2. (c - 1) * l <= (b - 1) * l
    BY <2>1
  <2>3. (b - 1) * l = b * l - l
    OBVIOUS
  <2>4. (c - 1) * l \in Nat
    BY <2>1
  <2>5. b * l \in Nat
    OBVIOUS
  <2>6. QED
    BY <2>2, <2>3, <2>4, <2>5
<1> HIDE DEF x
<1>2. y \in Nat /\ b * y <= x
  BY <1>1
<1> HIDE DEF y
<1>3. y < l
  <2> SUFFICES ASSUME l <= y PROVE FALSE
    BY <1>2
  <2>1. b * l <= b * y
    BY <1>2
  <2>2. b * l \in Nat /\ b * y \in Nat
    BY <1>2
  <2>3. QED
    BY <1>1, <1>2, <2>1, <2>2
<1>4. QED
  BY <1>2, <1>3 DEF y, x

(* The seeds are vectors of grains. *)
LEMMA SeedsAreVectors ==
  ASSUME NEW rs \in Seq(Grain), rs # <<>>, NEW n \in Nat \ {0}
  PROVE  \E b \in 1 .. n : Seeds(rs, n) \in [1 .. b -> Int]
<1> DEFINE l == Len(rs)
           b == IF n < l THEN n ELSE l
           pos(c) == ((c - 1) * l) \div b + 1
<1>1. l \in Nat \ {0} /\ DOMAIN rs = 1 .. l
  OBVIOUS
<1>2. b \in Nat \ {0} /\ b \in 1 .. n
  BY <1>1
<1>3. Seeds(rs, n) = [c \in 1 .. b |-> rs[pos(c)].at]
  BY DEF Seeds
<1> HIDE DEF b, l
<1>4. \A c \in 1 .. b : pos(c) \in 1 .. l
  BY <1>1, <1>2, Quotient
<1> HIDE DEF pos
<1>5. \A c \in 1 .. b : rs[pos(c)] \in Grain
  BY <1>1, <1>4
<1>6. \A c \in 1 .. b : rs[pos(c)].at \in Int
  BY <1>5, BlockAssumption DEF Grain
<1>7. QED
  BY <1>2, <1>3, <1>6

(* Every grain is assigned to a centroid. *)
LEMMA AssignedLaws ==
  ASSUME NEW rs \in Seq(Grain), NEW b \in Nat \ {0}, NEW centroids \in [1 .. b -> Int]
  PROVE  AssignedTo(rs, centroids) \in [DOMAIN rs -> 1 .. b]
<1>1. \A i \in DOMAIN rs : rs[i].at \in Int
  <2>1. \A i \in DOMAIN rs : rs[i] \in Grain
    OBVIOUS
  <2>2. QED
    BY <2>1, BlockAssumption DEF Grain
<1>2. \A i \in DOMAIN rs : NearestOf(centroids, rs[i].at) \in 1 .. b
  BY <1>1, NearestIsOne
<1>3. QED
  BY <1>2 DEF AssignedTo

(* The vectors of a group that is not empty have a mean. *)
LEMMA GroupMean ==
  ASSUME NEW g \in Seq(Grain), g # <<>>
  PROVE  Mean(AtsOf(g)) \in Int
<1>1. Len(g) \in Nat \ {0} /\ DOMAIN g = 1 .. Len(g)
  OBVIOUS
<1>2. \A i \in DOMAIN g : g[i].at \in Int
  <2>1. \A i \in DOMAIN g : g[i] \in Grain
    OBVIOUS
  <2>2. QED
    BY <2>1, BlockAssumption DEF Grain
<1>3. AtsOf(g) \in [1 .. Len(g) -> Int]
  BY <1>1, <1>2 DEF AtsOf
<1>4. QED
  BY <1>1, <1>3, MeanIsANumber, Zenon

(* A pass makes centroids of centroids. *)
LEMMA RecomputedLaws ==
  ASSUME NEW rs \in Seq(Grain), NEW b \in Nat \ {0}, NEW centroids \in [1 .. b -> Int]
  PROVE  Recomputed(rs, centroids) \in [1 .. b -> Int]
<1> DEFINE g(c) == GroupOf(rs, AssignedTo(rs, centroids), c)
<1>1. \A c : g(c) \in Seq(Grain)
  BY GroupHas
<1>2. Recomputed(rs, centroids) =
        [c \in 1 .. b |-> IF g(c) = <<>> THEN centroids[c] ELSE Mean(AtsOf(g(c)))]
  BY DEF Recomputed
<1> HIDE DEF g
<1>3. \A c : g(c) # <<>> => Mean(AtsOf(g(c))) \in Int
  BY <1>1, GroupMean
<1>4. QED
  BY <1>2, <1>3

-----------------------------------------------------------------------------
(* Passes *)

(* f[1] is base, and step makes every other value from the one before it. *)
Iterates(f, n, T, base, step) ==
  /\ f \in [1 .. n -> T]
  /\ \A p \in 1 .. n : f[p] = IF p = 1 THEN base ELSE step[f[p - 1]]

(* A function made by passes exists. *)
LEMMA IterationExists ==
  ASSUME NEW T, NEW base \in T, NEW step \in [T -> T]
  PROVE  \A n \in Nat : \E f : Iterates(f, n, T, base, step)
<1> DEFINE S == {n \in Nat : \E f : Iterates(f, n, T, base, step)}
<1>1. 0 \in S
  <2>1. Iterates([p \in 1 .. 0 |-> base], 0, T, base, step)
    BY DEF Iterates
  <2>2. QED
    BY <2>1
<1>2. ASSUME NEW n \in Nat, n \in S PROVE n + 1 \in S
  <2>1. PICK f : Iterates(f, n, T, base, step)
    BY <1>2
  <2> DEFINE g == [p \in 1 .. n + 1 |->
                     IF p <= n THEN f[p] ELSE IF p = 1 THEN base ELSE step[f[p - 1]]]
  <2>2. ASSUME NEW p \in 1 .. n + 1
        PROVE  g[p] \in T /\ g[p] = IF p = 1 THEN base ELSE step[g[p - 1]]
    <3>1. CASE p <= n
      <4>1. p \in 1 .. n /\ (p # 1 => p - 1 \in 1 .. n)
        BY <3>1
      <4>2. g[p] = f[p] /\ (p # 1 => g[p - 1] = f[p - 1])
        BY <4>1
      <4>3. QED
        BY <2>1, <4>1, <4>2 DEF Iterates
    <3>2. CASE ~ (p <= n)
      <4>1. p = n + 1 /\ (p # 1 => p - 1 \in 1 .. n /\ p - 1 <= n /\ p - 1 \in 1 .. n + 1)
        BY <3>2
      <4>2. g[p] = IF p = 1 THEN base ELSE step[f[p - 1]]
        BY <3>2, <4>1
      <4>3. p # 1 => g[p - 1] = f[p - 1] /\ f[p - 1] \in T
        BY <2>1, <4>1 DEF Iterates
      <4>4. QED
        BY <4>2, <4>3
    <3>3. QED
      BY <3>1, <3>2
  <2>3. Iterates(g, n + 1, T, base, step)
    <3>1. g \in [1 .. n + 1 -> T]
      BY <2>2
    <3> HIDE DEF g
    <3>2. QED
      BY <2>2, <3>1 DEF Iterates
  <2>4. QED
    BY <2>3
<1> HIDE DEF S
<1>3. \A n \in Nat : n \in S
  BY <1>1, <1>2, NumbersInduction
<1>4. QED
  BY <1>3 DEF S

(* Every grain is assigned to one of at most n centroids. *)
LEMMA KmeansAssigns ==
  ASSUME NEW rs \in Seq(Grain), rs # <<>>, NEW n \in Nat \ {0}, NEW iters \in Nat \ {0}
  PROVE  KmeansAssign(rs, n, iters) \in [DOMAIN rs -> 1 .. n]
<1>1. PICK b \in 1 .. n : Seeds(rs, n) \in [1 .. b -> Int]
  BY SeedsAreVectors
<1> DEFINE T == [1 .. b -> Int]
           Body(it) == [p \in 1 .. iters |->
                          IF p = 1 THEN Seeds(rs, n) ELSE Recomputed(rs, it[p - 1])]
           Iter == CHOOSE it : it = Body(it)
           step == [c \in T |-> Recomputed(rs, c)]
<1>2. b \in Nat \ {0}
  BY <1>1
<1>3. step \in [T -> T]
  <2>1. \A c \in T : Recomputed(rs, c) \in T
    BY <1>2, RecomputedLaws
  <2> HIDE DEF T
  <2>2. QED
    BY <2>1
<1>4. PICK f : Iterates(f, iters, T, Seeds(rs, n), step)
  <2>1. iters \in Nat /\ Seeds(rs, n) \in T
    BY <1>1
  <2> HIDE DEF T, step
  <2>2. QED
    BY <1>3, <2>1, IterationExists, Zenon
<1> HIDE DEF T
<1>5. f = Body(f)
  <2>1. \A p \in 1 .. iters : p # 1 => p - 1 \in 1 .. iters
    OBVIOUS
  <2>2. \A p \in 1 .. iters : p # 1 => step[f[p - 1]] = Recomputed(rs, f[p - 1])
    BY <1>4, <2>1 DEF Iterates
  <2> HIDE DEF step
  <2>3. QED
    BY <1>4, <2>2 DEF Iterates
<1>6. Iter = Body(Iter)
  <2> HIDE DEF Body
  <2>1. QED
    BY <1>5
<1>7. KmeansAssign(rs, n, iters) = AssignedTo(rs, Iter[iters])
  BY DEF KmeansAssign
<1> HIDE DEF Iter
<1>8. \A p \in 1 .. iters : Iter[p] = IF p = 1 THEN Seeds(rs, n) ELSE Recomputed(rs, Iter[p - 1])
  <2>1. \A p \in 1 .. iters : Iter[p] = Body(Iter)[p]
    BY <1>6
  <2>2. QED
    BY <2>1
<1> HIDE DEF Body
<1>9. \A p \in Nat : p \in 1 .. iters => Iter[p] \in T
  <2> DEFINE S == {p \in Nat : p \in 1 .. iters => Iter[p] \in T}
  <2>1. 0 \in S
    OBVIOUS
  <2>2. ASSUME NEW p \in Nat, p \in S PROVE p + 1 \in S
    <3> SUFFICES ASSUME p + 1 \in 1 .. iters PROVE Iter[p + 1] \in T
      OBVIOUS
    <3>1. CASE p = 0
      <4>1. Iter[p + 1] = Seeds(rs, n)
        BY <1>8, <3>1
      <4>2. QED
        BY <1>1, <4>1 DEF T
    <3>2. CASE p # 0
      <4>1. p \in 1 .. iters /\ p + 1 # 1 /\ (p + 1) - 1 = p
        BY <3>2
      <4>2. Iter[p + 1] = Recomputed(rs, Iter[p])
        BY <1>8, <4>1
      <4>3. Iter[p] \in T
        BY <2>2, <4>1
      <4>4. QED
        BY <1>2, <4>2, <4>3, RecomputedLaws DEF T
    <3>3. QED
      BY <3>1, <3>2
  <2> HIDE DEF S
  <2>3. \A p \in Nat : p \in S
    BY <2>1, <2>2, NumbersInduction
  <2>4. QED
    BY <2>3 DEF S
<1>10. Iter[iters] \in [1 .. b -> Int]
  BY <1>9 DEF T
<1>11. AssignedTo(rs, Iter[iters]) \in [DOMAIN rs -> 1 .. b]
  BY <1>2, <1>10, AssignedLaws
<1>12. 1 .. b \subseteq 1 .. n
  BY <1>1
<1>13. QED
  BY <1>7, <1>11, <1>12

-----------------------------------------------------------------------------
(* The blocks *)

(* b holds grains of rs, each once, and its descriptor bounds them. *)
Describes(b, rs) ==
  /\ b.body \in Seq(Grain)
  /\ \A x \in DOMAIN b.body : b.body[x].sid \in DOMAIN rs /\ rs[b.body[x].sid] = b.body[x]
  /\ \A x, y \in DOMAIN b.body : b.body[x].sid = b.body[y].sid => x = y
  /\ b.centroid \in Int /\ b.radius \in Int
  /\ \A x \in DOMAIN b.body : L2(b.body[x].at, b.centroid) <= b.radius
  /\ \A x \in DOMAIN b.body : BloomBits[b.body[x].sid] \subseteq b.bloom
  /\ \A c \in Categories :
       b.catCounts[c] = Cardinality({x \in DOMAIN b.body : b.body[x].cat = c})

(* The descriptor of a block bounds the grains of its body. *)
LEMMA BlockDescribes ==
  ASSUME NEW rs, IsFed(rs), NEW assign, NEW c, GroupOf(rs, assign, c) # <<>>
  PROVE  Describes(Block(GroupOf(rs, assign, c)), rs) /\ Block(GroupOf(rs, assign, c)).body = GroupOf(rs, assign, c)
<1> DEFINE g == GroupOf(rs, assign, c)
           b == Block(g)
           centroid == Mean(AtsOf(g))
           far == {L2(g[i].at, centroid) : i \in DOMAIN g}
           radius == CHOOSE r \in far : \A d \in far : d <= r
<1>1. /\ g \in Seq(Grain) /\ g # <<>>
      /\ \A x \in DOMAIN g : g[x].sid \in DOMAIN rs /\ rs[g[x].sid] = g[x]
  <2>1. rs \in Seq(Grain) /\ \A i \in DOMAIN rs : rs[i].sid = i
    BY DEF IsFed
  <2>2. /\ g \in Seq(Grain)
        /\ \A x \in DOMAIN g : \E i \in DOMAIN rs : assign[i] = c /\ g[x] = rs[i]
    BY <2>1, GroupHas
  <2> HIDE DEF g
  <2>3. QED
    BY <2>1, <2>2 DEF g
<1>2. \A x, y \in DOMAIN g : g[x].sid = g[y].sid => x = y
  BY GroupHasOnce
<1>3. /\ b.body = g /\ b.centroid = centroid /\ b.radius = radius
      /\ b.bloom = UNION {BloomBits[g[i].sid] : i \in DOMAIN g}
      /\ b.catCounts = [k \in Categories |-> Cardinality({i \in DOMAIN g : g[i].cat = k})]
  <2> HIDE DEF g
  <2>1. QED
    BY DEF Block
<1> HIDE DEF g, b
<1>4. centroid \in Int
  BY <1>1, GroupMean
<1> HIDE DEF centroid
<1>5. Len(g) \in Nat \ {0} /\ DOMAIN g = 1 .. Len(g) /\ \A i \in DOMAIN g : g[i].at \in Int
  <2>1. Len(g) \in Nat \ {0} /\ DOMAIN g = 1 .. Len(g) /\ \A i \in DOMAIN g : g[i] \in Grain
    BY <1>1
  <2>2. QED
    BY <2>1, BlockAssumption DEF Grain
<1>6. \A i \in DOMAIN g : L2(g[i].at, centroid) \in Nat
  BY <1>4, <1>5, DistanceLaws
<1>7. radius \in far /\ \A d \in far : d <= radius
  <2>1. far \in SUBSET Nat /\ far # {}
    BY <1>5, <1>6
  <2>2. IsFiniteSet(far)
    <3> DEFINE f == [i \in 1 .. Len(g) |-> L2(g[i].at, centroid)]
    <3>1. IsFiniteSet(1 .. Len(g))
      BY <1>5, FS_Interval
    <3>2. far = {L2(g[i].at, centroid) : i \in 1 .. Len(g)}
      BY <1>5
    <3>3. f \in Surjection(1 .. Len(g), far)
      BY <3>2 DEF Surjection
    <3> HIDE DEF f, far
    <3>4. QED
      BY <3>1, <3>3, FS_Surjection
  <2> HIDE DEF far
  <2>3. \E r \in far : \A d \in far : d <= r
    <3> DEFINE leq == {p \in far \X far : p[1] <= p[2]}
    <3>1. OrdersTotally(leq, far)
      BY <2>1 DEF OrdersTotally
    <3>2. Cardinality(far) \in Nat /\ Cardinality(far) # 0
      BY <2>1, <2>2, FS_EmptySet, FS_CardinalityType
    <3>3. /\ \A x \in far : Rank(leq, far, x) \in 1 .. Cardinality(far)
          /\ \A x, y \in far : Rank(leq, far, x) <= Rank(leq, far, y) <=> <<x, y>> \in leq
          /\ \A n \in 1 .. Cardinality(far) : \E x \in far : Rank(leq, far, x) = n
      <4> HIDE DEF leq
      <4>1. QED
        BY <2>2, <3>1, RanksCount
    <3>4. PICK r \in far : Rank(leq, far, r) = Cardinality(far)
      <4>1. Cardinality(far) \in 1 .. Cardinality(far)
        BY <3>2
      <4> HIDE DEF leq
      <4>2. QED
        BY <3>3, <4>1
    <3>5. \A d \in far : <<d, r>> \in leq
      <4> HIDE DEF leq
      <4>1. QED
        BY <3>2, <3>3, <3>4
    <3>6. QED
      BY <3>5
  <2>4. QED
    BY <2>3
<1>8. radius \in Int /\ \A i \in DOMAIN g : L2(g[i].at, centroid) <= radius
  <2>1. \A d \in far : d \in Int
    BY <1>6
  <2>2. \A i \in DOMAIN g : L2(g[i].at, centroid) \in far
    OBVIOUS
  <2> HIDE DEF radius, far
  <2>3. QED
    BY <1>7, <2>1, <2>2
<1> HIDE DEF radius, far
<1>9. \A x \in DOMAIN g : BloomBits[g[x].sid] \subseteq b.bloom
  BY <1>3
<1>10. Describes(b, rs)
  BY <1>1, <1>2, <1>3, <1>4, <1>8, <1>9 DEF Describes
<1>11. QED
  BY <1>3, <1>10 DEF g, b

(* Every grain of rs is in one block. *)
IsBuilt(blocks, m, rs) ==
  /\ m \in Nat /\ DOMAIN blocks = 1 .. m
  /\ \A i \in 1 .. m : Describes(blocks[i], rs)
  /\ \A s \in DOMAIN rs : \E i \in 1 .. m : \E x \in DOMAIN blocks[i].body : blocks[i].body[x].sid = s
  /\ \A i, j \in 1 .. m : \A x \in DOMAIN blocks[i].body, y \in DOMAIN blocks[j].body :
       blocks[i].body[x].sid = blocks[j].body[y].sid => i = j

(* However k-means assigns them, every grain comes into one block. *)
LEMMA BuildsBlocks ==
  ASSUME NEW rs, IsFed(rs), rs # <<>>, NEW n \in Nat \ {0}, NEW iters \in Nat \ {0}
  PROVE  \E m : IsBuilt(BuildClustered(rs, n, iters), m, rs)
<1> DEFINE assign == KmeansAssign(rs, n, iters)
           g(c) == GroupOf(rs, assign, c)
           F == {c \in 1 .. n : g(c) # <<>>}
           filled == InOrder(F)
           m == Cardinality(F)
           blocks == BuildClustered(rs, n, iters)
<1>1. rs \in Seq(Grain) /\ \A i \in DOMAIN rs : rs[i].sid = i
  BY DEF IsFed
<1>2. assign \in [DOMAIN rs -> 1 .. n]
  BY <1>1, KmeansAssigns
<1>3. blocks = [b \in DOMAIN filled |-> Block(g(filled[b]))]
  BY DEF BuildClustered
<1> HIDE DEF assign, blocks
<1>4. GoesThrough(filled, m, F)
  <2>1. IsFiniteSet(1 .. n) /\ F \subseteq 1 .. n /\ F \in SUBSET Nat
    BY FS_Interval
  <2> HIDE DEF F
  <2>2. IsFiniteSet(F)
    BY <2>1, FS_Subset
  <2>3. QED
    BY <2>1, <2>2, InOrderLaws
<1>5. \A c : /\ g(c) \in Seq(Grain)
             /\ \A x \in DOMAIN g(c) : \E i \in DOMAIN rs : assign[i] = c /\ g(c)[x] = rs[i]
             /\ \A i \in DOMAIN rs : assign[i] = c => \E x \in DOMAIN g(c) : g(c)[x] = rs[i]
  BY <1>1, GroupHas
<1>6. \A c \in F : Describes(Block(g(c)), rs) /\ Block(g(c)).body = g(c)
  BY BlockDescribes
<1>7. \A i \in DOMAIN rs : assign[i] \in F
  <2> SUFFICES ASSUME NEW i \in DOMAIN rs PROVE assign[i] \in F
    OBVIOUS
  <2>1. \E x \in DOMAIN g(assign[i]) : g(assign[i])[x] = rs[i]
    BY <1>5
  <2> HIDE DEF g
  <2>2. g(assign[i]) # <<>>
    BY <2>1
  <2>3. QED
    BY <1>2, <2>2
<1> HIDE DEF g, filled, m, F
<1>8. /\ m \in Nat /\ DOMAIN filled = 1 .. m
      /\ \A b \in 1 .. m : filled[b] \in F
      /\ \A a, b \in 1 .. m : filled[a] = filled[b] => a = b
      /\ \A c \in F : \E b \in 1 .. m : filled[b] = c
  BY <1>4 DEF GoesThrough
<1>9. /\ DOMAIN blocks = 1 .. m
      /\ \A b \in 1 .. m : Describes(blocks[b], rs) /\ blocks[b].body = g(filled[b])
  BY <1>3, <1>6, <1>8
<1>10. ASSUME NEW s \in DOMAIN rs
       PROVE  \E b \in 1 .. m : \E x \in DOMAIN blocks[b].body : blocks[b].body[x].sid = s
  <2>1. PICK b \in 1 .. m : filled[b] = assign[s]
    BY <1>7, <1>8
  <2>2. PICK x \in DOMAIN g(assign[s]) : g(assign[s])[x] = rs[s]
    BY <1>5
  <2>3. QED
    BY <1>1, <1>9, <2>1, <2>2
<1>11. ASSUME NEW a \in 1 .. m, NEW b \in 1 .. m,
              NEW x \in DOMAIN blocks[a].body, NEW y \in DOMAIN blocks[b].body,
              blocks[a].body[x].sid = blocks[b].body[y].sid
       PROVE  a = b
  <2>0. x \in DOMAIN g(filled[a]) /\ y \in DOMAIN g(filled[b])
    BY <1>9
  <2>1. PICK i \in DOMAIN rs : assign[i] = filled[a] /\ blocks[a].body[x] = rs[i]
    <3>1. blocks[a].body = g(filled[a])
      BY <1>9
    <3>2. \E i \in DOMAIN rs : assign[i] = filled[a] /\ g(filled[a])[x] = rs[i]
      BY <1>5, <2>0
    <3>3. QED
      BY <3>1, <3>2
  <2>2. PICK j \in DOMAIN rs : assign[j] = filled[b] /\ blocks[b].body[y] = rs[j]
    <3>1. blocks[b].body = g(filled[b])
      BY <1>9
    <3>2. \E z \in DOMAIN rs : assign[z] = filled[b] /\ g(filled[b])[y] = rs[z]
      BY <1>5, <2>0
    <3>3. QED
      BY <3>1, <3>2
  <2>3. i = j
    BY <1>1, <1>11, <2>1, <2>2
  <2>4. QED
    BY <1>8, <2>1, <2>2, <2>3
<1>12. IsBuilt(blocks, m, rs)
  BY <1>8, <1>9, <1>10, <1>11 DEF IsBuilt
<1>13. QED
  BY <1>12 DEF blocks

-----------------------------------------------------------------------------
(* Counting *)

(* w has the sizes of sets that share no element. *)
SizesApart(w, F, S) ==
  /\ IsFiniteSet(S)
  /\ \A x \in S : IsFiniteSet(F[x]) /\ w[x] = Cardinality(F[x])
  /\ \A x, y \in S : x # y => F[x] \cap F[y] = {}

(* Sets that share no element have together as many as their union. *)
LEMMA DisjointSum ==
  ASSUME NEW S, NEW F, NEW w, SizesApart(w, F, S)
  PROVE  SumFunctionOnSet(w, S) = Cardinality(UNION {F[x] : x \in S})
<1> DEFINE All(U) == UNION {F[x] : x \in U}
           Good == {U \in SUBSET S : /\ IsFiniteSet(All(U))
                                     /\ SumFunctionOnSet(w, U) = Cardinality(All(U))}
<1>0. /\ IsFiniteSet(S)
      /\ \A x \in S : IsFiniteSet(F[x]) /\ w[x] = Cardinality(F[x])
      /\ \A x, y \in S : x # y => F[x] \cap F[y] = {}
  BY DEF SizesApart
<1>1. \A U \in SUBSET S : IsFiniteSet(U) /\ Weighs(w, U)
  BY <1>0, FS_Subset, FS_CardinalityType DEF Weighs
<1>2. {} \in Good
  <2>1. All({}) = {}
    OBVIOUS
  <2>2. SumFunctionOnSet(w, {}) = 0
    BY <1>1, SumLaws, FS_EmptySet
  <2> HIDE DEF All
  <2>3. QED
    BY <2>1, <2>2, FS_EmptySet
<1>3. ASSUME NEW U \in SUBSET S, U # {}, \A x \in U : U \ {x} \in Good
      PROVE  U \in Good
  <2>1. PICK x \in U : TRUE
    BY <1>3
  <2> DEFINE V == U \ {x}
  <2>2. All(U) = All(V) \union F[x] /\ All(V) \cap F[x] = {}
    BY <1>0
  <2>3. IsFiniteSet(All(V)) /\ SumFunctionOnSet(w, V) = Cardinality(All(V))
    BY <1>3
  <2>4. SumFunctionOnSet(w, U) = w[x] + SumFunctionOnSet(w, V)
    <3>1. IsFiniteSet(U) /\ Weighs(w, U)
      BY <1>1
    <3>2. QED
      BY <3>1, SumLaws
  <2>5. w[x] = Cardinality(F[x]) /\ IsFiniteSet(F[x])
    BY <1>0
  <2> HIDE DEF All, V
  <2>6. /\ IsFiniteSet(All(V) \union F[x])
        /\ Cardinality(All(V) \union F[x]) = Cardinality(All(V)) + Cardinality(F[x]) - Cardinality(All(V) \cap F[x])
    BY <2>3, <2>5, FS_Union
  <2>7. Cardinality(All(V) \cap F[x]) = 0 /\ Cardinality(All(V)) \in Nat /\ Cardinality(F[x]) \in Nat
    BY <2>2, <2>3, <2>5, FS_EmptySet, FS_CardinalityType
  <2>8. IsFiniteSet(All(U)) /\ Cardinality(All(U)) = w[x] + Cardinality(All(V))
    BY <2>2, <2>5, <2>6, <2>7
  <2>9. SumFunctionOnSet(w, U) = Cardinality(All(U))
    BY <2>3, <2>4, <2>8
  <2>10. QED
    BY <2>8, <2>9
<1> HIDE DEF Good
<1>4. \A U \in SUBSET S : U \in Good
  BY <1>0, <1>2, <1>3, SubsetsInduction
<1>5. S \in Good
  BY <1>4
<1>6. QED
  BY <1>5 DEF Good

(* The numbers up to n are n. *)
LEMMA CountTo ==
  ASSUME NEW n \in Nat
  PROVE  IsFiniteSet(1 .. n) /\ Cardinality(1 .. n) = n
  BY FS_Interval

(* The numbers of the grains at the positions P of b. *)
SidsAt(b, P) == {b.body[x].sid : x \in P}

(* As many grains of a block are meant as numbers of theirs. *)
LEMMA BodyCounts ==
  ASSUME NEW rs, NEW b, Describes(b, rs), NEW P \in SUBSET DOMAIN b.body
  PROVE  /\ IsFiniteSet(P) /\ IsFiniteSet(SidsAt(b, P))
         /\ Cardinality(SidsAt(b, P)) = Cardinality(P)
<1> DEFINE sids == SidsAt(b, P)
           f == [x \in P |-> b.body[x].sid]
<1>1. IsFiniteSet(P)
  <2>1. b.body \in Seq(Grain)
    BY DEF Describes
  <2>2. DOMAIN b.body = 1 .. Len(b.body) /\ Len(b.body) \in Nat
    BY <2>1
  <2>3. IsFiniteSet(DOMAIN b.body)
    BY <2>2, FS_Interval
  <2>4. QED
    BY <2>3, FS_Subset
<1>2. f \in Surjection(P, sids)
  BY DEF Surjection, SidsAt
<1>3. \A x, y \in P : b.body[x].sid = b.body[y].sid => x = y
  BY DEF Describes
<1>4. f \in Injection(P, sids)
  BY <1>3 DEF Injection, IsInjective, SidsAt
<1> HIDE DEF f, sids
<1>5. IsFiniteSet(sids) /\ Cardinality(sids) = Cardinality(P)
  BY <1>1, <1>2, <1>4, FS_Surjection
<1>6. QED
  BY <1>1, <1>5 DEF sids

(* The numbers of the grains of b that are in C. *)
SidsIn(b, C) == SidsAt(b, {y \in DOMAIN b.body : b.body[y].cat \in C})

(* w counts the grains in C of the blocks in S; no other block has one. *)
CountsIn(w, S, blocks, m, C) ==
  /\ S \in SUBSET (1 .. m)
  /\ \A i \in 1 .. m : i \notin S => SidsIn(blocks[i], C) = {}
  /\ \A i \in S :
       w[i] = Cardinality({y \in DOMAIN blocks[i].body : blocks[i].body[y].cat \in C})

(* What is counted in each block adds up to what is counted in all. *)
LEMMA BlocksAddUp ==
  ASSUME NEW rs, IsFed(rs), NEW blocks, NEW m, IsBuilt(blocks, m, rs), NEW C,
         NEW S, NEW w, CountsIn(w, S, blocks, m, C)
  PROVE  SumFunctionOnSet(w, S) = Cardinality({i \in DOMAIN rs : rs[i].cat \in C})
<1> DEFINE P(i) == {y \in DOMAIN blocks[i].body : blocks[i].body[y].cat \in C}
           F == [i \in S |-> SidsIn(blocks[i], C)]
<1>0. /\ S \in SUBSET (1 .. m)
      /\ \A i \in 1 .. m : i \notin S => SidsIn(blocks[i], C) = {}
      /\ \A i \in S : w[i] = Cardinality(P(i))
  BY DEF CountsIn
<1>1. \A i \in 1 .. m : Describes(blocks[i], rs)
  BY DEF IsBuilt
<1>2. \A i \in S : /\ IsFiniteSet(F[i]) /\ w[i] = Cardinality(F[i])
  <2> SUFFICES ASSUME NEW i \in S PROVE IsFiniteSet(F[i]) /\ w[i] = Cardinality(F[i])
    OBVIOUS
  <2>1. Describes(blocks[i], rs) /\ P(i) \in SUBSET DOMAIN blocks[i].body
    BY <1>0, <1>1
  <2>2. w[i] = Cardinality(P(i)) /\ F[i] = SidsAt(blocks[i], P(i))
    BY <1>0 DEF SidsIn
  <2> HIDE DEF P, F
  <2>3. IsFiniteSet(SidsAt(blocks[i], P(i))) /\ Cardinality(SidsAt(blocks[i], P(i))) = Cardinality(P(i))
    BY <2>1, BodyCounts
  <2>4. QED
    BY <2>2, <2>3
<1>3. \A i, j \in S : i # j => F[i] \cap F[j] = {}
  BY <1>0 DEF IsBuilt, SidsIn, SidsAt
<1>4. IsFiniteSet(S)
  <2>1. IsFiniteSet(1 .. m)
    BY FS_Interval DEF IsBuilt
  <2>2. QED
    BY <1>0, <2>1, FS_Subset
<1>5. UNION {F[i] : i \in S} = {s \in DOMAIN rs : rs[s].cat \in C}
  <2>1. ASSUME NEW s \in UNION {F[i] : i \in S} PROVE s \in DOMAIN rs /\ rs[s].cat \in C
    <3>1. PICK i \in S : s \in SidsIn(blocks[i], C)
      BY <2>1
    <3>4. i \in 1 .. m
      BY <1>0
    <3>2. PICK x \in DOMAIN blocks[i].body : blocks[i].body[x].cat \in C /\ s = blocks[i].body[x].sid
      BY <3>1 DEF SidsIn, SidsAt
    <3>3. QED
      BY <1>1, <3>2, <3>4 DEF Describes
  <2>2. ASSUME NEW s \in DOMAIN rs, rs[s].cat \in C PROVE s \in UNION {F[i] : i \in S}
    <3>0. PICK i \in 1 .. m : \E x \in DOMAIN blocks[i].body : blocks[i].body[x].sid = s
      BY DEF IsBuilt
    <3>1. PICK x \in DOMAIN blocks[i].body : blocks[i].body[x].sid = s
      BY <3>0
    <3>2. blocks[i].body[x] = rs[s]
      BY <1>1, <3>1 DEF Describes
    <3>3. s \in SidsIn(blocks[i], C)
      BY <2>2, <3>1, <3>2 DEF SidsIn, SidsAt
    <3>4. i \in S
      BY <1>0, <3>3
    <3>5. QED
      BY <3>3, <3>4
  <2> HIDE DEF F
  <2>3. QED
    BY <2>1, <2>2
<1> HIDE DEF F
<1>6. SumFunctionOnSet(w, S) = Cardinality(UNION {F[i] : i \in S})
  <2>1. SizesApart(w, F, S)
    BY <1>2, <1>3, <1>4 DEF SizesApart
  <2>2. QED
    BY <2>1, DisjointSum
<1>7. QED
  BY <1>5, <1>6

(* The bodies together are as long as what was fed. *)
LEMMA NoneLost ==
  ASSUME NEW rs, IsFed(rs), NEW blocks, NEW m, IsBuilt(blocks, m, rs)
  PROVE  SumFunctionOnSet([b \in DOMAIN blocks |-> Len(blocks[b].body)], DOMAIN blocks) = Len(rs)
<1> DEFINE w == [b \in DOMAIN blocks |-> Len(blocks[b].body)]
<1>1. m \in Nat /\ DOMAIN blocks = 1 .. m /\ \A i \in 1 .. m : Describes(blocks[i], rs)
  BY DEF IsBuilt
<1>2. rs \in Seq(Grain) /\ DOMAIN rs = 1 .. Len(rs) /\ Len(rs) \in Nat
      /\ \A i \in DOMAIN rs : rs[i].cat \in Categories
  <2>1. rs \in Seq(Grain)
    BY DEF IsFed
  <2>2. DOMAIN rs = 1 .. Len(rs) /\ Len(rs) \in Nat /\ \A i \in DOMAIN rs : rs[i] \in Grain
    BY <2>1
  <2>3. QED
    BY <2>1, <2>2 DEF Grain
<1>3. ASSUME NEW i \in 1 .. m
      PROVE  w[i] = Cardinality({y \in DOMAIN blocks[i].body : blocks[i].body[y].cat \in Categories})
  <2>1. blocks[i].body \in Seq(Grain)
    BY <1>1 DEF Describes
  <2>2. /\ DOMAIN blocks[i].body = 1 .. Len(blocks[i].body) /\ Len(blocks[i].body) \in Nat
        /\ \A y \in DOMAIN blocks[i].body : blocks[i].body[y] \in Grain
    BY <2>1
  <2>3. {y \in DOMAIN blocks[i].body : blocks[i].body[y].cat \in Categories} = 1 .. Len(blocks[i].body)
    BY <2>2 DEF Grain
  <2>4. Cardinality(1 .. Len(blocks[i].body)) = Len(blocks[i].body)
    BY <2>2, CountTo
  <2>5. w[i] = Len(blocks[i].body)
    BY <1>1
  <2>6. QED
    BY <2>3, <2>4, <2>5
<1>4. SumFunctionOnSet(w, 1 .. m) = Cardinality({i \in DOMAIN rs : rs[i].cat \in Categories})
  <2> HIDE DEF w
  <2>1. CountsIn(w, 1 .. m, blocks, m, Categories)
    BY <1>3 DEF CountsIn
  <2>2. QED
    BY <2>1, BlocksAddUp
<1>5. {i \in DOMAIN rs : rs[i].cat \in Categories} = 1 .. Len(rs)
  BY <1>2
<1> HIDE DEF w
<1>6. SumFunctionOnSet(w, 1 .. m) = Len(rs)
  <2>1. Cardinality(1 .. Len(rs)) = Len(rs)
    <3>1. Len(rs) \in Nat
      BY <1>2
    <3>2. QED
      BY <3>1, CountTo
  <2>2. QED
    BY <1>4, <1>5, <2>1
<1>7. QED
  BY <1>1, <1>6 DEF w

(* A count over blocks, those without the category skipped, is the number fed. *)
LEMMA CountsAgree ==
  ASSUME NEW rs, IsFed(rs), NEW blocks, NEW m, IsBuilt(blocks, m, rs), NEW c \in Categories
  PROVE  CountCategory(blocks, c) = Cardinality({i \in DOMAIN rs : rs[i].cat = c})
<1> DEFINE w == [b \in DOMAIN blocks |->
                   Cardinality({i \in DOMAIN blocks[b].body : blocks[b].body[i].cat = c})]
           S == {b \in DOMAIN blocks : blocks[b].catCounts[c] # 0}
<1>1. DOMAIN blocks = 1 .. m /\ \A i \in 1 .. m : Describes(blocks[i], rs)
  BY DEF IsBuilt
<1>2. CountCategory(blocks, c) = SumFunctionOnSet(w, S)
  BY DEF CountCategory
<1>3. S \in SUBSET (1 .. m)
  BY <1>1
<1>4. \A i \in S : w[i] = Cardinality({y \in DOMAIN blocks[i].body : blocks[i].body[y].cat \in {c}})
  <2>1. \A i \in S : {y \in DOMAIN blocks[i].body : blocks[i].body[y].cat \in {c}} =
                     {y \in DOMAIN blocks[i].body : blocks[i].body[y].cat = c}
    OBVIOUS
  <2>2. QED
    BY <2>1
<1>5. ASSUME NEW i \in 1 .. m, i \notin S PROVE SidsIn(blocks[i], {c}) = {}
  <2> DEFINE P == {y \in DOMAIN blocks[i].body : blocks[i].body[y].cat = c}
  <2>1. Describes(blocks[i], rs) /\ blocks[i].catCounts[c] = 0
    BY <1>1, <1>5
  <2>2. blocks[i].catCounts[c] = Cardinality(P)
    BY <2>1 DEF Describes
  <2>3. P \in SUBSET DOMAIN blocks[i].body
    OBVIOUS
  <2>4. SidsIn(blocks[i], {c}) = {blocks[i].body[x].sid : x \in P}
    BY DEF SidsIn, SidsAt
  <2> HIDE DEF P
  <2>5. IsFiniteSet(P)
    BY <2>1, <2>3, BodyCounts
  <2>6. P = {}
    BY <2>1, <2>2, <2>5, FS_EmptySet
  <2>7. QED
    BY <2>4, <2>6
<1> HIDE DEF w, S
<1>6. SumFunctionOnSet(w, S) = Cardinality({i \in DOMAIN rs : rs[i].cat \in {c}})
  <2>1. CountsIn(w, S, blocks, m, {c})
    BY <1>3, <1>4, <1>5 DEF CountsIn
  <2>2. QED
    BY <2>1, BlocksAddUp
<1>7. {i \in DOMAIN rs : rs[i].cat \in {c}} = {i \in DOMAIN rs : rs[i].cat = c}
  OBVIOUS
<1>8. QED
  BY <1>2, <1>6, <1>7

(* A lookup finds what was fed, and nothing else. *)
LEMMA LookupsAgree ==
  ASSUME NEW rs, IsFed(rs), NEW blocks, NEW m, IsBuilt(blocks, m, rs), NEW s
  PROVE  Get(blocks, s) = {rs[i].cat : i \in {j \in DOMAIN rs : rs[j].sid = s}}
<1>1. DOMAIN blocks = 1 .. m /\ \A i \in 1 .. m : Describes(blocks[i], rs)
  BY DEF IsBuilt
<1>2. \A i \in DOMAIN rs : rs[i].sid = i
  BY DEF IsFed
<1>3. ASSUME NEW cat \in Get(blocks, s) PROVE cat \in {rs[i].cat : i \in {j \in DOMAIN rs : rs[j].sid = s}}
  <2>1. PICK b \in 1 .. m : cat \in Find(blocks[b], s)
    BY <1>1 DEF Get
  <2>2. PICK x \in DOMAIN blocks[b].body : blocks[b].body[x].sid = s /\ cat = blocks[b].body[x].cat
    BY <2>1 DEF Find
  <2>3. s \in DOMAIN rs /\ rs[s] = blocks[b].body[x]
    BY <1>1, <2>2 DEF Describes
  <2>4. QED
    BY <1>2, <2>2, <2>3
<1>4. ASSUME NEW i \in DOMAIN rs, rs[i].sid = s PROVE rs[i].cat \in Get(blocks, s)
  <2>0. PICK b \in 1 .. m : \E x \in DOMAIN blocks[b].body : blocks[b].body[x].sid = s
    BY <1>2, <1>4 DEF IsBuilt
  <2>1. PICK x \in DOMAIN blocks[b].body : blocks[b].body[x].sid = s
    BY <2>0
  <2>2. blocks[b].body[x] = rs[i] /\ BloomBits[s] \subseteq blocks[b].bloom
    BY <1>1, <1>2, <1>4, <2>1 DEF Describes
  <2>3. rs[i].cat \in Find(blocks[b], s) /\ MaybeContains(blocks[b], s)
    BY <2>1, <2>2 DEF Find, MaybeContains
  <2>4. QED
    BY <1>1, <2>3 DEF Get
<1>5. QED
  BY <1>3, <1>4

-----------------------------------------------------------------------------
(* Searching *)

(* What a search finds: a number and how far its grain is. *)
Found == [sid : BlockSids, dist : Int]

(* A distance is a number. *)
LEMMA DistanceIsANumber ==
  ASSUME NEW x \in Int, NEW y \in Int
  PROVE  L2(x, y) \in Int
  BY DEF L2

(* u is t after s. *)
Joins(u, s, t, C) ==
  /\ u \in Seq(C) /\ Len(u) = Len(s) + Len(t) /\ DOMAIN u = 1 .. Len(u)
  /\ \A i \in 1 .. Len(u) : u[i] = IF i <= Len(s) THEN s[i] ELSE t[i - Len(s)]

(* What the concatenation of two sequences has. *)
LEMMA Concatenation ==
  ASSUME NEW C, NEW s \in Seq(C), NEW t \in Seq(C)
  PROVE  Joins(s \o t, s, t, C)
<1>1. s \o t \in Seq(C) /\ Len(s \o t) = Len(s) + Len(t)
  OBVIOUS
<1>2. \A i \in 1 .. Len(s) + Len(t) : (s \o t)[i] = IF i <= Len(s) THEN s[i] ELSE t[i - Len(s)]
  OBVIOUS
<1> DEFINE u == s \o t
<1> HIDE DEF u
<1>3. u \in Seq(C) /\ Len(u) = Len(s) + Len(t)
      /\ \A i \in 1 .. Len(s) + Len(t) : u[i] = IF i <= Len(s) THEN s[i] ELSE t[i - Len(s)]
  BY <1>1, <1>2 DEF u
<1>4. Joins(u, s, t, C)
  BY <1>3 DEF Joins
<1>5. QED
  BY <1>4 DEF u

(* A sorted sequence has the same elements. *)
LEMMA SortedIsASequence ==
  ASSUME NEW C, NEW s \in Seq(C), NEW keys, HasKeys(Len(s), s, keys)
  PROVE  Sorted(s, keys) \in Seq(C)
<1> DEFINE n == Len(s)
<1>1. n \in Nat /\ \A i \in 1 .. n : s[i] \in C
  OBVIOUS
<1>2. PICK p : SortedSo(p, n, s, keys)
  BY SortedLaws
<1> HIDE DEF n
<1>3. Sorted(s, keys) \in [1 .. n -> C]
  BY <1>1, <1>2 DEF SortedSo, Sorts, GoesThrough
<1>4. QED
  BY <1>1, <1>3

(* So have the first of a sequence. *)
LEMMA FirstIsASequence ==
  ASSUME NEW C, NEW s \in Seq(C), NEW k \in Nat
  PROVE  FirstOf(s, k) \in Seq(C)
  BY FirstOfLaws DEF IsFirst

(* The grains of a block, as a search sees them. *)
LEMMA CandidateLaws ==
  ASSUME NEW q \in Int, NEW b, b.body \in Seq(Grain)
  PROVE  /\ Candidates(q, b) \in Seq(Found) /\ DOMAIN Candidates(q, b) = DOMAIN b.body
         /\ Len(Candidates(q, b)) = Len(b.body)
         /\ \A i \in DOMAIN b.body : /\ Candidates(q, b)[i].sid = b.body[i].sid
                                     /\ Candidates(q, b)[i].dist = L2(q, b.body[i].at)
<1> DEFINE c == Candidates(q, b)
           n == Len(b.body)
<1>1. n \in Nat /\ DOMAIN b.body = 1 .. n /\ \A i \in 1 .. n : b.body[i] \in Grain
  OBVIOUS
<1>2. \A i \in 1 .. n : b.body[i].sid \in BlockSids /\ b.body[i].at \in Int
  BY <1>1, BlockAssumption DEF Grain
<1>3. \A i \in 1 .. n : L2(q, b.body[i].at) \in Int
  BY <1>2, DistanceIsANumber
<1>4. c = [i \in 1 .. n |-> [sid |-> b.body[i].sid, dist |-> L2(q, b.body[i].at)]]
  BY <1>1 DEF Candidates
<1> HIDE DEF n, c
<1>5. c \in [1 .. n -> Found]
  BY <1>2, <1>3, <1>4 DEF Found
<1>6. c \in Seq(Found) /\ DOMAIN c = 1 .. n /\ Len(c) = n
  BY <1>1, <1>5
<1>7. QED
  BY <1>1, <1>4, <1>6 DEF c, n

(* A search keeps numbers and distances. *)
LEMMA VisitIsTyped ==
  ASSUME NEW q \in Int, NEW k \in Nat, NEW best \in Seq(Found), NEW b, b.body \in Seq(Grain)
  PROVE  Visit(q, k, best, b) \in Seq(Found)
<1> DEFINE all == best \o Candidates(q, b)
           keys == [i \in DOMAIN all |-> all[i].dist]
<1>1. all \in Seq(Found)
  BY CandidateLaws
<1>2. HasKeys(Len(all), all, keys)
  <2> HIDE DEF all
  <2>1. Len(all) \in Nat /\ DOMAIN all = 1 .. Len(all) /\ \A i \in DOMAIN all : all[i] \in Found
    BY <1>1
  <2>2. \A i \in DOMAIN all : keys[i] \in Int
    BY <2>1 DEF Found
  <2> HIDE DEF keys
  <2>3. QED
    BY <2>1, <2>2 DEF HasKeys
<1>3. Visit(q, k, best, b) = best \/ Visit(q, k, best, b) = FirstOf(Sorted(all, keys), k)
  BY DEF Visit
<1> HIDE DEF all, keys
<1>4. FirstOf(Sorted(all, keys), k) \in Seq(Found)
  BY <1>1, <1>2, SortedIsASequence, FirstIsASequence
<1>5. QED
  BY <1>3, <1>4

(* A point within the radius of a block is no nearer than the block's bound. *)
LEMMA Bound ==
  ASSUME NEW x \in Int, NEW y \in Int, NEW z \in Int, NEW radius \in Int, L2(y, z) <= radius,
         NEW kth \in Int, L2(x, z) - radius > kth
  PROVE  kth <= L2(x, y)
<1>1. L2(x, z) <= L2(x, y) + L2(y, z)
  BY Triangle
<1>2. L2(x, z) \in Int /\ L2(x, y) \in Int /\ L2(y, z) \in Int
  BY DistanceIsANumber
<1>3. QED
  BY <1>1, <1>2

(* How far each grain is. *)
Far(rs, q) == [i \in DOMAIN rs |-> L2(q, rs[i].at)]

(* Every grain has a distance. *)
LEMMA FarIsANumber ==
  ASSUME NEW rs, IsFed(rs), NEW q \in Int
  PROVE  \A i \in DOMAIN rs : Far(rs, q)[i] = L2(q, rs[i].at) /\ Far(rs, q)[i] \in Nat /\ rs[i].at \in Int
<1>1. \A i \in DOMAIN rs : rs[i] \in Grain
  BY DEF IsFed
<1>2. \A i \in DOMAIN rs : rs[i].at \in Int
  BY <1>1, BlockAssumption DEF Grain
<1>3. QED
  BY <1>2, DistanceLaws DEF Far

SidsOf(b) == SidsAt(b, DOMAIN b.body)

(* After a block the k nearest of what was seen are known, whether it was skipped    *)
(* or not.                                                                   *)
LEMMA VisitKeepsTop ==
  ASSUME NEW rs, IsFed(rs), NEW q \in Int, NEW k \in Nat \ {0},
         NEW b, Describes(b, rs), NEW V \in SUBSET DOMAIN rs, V \cap SidsOf(b) = {},
         NEW best \in Seq(Found), TopOf(best, k, V, Far(rs, q))
  PROVE  TopOf(Visit(q, k, best, b), k, V \union SidsOf(b), Far(rs, q))
<1> DEFINE d == Far(rs, q)
           W == SidsOf(b)
           c == Candidates(q, b)
           all == best \o c
           keys == [i \in DOMAIN all |-> all[i].dist]
           skips == Len(best) >= k /\ L2(q, b.centroid) - b.radius > best[k].dist
<1>1. /\ b.body \in Seq(Grain) /\ b.centroid \in Int /\ b.radius \in Int
      /\ \A x \in DOMAIN b.body : /\ b.body[x].sid \in DOMAIN rs /\ rs[b.body[x].sid] = b.body[x]
                                  /\ L2(b.body[x].at, b.centroid) <= b.radius
      /\ \A x, y \in DOMAIN b.body : b.body[x].sid = b.body[y].sid => x = y
  BY DEF Describes
<1>2. \A i \in DOMAIN rs : d[i] = L2(q, rs[i].at) /\ d[i] \in Nat /\ rs[i].at \in Int
  BY FarIsANumber
<1>3. W = {b.body[x].sid : x \in DOMAIN b.body}
  BY DEF SidsOf, SidsAt
<1>4. Visit(q, k, best, b) = IF skips THEN best ELSE FirstOf(Sorted(all, keys), k)
  BY DEF Visit
<1>5. /\ c \in Seq(Found) /\ DOMAIN c = DOMAIN b.body /\ Len(c) = Len(b.body)
      /\ \A i \in DOMAIN b.body : c[i].sid = b.body[i].sid /\ c[i].dist = L2(q, b.body[i].at)
  BY <1>1, CandidateLaws
<1>6. /\ DOMAIN best = 1 .. Len(best) /\ Len(best) \in Nat /\ Len(best) <= k
      /\ \A i \in DOMAIN best : best[i].sid \in V /\ best[i].dist = d[best[i].sid]
      /\ \A i, j \in DOMAIN best : best[i].sid = best[j].sid => i = j
      /\ \A i, j \in DOMAIN best : i <= j => best[i].dist <= best[j].dist
  BY DEF TopOf
<1> HIDE DEF d, W, c
<1>7. CASE skips
  <2>1. Len(best) = k /\ k \in DOMAIN best
    BY <1>6, <1>7
  <2>2. \A i \in DOMAIN best : best[i].dist <= best[k].dist
    BY <1>6, <2>1
  <2>3. ASSUME NEW w \in W, NEW i \in DOMAIN best PROVE best[i].dist <= d[w]
    <3>1. PICK x \in DOMAIN b.body : b.body[x].sid = w
      BY <1>3
    <3>2. /\ w \in DOMAIN rs /\ d[w] = L2(q, b.body[x].at) /\ d[w] \in Int /\ b.body[x].at \in Int
          /\ L2(b.body[x].at, b.centroid) <= b.radius
      BY <1>1, <1>2, <3>1
    <3>3. L2(q, b.centroid) - b.radius > best[k].dist /\ best[i].dist <= best[k].dist
      BY <1>7, <2>2
    <3>4. best[i].dist \in Int /\ best[k].dist \in Int
      BY <1>2, <1>6, <2>1
    <3>5. best[k].dist <= L2(q, b.body[x].at)
      BY <1>1, <3>2, <3>3, <3>4, Bound
    <3>6. best[k].dist <= d[w]
      BY <3>2, <3>5
    <3>7. QED
      BY <3>2, <3>3, <3>4, <3>6
  <2>4. TopOf(best, k, V \union W, d)
    <3>1. TopOf(best, k, V, d)
      BY DEF d
    <3>2. QED
      BY <2>1, <2>3, <3>1, TopSkips
  <2>5. QED
    BY <1>4, <1>7, <2>4 DEF d, W
<1>8. CASE ~ skips
  <2>1. /\ all \in Seq(Found) /\ Len(all) = Len(best) + Len(c) /\ DOMAIN all = 1 .. Len(all)
        /\ \A i \in 1 .. Len(all) : all[i] = IF i <= Len(best) THEN best[i] ELSE c[i - Len(best)]
    <3>1. Joins(all, best, c, Found)
      BY <1>5, Concatenation, Zenon
    <3>2. QED
      BY <3>1 DEF Joins
  <2>2. Len(c) \in Nat /\ DOMAIN c = 1 .. Len(c)
    BY <1>5
  <2> HIDE DEF all
  <2>3. ASSUME NEW i \in DOMAIN all
        PROVE  \/ i \in DOMAIN best /\ all[i] = best[i]
               \/ i - Len(best) \in DOMAIN c /\ ~ (i <= Len(best)) /\ all[i] = c[i - Len(best)]
    BY <1>6, <2>1, <2>2
  <2>4. ASSUME NEW j \in DOMAIN c PROVE j + Len(best) \in DOMAIN all /\ all[j + Len(best)] = c[j]
    <3>1. j + Len(best) \in 1 .. Len(all) /\ ~ (j + Len(best) <= Len(best)) /\ (j + Len(best)) - Len(best) = j
      BY <1>6, <2>1, <2>2
    <3>2. QED
      BY <2>1, <3>1
  <2>5. \A i \in DOMAIN c : c[i].sid \in W /\ c[i].sid \in DOMAIN rs /\ c[i].dist = d[c[i].sid]
    BY <1>1, <1>2, <1>3, <1>5
  <2>6. \A i \in DOMAIN best : i \in DOMAIN all /\ all[i] = best[i]
    BY <1>6, <2>1, <2>2
  <2>7. \A i \in DOMAIN all : all[i].sid \in V \union W /\ all[i].dist = d[all[i].sid]
    BY <1>6, <2>3, <2>5
  <2>8. ASSUME NEW i \in DOMAIN all, NEW j \in DOMAIN all, all[i].sid = all[j].sid PROVE i = j
    <3> DEFINE n == Len(best)
    <3>1. \A x \in DOMAIN c : c[x].sid \in W /\ c[x].sid \notin V
      BY <2>5 DEF W
    <3>2. \A x \in DOMAIN best : best[x].sid \in V
      BY <1>6
    <3>3. \A x, y \in DOMAIN c : c[x].sid = c[y].sid => x = y
      BY <1>1, <1>5
    <3>4. i \in Int /\ j \in Int /\ n \in Int
      BY <1>6, <2>1
    <3> HIDE DEF n
    <3>5. \/ i \in DOMAIN best /\ all[i] = best[i]
          \/ i - n \in DOMAIN c /\ all[i] = c[i - n]
      BY <2>3 DEF n
    <3>6. \/ j \in DOMAIN best /\ all[j] = best[j]
          \/ j - n \in DOMAIN c /\ all[j] = c[j - n]
      BY <2>3 DEF n
    <3>7. CASE i \in DOMAIN best /\ all[i] = best[i]
      <4>1. j \in DOMAIN best /\ all[j] = best[j]
        BY <2>8, <3>1, <3>2, <3>6, <3>7
      <4>2. QED
        BY <1>6, <2>8, <3>7, <4>1
    <3>8. CASE i - n \in DOMAIN c /\ all[i] = c[i - n]
      <4>1. j - n \in DOMAIN c /\ all[j] = c[j - n]
        BY <2>8, <3>1, <3>2, <3>6, <3>8
      <4>2. i - n = j - n
        BY <2>8, <3>3, <3>8, <4>1
      <4>3. QED
        BY <3>4, <4>2
    <3>9. QED
      BY <3>5, <3>7, <3>8
  <2>9. ASSUME NEW w \in W PROVE \E i \in DOMAIN all : all[i].sid = w
    <3>1. PICK x \in DOMAIN c : c[x].sid = w
      BY <1>3, <1>5
    <3>2. QED
      BY <2>4, <3>1
  <2>10. \A v \in V \union W : d[v] \in Nat
    BY <1>1, <1>2, <1>3
  <2>11. Len(best) <= Len(all) /\ \A i \in DOMAIN all : keys[i] = all[i].dist
    BY <1>6, <2>1, <2>2
  <2> HIDE DEF keys
  <2>12. Merges(all, keys, best, V, W, d)
    BY <2>6, <2>7, <2>8, <2>9, <2>10, <2>11 DEF Merges
  <2>13. TopOf(FirstOf(Sorted(all, keys), k), k, V \union W, d)
    <3>1. TopOf(best, k, V, d) /\ k \in Nat
      BY DEF d
    <3>2. QED
      BY <2>1, <2>12, <3>1, TopMerges
  <2>14. QED
    BY <1>4, <1>8, <2>13 DEF d, W
<1>9. QED
  BY <1>7, <1>8

(* f is what a search knows after the blocks at the positions U of an order p. *)
Searches(f, p, blocks, m, q, k) ==
  /\ GoesThrough(p, m, 1 .. m)
  /\ f[{}] = <<>>
  /\ \A U \in SUBSET (1 .. m) :
       U # {} => f[U] = Visit(q, k, f[U \ {Max(U)}], blocks[p[Max(U)]])
  /\ Near(blocks, q, k) = f[1 .. m]

(* A search is a fold over the blocks in the order of their distances. *)
LEMMA NearIsAFold ==
  ASSUME NEW rs, NEW blocks, NEW m, IsBuilt(blocks, m, rs), NEW q \in Int, NEW k \in Nat
  PROVE  \E f, p : Searches(f, p, blocks, m, q, k)
<1> DEFINE T == Seq(Found)
           keys == [b \in DOMAIN blocks |-> L2(q, blocks[b].centroid)]
           order == Sorted(blocks, keys)
           Body(it) == [U \in SUBSET DOMAIN order |->
                          IF U = {} THEN <<>>
                          ELSE Visit(q, k, it[U \ {Max(U)}], order[Max(U)])]
           Iter == CHOOSE it : it = Body(it)
           step == [x \in (1 .. m) \X T |-> Visit(q, k, x[2], order[x[1]])]
<1>1. m \in Nat /\ DOMAIN blocks = 1 .. m
      /\ \A i \in 1 .. m : blocks[i].body \in Seq(Grain) /\ blocks[i].centroid \in Int
  BY DEF IsBuilt, Describes
<1>2. HasKeys(m, blocks, keys)
  <2>1. \A i \in 1 .. m : L2(q, blocks[i].centroid) \in Int
    BY <1>1, DistanceIsANumber
  <2>2. QED
    BY <1>1, <2>1 DEF HasKeys
<1>3. Near(blocks, q, k) = Iter[DOMAIN order]
  BY DEF Near, FoldLeft, MapThenFoldSet
<1> HIDE DEF keys
<1>4. PICK p : SortedSo(p, m, blocks, keys)
  BY <1>2, SortedLaws
<1>5. /\ GoesThrough(p, m, 1 .. m) /\ \A i \in 1 .. m : p[i] \in 1 .. m
      /\ order = [i \in 1 .. m |-> blocks[p[i]]]
  BY <1>4 DEF SortedSo, Sorts, GoesThrough
<1> HIDE DEF order
<1>6. DOMAIN order = 1 .. m /\ \A i \in 1 .. m : order[i] = blocks[p[i]] /\ order[i].body \in Seq(Grain)
  BY <1>1, <1>5
<1>7. step \in [(1 .. m) \X T -> T]
  BY <1>6, VisitIsTyped
<1> HIDE DEF T
<1>8. PICK f : f \in [SUBSET (1 .. m) -> T] /\ FoldsLeft(f, m, <<>>, step)
  <2>1. <<>> \in T
    BY DEF T
  <2> HIDE DEF step
  <2>2. QED
    BY <1>1, <1>7, <2>1, FoldExists, Zenon
<1>9. f = Body(f)
  <2>1. \A U \in SUBSET (1 .. m) :
          U # {} => Max(U) \in 1 .. m /\ U \ {Max(U)} \in SUBSET (1 .. m)
    BY MaxIsGreatest, <1>1
  <2>2. \A U \in SUBSET (1 .. m) :
          f[U] = IF U = {} THEN <<>> ELSE Visit(q, k, f[U \ {Max(U)}], order[Max(U)])
    BY <1>8, <2>1 DEF FoldsLeft
  <2>3. QED
    BY <1>6, <1>8, <2>2
<1>10. Iter = Body(Iter)
  <2> HIDE DEF Body
  <2>1. QED
    BY <1>9
<1> HIDE DEF Iter
<1>11. Iter[{}] = <<>>
  <2>1. Iter[{}] = Body(Iter)[{}]
    BY <1>10
  <2>2. QED
    BY <2>1
<1>12. ASSUME NEW U \in SUBSET (1 .. m), U # {}
       PROVE  Iter[U] = Visit(q, k, Iter[U \ {Max(U)}], blocks[p[Max(U)]])
  <2>1. Iter[U] = Body(Iter)[U]
    BY <1>10
  <2>2. Iter[U] = Visit(q, k, Iter[U \ {Max(U)}], order[Max(U)])
    BY <1>6, <1>12, <2>1
  <2>3. Max(U) \in 1 .. m
    BY <1>1, <1>12, MaxIsGreatest
  <2>4. QED
    BY <1>6, <2>2, <2>3
<1> HIDE DEF Body
<1>13. Searches(Iter, p, blocks, m, q, k)
  BY <1>3, <1>5, <1>6, <1>11, <1>12 DEF Searches
<1>14. QED
  BY <1>13

(* A search finds the k nearest of all grains. *)
LEMMA NearFindsTop ==
  ASSUME NEW rs, IsFed(rs), NEW blocks, NEW m, IsBuilt(blocks, m, rs),
         NEW q \in Int, NEW k \in Nat \ {0}
  PROVE  TopOf(Near(blocks, q, k), k, DOMAIN rs, Far(rs, q))
<1> DEFINE d == Far(rs, q)
<1>1. /\ m \in Nat /\ \A i \in 1 .. m : Describes(blocks[i], rs)
      /\ \A s \in DOMAIN rs : \E i \in 1 .. m : \E x \in DOMAIN blocks[i].body : blocks[i].body[x].sid = s
      /\ \A i, j \in 1 .. m : \A x \in DOMAIN blocks[i].body, y \in DOMAIN blocks[j].body :
           blocks[i].body[x].sid = blocks[j].body[y].sid => i = j
  BY DEF IsBuilt
<1>2. PICK f, p : Searches(f, p, blocks, m, q, k)
  BY NearIsAFold
<1>3. /\ \A i \in 1 .. m : p[i] \in 1 .. m
      /\ \A i, j \in 1 .. m : p[i] = p[j] => i = j
      /\ \A x \in 1 .. m : \E i \in 1 .. m : p[i] = x
      /\ f[{}] = <<>>
      /\ \A U \in SUBSET (1 .. m) :
           U # {} => f[U] = Visit(q, k, f[U \ {Max(U)}], blocks[p[Max(U)]])
      /\ Near(blocks, q, k) = f[1 .. m]
  BY <1>2 DEF Searches, GoesThrough
<1> DEFINE Seen(U) == UNION {SidsOf(blocks[p[i]]) : i \in U}
           Good == {U \in SUBSET (1 .. m) : f[U] \in Seq(Found) /\ TopOf(f[U], k, Seen(U), d)}
<1>4. \A i \in 1 .. m : SidsOf(blocks[i]) \in SUBSET DOMAIN rs
  BY <1>1 DEF SidsOf, SidsAt, Describes
<1>5. \A i, j \in 1 .. m : i # j => SidsOf(blocks[i]) \cap SidsOf(blocks[j]) = {}
  BY <1>1 DEF SidsOf, SidsAt
<1>6. {} \in Good
  <2>1. f[{}] \in Seq(Found) /\ DOMAIN f[{}] = {} /\ Len(f[{}]) = 0 /\ 1 .. 0 = {}
    BY <1>3
  <2>2. Seen({}) = {}
    OBVIOUS
  <2> HIDE DEF Seen
  <2>3. TopOf(f[{}], k, Seen({}), d)
    BY <2>1, <2>2 DEF TopOf
  <2>4. QED
    BY <2>1, <2>3
<1>7. ASSUME NEW U \in SUBSET (1 .. m), U # {}, \A x \in U : U \ {x} \in Good
      PROVE  U \in Good
  <2> DEFINE x == Max(U)
             V == U \ {x}
             b == blocks[p[x]]
  <2>1. x \in U /\ x \in 1 .. m
    BY <1>1, <1>7, MaxIsGreatest
  <2>2. f[V] \in Seq(Found) /\ TopOf(f[V], k, Seen(V), d)
    BY <1>7, <2>1
  <2>3. f[U] = Visit(q, k, f[V], b)
    BY <1>3, <1>7
  <2> HIDE DEF x
  <2>4. Seen(U) = Seen(V) \union SidsOf(b)
    BY <2>1
  <2>5. Seen(V) \cap SidsOf(b) = {}
    <3>1. \A i \in V : SidsOf(blocks[p[i]]) \cap SidsOf(b) = {}
      <4>1. \A i \in V : p[i] \in 1 .. m /\ p[i] # p[x] /\ p[x] \in 1 .. m
        BY <1>3, <2>1
      <4>2. QED
        BY <1>5, <4>1
    <3>2. QED
      BY <3>1
  <2>6. Seen(V) \in SUBSET DOMAIN rs
    <3>1. \A i \in V : SidsOf(blocks[p[i]]) \in SUBSET DOMAIN rs
      <4>1. \A i \in V : p[i] \in 1 .. m
        BY <1>3
      <4>2. QED
        BY <1>4, <4>1
    <3>2. QED
      BY <3>1
  <2>7. Describes(b, rs) /\ b.body \in Seq(Grain)
    <3>1. p[x] \in 1 .. m
      BY <1>3, <2>1
    <3>2. Describes(b, rs)
      BY <1>1, <3>1
    <3>3. QED
      BY <3>2 DEF Describes
  <2> HIDE DEF b, V, Seen
  <2>8. f[U] \in Seq(Found)
    BY <2>2, <2>3, <2>7, VisitIsTyped
  <2>9. TopOf(f[U], k, Seen(V) \union SidsOf(b), d)
    BY <2>2, <2>3, <2>5, <2>6, <2>7, VisitKeepsTop
  <2>10. QED
    BY <2>4, <2>8, <2>9
<1> HIDE DEF Good
<1>8. \A U \in SUBSET (1 .. m) : U \in Good
  <2>1. IsFiniteSet(1 .. m)
    BY <1>1, FS_Interval
  <2>2. QED
    BY <1>6, <1>7, <2>1, SubsetsInduction
<1>9. TopOf(f[1 .. m], k, Seen(1 .. m), d)
  BY <1>8 DEF Good
<1>10. Seen(1 .. m) = DOMAIN rs
  <2>1. Seen(1 .. m) \subseteq DOMAIN rs
    BY <1>3, <1>4
  <2>2. ASSUME NEW s \in DOMAIN rs PROVE s \in Seen(1 .. m)
    <3>1. PICK i \in 1 .. m : \E x \in DOMAIN blocks[i].body : blocks[i].body[x].sid = s
      BY <1>1
    <3>2. s \in SidsOf(blocks[i])
      BY <3>1 DEF SidsOf, SidsAt
    <3>3. PICK j \in 1 .. m : p[j] = i
      BY <1>3
    <3>4. QED
      BY <3>2, <3>3
  <2>3. QED
    BY <2>1, <2>2
<1>11. QED
  BY <1>3, <1>9, <1>10

(* The first k distances of a scan are those of the k nearest. *)
LEMMA ScanFindsTop ==
  ASSUME NEW rs, IsFed(rs), NEW q \in Int, NEW k \in Nat
  PROVE  \E top : /\ TopOf(top, k, DOMAIN rs, Far(rs, q))
                  /\ FirstOf(Sorted(Far(rs, q), Far(rs, q)), k) = [i \in DOMAIN top |-> top[i].dist]
<1> DEFINE d == Far(rs, q)
           n == Len(rs)
           s == Sorted(d, d)
<1>1. n \in Nat /\ DOMAIN rs = 1 .. n
  <2>1. rs \in Seq(Grain)
    BY DEF IsFed
  <2>2. QED
    BY <2>1
<1>2. DOMAIN d = 1 .. n /\ \A i \in 1 .. n : d[i] \in Nat
  <2>1. DOMAIN d = DOMAIN rs
    BY DEF Far
  <2> HIDE DEF d
  <2>2. QED
    BY <1>1, <2>1, FarIsANumber DEF d
<1> HIDE DEF d, n
<1>3. HasKeys(n, d, d)
  BY <1>1, <1>2 DEF HasKeys
<1>4. PICK p : SortedSo(p, n, d, d)
  BY <1>3, SortedLaws
<1>5. /\ \A i \in 1 .. n : p[i] \in 1 .. n
      /\ \A i, j \in 1 .. n : p[i] = p[j] => i = j
      /\ \A x \in 1 .. n : \E i \in 1 .. n : p[i] = x
      /\ \A i, j \in 1 .. n : i <= j => d[p[i]] <= d[p[j]]
      /\ s = [r \in 1 .. n |-> d[p[r]]]
  BY <1>4 DEF SortedSo, Sorts, GoesThrough
<1>6. s \in Seq(Nat) /\ Len(s) = n
  <2> HIDE DEF s
  <2>1. s \in [1 .. n -> Nat]
    BY <1>2, <1>5
  <2>2. QED
    BY <1>1, <2>1
<1>7. PICK m : IsFirst(FirstOf(s, k), m, s, k, Nat)
  BY <1>6, FirstOfLaws
<1> DEFINE top == [i \in 1 .. m |-> [sid |-> p[i], dist |-> d[p[i]]]]
           first == FirstOf(s, k)
<1>8. /\ m \in Nat /\ m <= k /\ m <= n /\ (m = k \/ m = n)
      /\ first \in Seq(Nat) /\ Len(first) = m /\ DOMAIN first = 1 .. m
      /\ \A i \in 1 .. m : first[i] = s[i]
  BY <1>6, <1>7 DEF IsFirst
<1> HIDE DEF s, first
<1>9. \A i \in 1 .. m : i \in 1 .. n /\ p[i] \in 1 .. n
  BY <1>1, <1>5, <1>8
<1>10. /\ DOMAIN top = 1 .. m /\ Len(top) = m
       /\ \A i \in 1 .. m : top[i].sid = p[i] /\ top[i].dist = d[p[i]]
  <2>1. top \in [1 .. m -> [sid : 1 .. n, dist : Nat]]
    BY <1>2, <1>9
  <2>2. \A i \in 1 .. m : top[i].sid = p[i] /\ top[i].dist = d[p[i]]
    OBVIOUS
  <2> HIDE DEF top
  <2>3. DOMAIN top = 1 .. m /\ Len(top) = m
    BY <1>8, <2>1
  <2>4. QED
    BY <2>2, <2>3
<1> HIDE DEF top
<1>11. first = [i \in DOMAIN top |-> top[i].dist]
  <2>1. \A i \in 1 .. m : first[i] = top[i].dist
    BY <1>5, <1>8, <1>9, <1>10
  <2>2. first = [i \in 1 .. m |-> first[i]]
    BY <1>8
  <2>3. QED
    BY <1>10, <2>1, <2>2
<1>12. ASSUME NEW v \in 1 .. n
       PROVE  \/ \E i \in 1 .. m : top[i].sid = v
              \/ m = k /\ \A i \in 1 .. m : top[i].dist <= d[v]
  <2>1. PICK r \in 1 .. n : p[r] = v
    BY <1>5
  <2>2. CASE r \in 1 .. m
    BY <1>10, <2>1, <2>2
  <2>3. CASE r \notin 1 .. m
    <3>1. m < r /\ m # n /\ m = k
      BY <1>1, <1>8, <2>3
    <3>2. \A i \in 1 .. m : i \in 1 .. n /\ i <= r
      BY <1>1, <1>9, <3>1
    <3>3. \A i \in 1 .. m : d[p[i]] <= d[v]
      BY <1>5, <2>1, <3>2
    <3>4. QED
      BY <1>10, <3>1, <3>3
  <2>4. QED
    BY <2>2, <2>3
<1>13. \A i, j \in 1 .. m : top[i].sid = top[j].sid => i = j
  <2> SUFFICES ASSUME NEW i \in 1 .. m, NEW j \in 1 .. m, top[i].sid = top[j].sid PROVE i = j
    OBVIOUS
  <2>1. p[i] = p[j] /\ i \in 1 .. n /\ j \in 1 .. n
    BY <1>9, <1>10
  <2>2. QED
    BY <1>5, <2>1
<1>14. \A i, j \in 1 .. m : i <= j => top[i].dist <= top[j].dist
  BY <1>5, <1>9, <1>10
<1>15. TopOf(top, k, 1 .. n, d)
  BY <1>8, <1>9, <1>10, <1>12, <1>13, <1>14 DEF TopOf
<1>16. QED
  BY <1>1, <1>11, <1>15 DEF d, s, first

(* A search over blocks has the distances a scan of all grains has. *)
LEMMA SearchesAgree ==
  ASSUME NEW rs, IsFed(rs), NEW blocks, NEW m, IsBuilt(blocks, m, rs),
         NEW q \in Int, NEW k \in Nat \ {0}
  PROVE  [i \in DOMAIN Near(blocks, q, k) |-> Near(blocks, q, k)[i].dist] =
           FirstOf(Sorted(Far(rs, q), Far(rs, q)), k)
<1> DEFINE a == Near(blocks, q, k)
           d == Far(rs, q)
           V == DOMAIN rs
           s == FirstOf(Sorted(d, d), k)
<1>1. TopOf(a, k, V, d)
  BY NearFindsTop
<1>2. PICK b : TopOf(b, k, V, d) /\ s = [i \in DOMAIN b |-> b[i].dist]
  BY ScanFindsTop
<1>3. k \in Nat /\ \A v \in V : d[v] \in Nat
  BY FarIsANumber
<1> HIDE DEF a, d, V, s
<1>4. Len(a) <= Len(b) /\ \A i \in DOMAIN a : a[i].dist >= b[i].dist
  BY <1>1, <1>2, <1>3, TopIsUnique
<1>5. Len(b) <= Len(a) /\ \A i \in DOMAIN b : b[i].dist >= a[i].dist
  BY <1>1, <1>2, <1>3, TopIsUnique
<1>6. /\ Len(a) \in Nat /\ Len(b) \in Nat /\ DOMAIN a = 1 .. Len(a) /\ DOMAIN b = 1 .. Len(b)
      /\ \A i \in DOMAIN a : a[i].dist \in Nat
      /\ \A i \in DOMAIN b : b[i].dist \in Nat
  BY <1>1, <1>2, <1>3 DEF TopOf
<1>7. DOMAIN a = DOMAIN b
  <2>1. Len(a) = Len(b)
    <3>1. Len(a) <= Len(b)
      BY <1>4
    <3>2. Len(b) <= Len(a)
      BY <1>5
    <3>3. Len(a) \in Nat /\ Len(b) \in Nat
      BY <1>6
    <3> HIDE DEF a
    <3>4. QED
      BY <3>1, <3>2, <3>3
  <2>2. QED
    BY <1>6, <2>1
<1>8. \A i \in DOMAIN a : a[i].dist = b[i].dist
  BY <1>4, <1>5, <1>6, <1>7
<1>9. [i \in DOMAIN a |-> a[i].dist] = s
  BY <1>2, <1>7, <1>8
<1>10. QED
  BY <1>9 DEF a, s, d

-----------------------------------------------------------------------------

(* What was fed, and blocks built of it. *)
BlockInv ==
  /\ IsFed(recs)
  /\ \A blocks \in store : recs # <<>> /\ \E m : IsBuilt(blocks, m, recs)

(* The invariant is strong enough. *)
LEMMA BuiltBlocksAgree == BlockInv => BlocksAgreeWithAScan
<1> SUFFICES ASSUME BlockInv, NEW blocks \in store
             PROVE  /\ SumFunctionOnSet([b \in DOMAIN blocks |-> Len(blocks[b].body)], DOMAIN blocks) = Len(recs)
                    /\ \A s \in BlockSids :
                         Get(blocks, s) = {recs[i].cat : i \in {j \in DOMAIN recs : recs[j].sid = s}}
                    /\ \A c \in Categories :
                         CountCategory(blocks, c) = Cardinality({i \in DOMAIN recs : recs[i].cat = c})
                    /\ \A q \in NearQueries :
                         LET found == Near(blocks, q.at, q.k)
                             dists == [i \in DOMAIN recs |-> L2(q.at, recs[i].at)]
                         IN  [i \in DOMAIN found |-> found[i].dist] = FirstOf(Sorted(dists, dists), q.k)
  BY DEF BlocksAgreeWithAScan
<1>1. IsFed(recs)
  BY DEF BlockInv
<1>2. PICK m : IsBuilt(blocks, m, recs)
  BY DEF BlockInv
<1>3. SumFunctionOnSet([b \in DOMAIN blocks |-> Len(blocks[b].body)], DOMAIN blocks) = Len(recs)
  BY <1>1, <1>2, NoneLost
<1>4. \A s \in BlockSids :
        Get(blocks, s) = {recs[i].cat : i \in {j \in DOMAIN recs : recs[j].sid = s}}
  BY <1>1, <1>2, LookupsAgree
<1>5. \A c \in Categories :
        CountCategory(blocks, c) = Cardinality({i \in DOMAIN recs : recs[i].cat = c})
  BY <1>1, <1>2, CountsAgree
<1>6. ASSUME NEW q \in NearQueries
      PROVE  LET found == Near(blocks, q.at, q.k)
                 dists == [i \in DOMAIN recs |-> L2(q.at, recs[i].at)]
             IN  [i \in DOMAIN found |-> found[i].dist] = FirstOf(Sorted(dists, dists), q.k)
  <2>1. q.at \in Int /\ q.k \in Nat \ {0}
    BY BlockAssumption
  <2>2. Far(recs, q.at) = [i \in DOMAIN recs |-> L2(q.at, recs[i].at)]
    BY DEF Far
  <2>3. [i \in DOMAIN Near(blocks, q.at, q.k) |-> Near(blocks, q.at, q.k)[i].dist] =
          FirstOf(Sorted(Far(recs, q.at), Far(recs, q.at)), q.k)
    BY <1>1, <1>2, <2>1, SearchesAgree
  <2>4. QED
    BY <2>2, <2>3
<1>7. QED
  BY <1>3, <1>4, <1>5, <1>6

(* Whatever the grains, the number of blocks and of passes, skipping blocks by their   *)
(* descriptors loses nothing (block.rs, build_clustered, get, count, search).          *)
THEOREM PruningIsExact == BlockSpec => []BlocksAgreeWithAScan
<1>1. BlockInit => BlockInv
  <2>1. BlockInit => recs = <<>> /\ store = {}
    BY DEF BlockInit
  <2>2. IsFed(<<>>)
    <3>1. 0 <= MaxRecs
      BY BlockAssumption, FS_CardinalityType
    <3>2. QED
      BY <3>1 DEF IsFed
  <2>3. QED
    BY <2>1, <2>2 DEF BlockInv
<1>2. BlockInv /\ [BlockNext]_blockVars => BlockInv'
  <2> SUFFICES ASSUME BlockInv, [BlockNext]_blockVars PROVE BlockInv'
    OBVIOUS
  <2>1. CASE Feed
    <3>1. PICK cat \in Categories, point \in Points :
            recs' = Append(recs, [sid |-> Len(recs) + 1, cat |-> cat, at |-> point])
      BY <2>1 DEF Feed
    <3> DEFINE r == [sid |-> Len(recs) + 1, cat |-> cat, at |-> point]
    <3>2. recs \in Seq(Grain) /\ Len(recs) \in Nat /\ Len(recs) < MaxRecs
          /\ \A i \in DOMAIN recs : recs[i].sid = i
      BY <2>1 DEF Feed, BlockInv, IsFed
    <3>3. r \in Grain /\ r.sid = Len(recs) + 1
      <4>1. Len(recs) + 1 \in BlockSids
        BY <3>2, BlockAssumption, FS_CardinalityType
      <4>2. QED
        BY <4>1 DEF Grain
    <3> HIDE DEF r
    <3>4. /\ Append(recs, r) \in Seq(Grain) /\ Len(Append(recs, r)) = Len(recs) + 1
          /\ \A i \in 1 .. Len(recs) + 1 : Append(recs, r)[i] = IF i = Len(recs) + 1 THEN r ELSE recs[i]
      BY <3>2, <3>3
    <3>5. IsFed(recs')
      <4> DEFINE more == Append(recs, r)
      <4>1. recs' = more
        BY <3>1 DEF r
      <4> HIDE DEF more
      <4>2. more \in Seq(Grain) /\ Len(more) = Len(recs) + 1
            /\ \A i \in 1 .. Len(recs) + 1 : more[i] = IF i = Len(recs) + 1 THEN r ELSE recs[i]
        BY <3>4 DEF more
      <4>3. DOMAIN more = 1 .. Len(recs) + 1 /\ Len(more) <= MaxRecs
        <5>1. MaxRecs \in Nat
          BY BlockAssumption, FS_CardinalityType
        <5>2. QED
          BY <3>2, <4>2, <5>1
      <4>4. \A i \in DOMAIN more : more[i].sid = i
        BY <3>2, <3>3, <4>2, <4>3
      <4>5. QED
        BY <4>1, <4>2, <4>3, <4>4 DEF IsFed
    <3>6. store' = {}
      BY <2>1 DEF Feed
    <3>7. QED
      BY <3>5, <3>6 DEF BlockInv
  <2>2. CASE Build
    <3>1. PICK n \in 1 .. MaxRecs + 1, iters \in 1 .. MaxIters :
            store' = {BuildClustered(recs, n, iters)}
      BY <2>2 DEF Build
    <3>2. n \in Nat \ {0} /\ iters \in Nat \ {0}
      OBVIOUS
    <3>3. recs # <<>> /\ recs' = recs /\ IsFed(recs)
      BY <2>2 DEF Build, BlockInv
    <3>4. \E m : IsBuilt(BuildClustered(recs, n, iters), m, recs)
      BY <3>2, <3>3, BuildsBlocks
    <3>5. QED
      BY <3>1, <3>3, <3>4 DEF BlockInv
  <2>3. CASE UNCHANGED blockVars
    BY <2>3 DEF BlockInv, blockVars
  <2>4. QED
    BY <2>1, <2>2, <2>3 DEF BlockNext
<1>3. BlockInv => BlocksAgreeWithAScan
  BY BuiltBlocksAgree
<1>4. QED
  BY <1>1, <1>2, <1>3, PTL DEF BlockSpec

=============================================================================
