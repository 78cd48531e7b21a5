----------------------------- MODULE StagedQueryProof -----------------------------
(***************************************************************************)
(* Staged queries, for any number of threads, queries and writers and any        *)
(* capacity: a handle leads to the result it was issued for, the cache holds the  *)
(* newest entries, and however far the index lags behind, an answer is fresh and  *)
(* misses no match it could have found.                                       *)
(***************************************************************************)
EXTENDS StagedQuery, Induction

(* The cache's own operators on sets are the standard ones. *)
LEMMA CacheCardinality == ASSUME NEW S PROVE Cache!Cardinality(S) = Cardinality(S)
  BY DEF Cache!Cardinality, Cardinality, Cache!IsFiniteSet, IsFiniteSet

LEMMA CacheMin == ASSUME NEW S PROVE Cache!Min(S) = Min(S)
  BY DEF Cache!Min, Min

-----------------------------------------------------------------------------
(* Handles *)

HandleType ==
  /\ next \in Nat \ {0} /\ queries \in Nat
  /\ storing \in [Threads -> [id : Nat, result : Nat]]
  /\ handles \subseteq [id : Nat, result : Nat] /\ IsFiniteSet(handles)
  /\ map \subseteq handles
  /\ inserted = {h.id : h \in handles}

(* Every handle taken is below the counter, is no handle that was returned, and *)
(* is held by one thread; no two returned handles have the same number.         *)
HandlesAreUnique ==
  /\ \A h \in handles : h.id < next
  /\ \A h, g \in handles : h.id = g.id => h = g
  /\ \A t \in Threads : storing[t].id # 0 =>
       /\ storing[t].id < next
       /\ \A h \in handles : h.id # storing[t].id
       /\ \A u \in Threads : storing[u].id = storing[t].id => u = t

(* A drill has answered what one returned handle stands for, or nothing.        *)
AnswersAreOwn ==
  \A a \in answers : \E h \in handles : a.id = h.id /\ a.results \subseteq {h.result}

(* M is what a cache holds of the entries H: what was evicted is older than what  *)
(* is held, and nothing is evicted before the cache is full.                    *)
HeldOf(H, M) ==
  /\ IsFiniteSet(H) /\ M \subseteq H
  /\ Cardinality(M) <= Cap
  /\ Cardinality(M) = Cap \/ M = H
  /\ \A h \in H \ M, f \in M : h.id < f.id

EvictedIsOlder == HeldOf(handles, map)

CacheInv == HandleType /\ HandlesAreUnique /\ AnswersAreOwn /\ EvictedIsOlder

-----------------------------------------------------------------------------
(* Eviction *)

(* A non-empty set of entries with numbers has one with the smallest. *)
LEMMA OldestEntry ==
  ASSUME NEW m, m # {}, \A e \in m : e.id \in Nat
  PROVE  \E d \in m : \A e \in m : d.id <= e.id
<1> DEFINE T == {e.id : e \in m}
<1>1. T \in SUBSET Nat /\ T # {}
  OBVIOUS
<1>2. PICK x \in T : \A y \in T : x <= y
  <2> HIDE DEF T
  <2>1. QED
    BY <1>1, LeastNumber
<1>3. PICK d \in m : x = d.id
  BY <1>2
<1>4. QED
  BY <1>2, <1>3

(* Every entry of H has a number, and no two the same. *)
Numbered(H) ==
  /\ \A h \in H : h.id \in Nat
  /\ \A h, g \in H : h.id = g.id => h = g

(* An insert of a new number: the cache grows by it, or is full and loses its    *)
(* oldest entry, which may be the new one (store).                             *)
LEMMA EvictedIsOldest ==
  ASSUME Cap \in Nat \ {0}, NEW H, NEW M, NEW e, HeldOf(H, M), e \notin H,
         Numbered(H \union {e})
  PROVE  HeldOf(H \union {e}, Cache!Evict(M \union {e}))
<1> DEFINE m == M \union {e}
           N == Cache!Evict(m)
<1>0. /\ IsFiniteSet(H) /\ M \subseteq H /\ Cardinality(M) <= Cap
      /\ Cardinality(M) = Cap \/ M = H
      /\ \A h \in H \ M, f \in M : h.id < f.id
  BY DEF HeldOf
<1>1. IsFiniteSet(H \union {e})
  BY <1>0, FS_AddElement
<1>2. N = IF Cardinality(m) <= Cap THEN m ELSE {x \in m : \E f \in m : f.id < x.id}
  BY CacheCardinality DEF Cache!Evict
<1>3. IsFiniteSet(M) /\ e \notin M /\ Cardinality(M) \in Nat
  BY <1>0, FS_Subset, FS_CardinalityType
<1>4. IsFiniteSet(m) /\ Cardinality(m) = Cardinality(M) + 1
  BY <1>3, FS_AddElement
<1>5. m \subseteq H \union {e} /\ m # {}
  BY <1>0
<1>6. \A f \in H \union {e} : f.id \in Nat
  BY DEF Numbered
<1>7. \A f, g \in H \union {e} : f.id = g.id => f = g
  BY DEF Numbered
<1> HIDE DEF N
<1> DEFINE c == Cardinality(m)
           cM == Cardinality(M)
<1>8. CASE c <= Cap
  <2>1. N = m
    BY <1>2, <1>8
  <2>2. M = H
    <3> HIDE DEF c
    <3>1. cM + 1 <= Cap /\ cM \in Nat
      BY <1>3, <1>4, <1>8 DEF c
    <3>2. cM # Cap
      <4> HIDE DEF cM
      <4>1. QED
        BY <3>1
    <3>3. QED
      BY <1>0, <3>2
  <2>3. m = H \union {e}
    BY <2>2
  <2>4. QED
    BY <1>1, <1>8, <2>1, <2>3 DEF HeldOf, N
<1>9. CASE ~ (c <= Cap)
  <2>1. N = {x \in m : \E f \in m : f.id < x.id}
    BY <1>2, <1>9
  <2>2. cM = Cap /\ c = Cap + 1
    <3>1. cM \in Nat /\ c = cM + 1 /\ cM <= Cap
      BY <1>0, <1>3, <1>4
    <3> HIDE DEF c, cM
    <3>2. QED
      BY <1>9, <3>1
  <2> HIDE DEF c, cM
  <2>3. PICK d \in m : \A f \in m : d.id <= f.id
    <3> HIDE DEF m
    <3>1. QED
      BY <1>5, <1>6, OldestEntry
  <2>4. N = m \ {d}
    <3>1. \A x \in m : x # d => d.id < x.id
      <4> SUFFICES ASSUME NEW x \in m, x # d PROVE d.id < x.id
        OBVIOUS
      <4>1. x.id \in Nat /\ d.id \in Nat /\ d.id <= x.id /\ d.id # x.id
        BY <1>5, <1>6, <1>7, <2>3
      <4>2. QED
        BY <4>1
    <3>2. \A f \in m : ~ (f.id < d.id)
      <4> SUFFICES ASSUME NEW f \in m PROVE ~ (f.id < d.id)
        OBVIOUS
      <4>1. f.id \in Nat /\ d.id \in Nat /\ d.id <= f.id
        BY <1>5, <1>6, <2>3
      <4>2. QED
        BY <4>1
    <3> HIDE DEF m
    <3>3. QED
      BY <2>1, <2>3, <3>1, <3>2
  <2>5. Cardinality(N) = Cap
    <3>1. Cardinality(m \ {d}) = Cardinality(m) - 1
      <4> HIDE DEF m
      <4>1. QED
        BY <1>4, <2>3, FS_RemoveElement
    <3>2. Cardinality(m) = Cap + 1
      BY <2>2 DEF c
    <3>3. Cap \in Nat
      OBVIOUS
    <3> HIDE DEF m
    <3>4. Cardinality(m \ {d}) = Cap
      BY <3>1, <3>2, <3>3
    <3>5. QED
      BY <2>4, <3>4
  <2>6. N \subseteq H \union {e}
    BY <1>5, <2>4
  <2>7. ASSUME NEW h \in (H \union {e}) \ N, NEW f \in N PROVE h.id < f.id
    <3>1. f \in m /\ f # d /\ f.id \in Nat /\ d.id \in Nat /\ h.id \in Nat
      BY <1>5, <1>6, <2>3, <2>4
    <3>2. d.id < f.id
      <4>1. d.id # f.id /\ d.id <= f.id
        BY <1>5, <1>7, <2>3, <3>1
      <4>2. QED
        BY <3>1, <4>1
    <3>3. CASE h = d
      BY <3>2, <3>3
    <3>4. CASE h # d
      <4>1. h \in H \ M
        BY <2>4, <3>4
      <4>2. CASE f \in M
        BY <1>0, <4>1, <4>2
      <4>3. CASE f \notin M
        <5>1. f = e /\ d \in M
          BY <3>1, <4>3
        <5>2. h.id < d.id
          BY <1>0, <4>1, <5>1
        <5>3. QED
          BY <3>1, <3>2, <5>2
      <4>4. QED
        BY <4>2, <4>3
    <3>5. QED
      BY <3>3, <3>4
  <2>8. Cardinality(N) <= Cap
    BY <2>5
  <2>9. QED
    BY <1>1, <2>5, <2>6, <2>7, <2>8 DEF HeldOf, N
<1>10. QED
  BY <1>8, <1>9
-----------------------------------------------------------------------------
(* The steps of the cache *)

(* A thread takes the next number. *)
LEMMA TakeIdKeepsInv ==
  ASSUME CacheInv, NEW t \in Threads, Cache!TakeId(t)
  PROVE  CacheInv'
<1>1. /\ storing' = [storing EXCEPT ![t].id = next] /\ next' = next + 1
      /\ UNCHANGED <<map, queries, handles, inserted, answers>>
  BY DEF Cache!TakeId
<1>2. next \in Nat \ {0} /\ storing \in [Threads -> [id : Nat, result : Nat]]
  BY DEF CacheInv, HandleType
<1>3. /\ storing' \in [Threads -> [id : Nat, result : Nat]] /\ storing'[t].id = next
      /\ \A u \in Threads : u # t => storing'[u] = storing[u]
  BY <1>1, <1>2
<1>4. HandleType'
  BY <1>1, <1>2, <1>3 DEF CacheInv, HandleType
<1>5. \A n \in Nat : n < next => n < next + 1 /\ n # next
  BY <1>2
<1>6. \A h \in handles : h.id \in Nat /\ h.id < next
  BY DEF CacheInv, HandleType, HandlesAreUnique
<1>7. \A u \in Threads : u # t /\ storing[u].id # 0 => storing[u].id < next /\ storing[u].id \in Nat
  BY <1>2 DEF CacheInv, HandlesAreUnique
<1>8. next < next + 1 /\ next # 0
  BY <1>2
<1>9. HandlesAreUnique'
  <2>1. \A h \in handles : h.id < next + 1
    BY <1>5, <1>6
  <2>2. /\ storing'[t].id < next + 1
        /\ \A h \in handles : h.id # storing'[t].id
        /\ \A u \in Threads : storing'[u].id = storing'[t].id => u = t
    BY <1>3, <1>5, <1>6, <1>7, <1>8
  <2>3. ASSUME NEW u \in Threads, u # t, storing'[u].id # 0
        PROVE  /\ storing'[u].id < next + 1
               /\ \A h \in handles : h.id # storing'[u].id
               /\ \A w \in Threads : storing'[w].id = storing'[u].id => w = u
    BY <1>3, <1>5, <1>7, <2>3 DEF CacheInv, HandlesAreUnique
  <2>4. QED
    BY <1>1, <2>1, <2>2, <2>3 DEF CacheInv, HandlesAreUnique
<1>10. AnswersAreOwn' /\ EvictedIsOlder'
  BY <1>1 DEF CacheInv, AnswersAreOwn, EvictedIsOlder
<1>11. QED
  BY <1>4, <1>9, <1>10 DEF CacheInv

(* A thread stores its result; its number becomes a handle. *)
LEMMA StoreKeepsInv ==
  ASSUME CacheInv, NEW t \in Threads, Cache!Store(t)
  PROVE  CacheInv'
<1> DEFINE e == storing[t]
<1>1. /\ e.id # 0 /\ map' = Cache!Evict({f \in map : f.id # e.id} \union {e})
      /\ handles' = handles \union {e} /\ inserted' = inserted \union {e.id}
      /\ storing' = [storing EXCEPT ![t] = Cache!Free]
      /\ UNCHANGED <<next, queries, answers>>
  BY DEF Cache!Store
<1>2. /\ next \in Nat \ {0} /\ storing \in [Threads -> [id : Nat, result : Nat]]
      /\ handles \subseteq [id : Nat, result : Nat] /\ IsFiniteSet(handles)
      /\ map \subseteq handles
  BY DEF CacheInv, HandleType
<1>3. e \in [id : Nat, result : Nat] /\ e.id < next /\ \A h \in handles : h.id # e.id
  BY <1>1, <1>2 DEF CacheInv, HandlesAreUnique
<1>4. Cap \in Nat \ {0}
  BY CacheAssumption DEF Cache!ContinuationsAssumption
<1> HIDE DEF e
<1>5. HeldOf(handles \union {e}, Cache!Evict(map \union {e}))
  <2>1. HeldOf(handles, map) /\ e \notin handles
    BY <1>3 DEF CacheInv, EvictedIsOlder
  <2>2. Numbered(handles \union {e})
    BY <1>2, <1>3 DEF Numbered, CacheInv, HandlesAreUnique
  <2>3. QED
    BY <1>4, <2>1, <2>2, EvictedIsOldest
<1>6. EvictedIsOlder' /\ map' \subseteq handles \union {e}
  <2>1. {f \in map : f.id # e.id} \union {e} = map \union {e}
    BY <1>2, <1>3
  <2>2. map' = Cache!Evict(map \union {e})
    BY <1>1, <2>1
  <2>3. HeldOf(handles \union {e}, map')
    BY <1>5, <2>2
  <2>4. QED
    BY <1>1, <2>3 DEF EvictedIsOlder, HeldOf
<1>7. storing'[t].id = 0 /\ \A u \in Threads : u # t => storing'[u] = storing[u]
  BY <1>1, <1>2 DEF Cache!Free
<1>8. HandleType'
  <2>1. storing' \in [Threads -> [id : Nat, result : Nat]]
    BY <1>1, <1>2 DEF Cache!Free
  <2>2. IsFiniteSet(handles')
    BY <1>1, <1>2, FS_AddElement
  <2>3. inserted' = {h.id : h \in handles'}
    BY <1>1 DEF CacheInv, HandleType
  <2>4. QED
    BY <1>1, <1>2, <1>3, <1>6, <2>1, <2>2, <2>3 DEF CacheInv, HandleType
<1>9. HandlesAreUnique'
  <2>1. \A h \in handles' : h.id < next'
    BY <1>1, <1>3 DEF CacheInv, HandlesAreUnique
  <2>2. \A h, g \in handles' : h.id = g.id => h = g
    BY <1>1, <1>3 DEF CacheInv, HandlesAreUnique
  <2>3. ASSUME NEW u \in Threads, storing'[u].id # 0
        PROVE  /\ storing'[u].id < next'
               /\ \A h \in handles' : h.id # storing'[u].id
               /\ \A w \in Threads : storing'[w].id = storing'[u].id => w = u
    <3>1. u # t /\ storing'[u] = storing[u]
      BY <1>7, <2>3
    <3>2. storing[u].id # e.id
      BY <1>1, <3>1 DEF CacheInv, HandlesAreUnique, e
    <3>3. \A w \in Threads : storing'[w].id = storing'[u].id => w # t
      BY <1>7, <2>3
    <3>4. QED
      BY <1>1, <1>7, <2>3, <3>1, <3>2, <3>3 DEF CacheInv, HandlesAreUnique
  <2>4. QED
    BY <2>1, <2>2, <2>3 DEF HandlesAreUnique
<1>10. AnswersAreOwn'
  BY <1>1 DEF CacheInv, AnswersAreOwn
<1>11. QED
  BY <1>6, <1>8, <1>9, <1>10 DEF CacheInv

(* A drill finds in the cache the entry of its handle or none. *)
LEMMA DrillKeepsInv ==
  ASSUME CacheInv, Cache!Drill
  PROVE  CacheInv'
<1>1. PICK h \in handles :
        answers' = {[id |-> h.id, results |-> {e.result : e \in {f \in map : f.id = h.id}}]}
  BY DEF Cache!Drill
<1>2. \A f \in map : f.id = h.id => f = h
  BY DEF CacheInv, HandleType, HandlesAreUnique
<1>3. \A a \in answers' : a.id = h.id /\ a.results \subseteq {h.result}
  BY <1>1, <1>2
<1>4. UNCHANGED <<next, map, storing, queries, handles, inserted>>
  BY DEF Cache!Drill
<1>5. AnswersAreOwn'
  BY <1>3, <1>4 DEF AnswersAreOwn
<1>6. HandleType' /\ HandlesAreUnique' /\ EvictedIsOlder'
  BY <1>4 DEF CacheInv, HandleType, HandlesAreUnique, EvictedIsOlder
<1>7. QED
  BY <1>5, <1>6 DEF CacheInv

(* A query is about to store its result. *)
LEMMA QueryStagedKeepsInv ==
  ASSUME CacheInv, NEW t \in Threads, Cache!QueryStaged(t)
  PROVE  CacheInv'
<1>1. /\ queries' = queries + 1 /\ storing' = [storing EXCEPT ![t].result = queries']
      /\ UNCHANGED <<next, map, handles, inserted, answers>>
  BY DEF Cache!QueryStaged
<1>2. queries \in Nat /\ storing \in [Threads -> [id : Nat, result : Nat]]
  BY DEF CacheInv, HandleType
<1>3. queries' \in Nat
  BY <1>1, <1>2
<1>4. /\ storing' \in [Threads -> [id : Nat, result : Nat]]
      /\ \A u \in Threads : storing'[u].id = storing[u].id
  BY <1>1, <1>2, <1>3
<1>5. HandleType' /\ AnswersAreOwn' /\ EvictedIsOlder'
  BY <1>1, <1>3, <1>4 DEF CacheInv, HandleType, AnswersAreOwn, EvictedIsOlder
<1>6. HandlesAreUnique'
  BY <1>1, <1>4 DEF CacheInv, HandlesAreUnique
<1>7. QED
  BY <1>5, <1>6 DEF CacheInv

(* The invariant of the cache holds in every behaviour of the engine. *)
LEMMA CacheInvariance == Spec => []CacheInv
<1>1. Init => CacheInv
  <2> SUFFICES ASSUME Init PROVE CacheInv
    OBVIOUS
  <2>1. /\ next = 1 /\ map = {} /\ storing = [t \in Threads |-> Cache!Free]
        /\ queries = 0 /\ handles = {} /\ inserted = {} /\ answers = {}
    BY DEF Init, Cache!Init
  <2>2. IsFiniteSet({}) /\ Cardinality({}) = 0
    BY FS_EmptySet
  <2>3. Cap \in Nat \ {0}
    BY CacheAssumption DEF Cache!ContinuationsAssumption
  <2>4. HandleType
    BY <2>1, <2>2 DEF HandleType, Cache!Free
  <2>5. HandlesAreUnique /\ AnswersAreOwn
    BY <2>1 DEF HandlesAreUnique, AnswersAreOwn, Cache!Free
  <2>6. EvictedIsOlder
    BY <2>1, <2>2, <2>3 DEF EvictedIsOlder, HeldOf
  <2>7. QED
    BY <2>4, <2>5, <2>6 DEF CacheInv
<1>2. ASSUME CacheInv, [Next]_vars PROVE CacheInv'
  <2>1. CASE UNCHANGED cacheVars
    BY <1>2, <2>1 DEF cacheVars, CacheInv, HandleType, HandlesAreUnique, AnswersAreOwn,
       EvictedIsOlder
  <2>2. ASSUME NEW t \in Threads, Finish(t) PROVE CacheInv'
    BY <1>2, <2>2, QueryStagedKeepsInv DEF Finish
  <2>3. ASSUME NEW t \in Threads, Pin(t) PROVE CacheInv'
    BY <1>2, <2>3, TakeIdKeepsInv, StoreKeepsInv DEF Pin
  <2>4. CASE Drill
    BY <1>2, <2>4, DrillKeepsInv DEF Drill
  <2>5. QED
    BY <1>2, <2>1, <2>2, <2>3, <2>4 DEF Next, Observe, Commit, CommitNothing, Delete,
       Materialize, Plan, Search, Join, vars
<1>3. QED
  BY <1>1, <1>2, PTL DEF Spec

(* A drill returns the result its handle was issued for, or nothing, however the *)
(* takers of handles interleave with the inserts (ContinuationCache).           *)
THEOREM DrillsFindTheirOwn == Spec => []DrillReturnsItsOwnResult
<1>1. CacheInv => DrillReturnsItsOwnResult
  BY DEF CacheInv, HandlesAreUnique, AnswersAreOwn, DrillReturnsItsOwnResult,
     Cache!DrillReturnsItsOwnResult
<1>2. QED
  BY <1>1, CacheInvariance, PTL

(* The numbers of entries are as many as the entries. *)
LEMMA NumbersOfEntries ==
  ASSUME NEW m, IsFiniteSet(m), \A e, f \in m : e.id = f.id => e = f
  PROVE  Cardinality({e.id : e \in m}) = Cardinality(m) /\ IsFiniteSet({e.id : e \in m})
<1> DEFINE T == {e.id : e \in m}
           g == [e \in m |-> e.id]
<1>1. g \in [m -> T] /\ \A e, f \in m : g[e] = g[f] => e = f
  OBVIOUS
<1>2. \A x \in T : \E e \in m : g[e] = x
  OBVIOUS
<1> HIDE DEF g
<1>3. g \in Bijection(m, T)
  BY <1>1, <1>2 DEF Bijection, Injection, Surjection, IsInjective
<1>4. ExistsBijection(m, T)
  BY <1>3 DEF ExistsBijection
<1> HIDE DEF T
<1>5. Cardinality(T) = Cardinality(m) /\ IsFiniteSet(T)
  BY <1>4, FS_Bijection
<1>6. QED
  BY <1>5 DEF T

(* The cache holds exactly the newest of all numbers ever inserted, up to its    *)
(* capacity, a late insert of an old number included (ContinuationCache::store). *)
THEOREM CacheKeepsTheNewest == Spec => []KeepsTheNewest
<1>1. ASSUME CacheInv PROVE KeepsTheNewest
  <2> DEFINE held == {e.id : e \in map}
             all == {h.id : h \in handles}
  <2>1. /\ inserted = all /\ map \subseteq handles /\ IsFiniteSet(handles)
        /\ \A h, g \in handles : h.id = g.id => h = g
    BY <1>1 DEF CacheInv, HandleType, HandlesAreUnique
  <2>2. IsFiniteSet(map)
    BY <2>1, FS_Subset
  <2>3. Cardinality(held) = Cardinality(map) /\ IsFiniteSet(held)
    BY <2>1, <2>2, NumbersOfEntries
  <2>4. IsFiniteSet(all)
    BY <2>1, NumbersOfEntries
  <2>5. held \subseteq all
    BY <2>1
  <2>6. Cardinality(held) <= Cardinality(all) /\ Cardinality(all) \in Nat
    BY <2>4, <2>5, FS_Subset, FS_CardinalityType
  <2>7. Cardinality(map) <= Cap /\ (Cardinality(map) = Cap \/ map = handles)
    BY <1>1 DEF CacheInv, EvictedIsOlder, HeldOf
  <2>8. map = handles => held = all
    OBVIOUS
  <2>9. Cap \in Nat
    BY CacheAssumption DEF Cache!ContinuationsAssumption
  <2>10. \A i \in all \ held, j \in held : i < j
    BY <1>1 DEF CacheInv, EvictedIsOlder, HeldOf
  <2> HIDE DEF held, all
  <2>11. Cardinality(held) = Min({Cap, Cardinality(all)})
    <3> DEFINE n == Cardinality(held)
               k == Cardinality(all)
    <3>1. n <= Cap /\ n <= k /\ (n = Cap \/ n = k) /\ k \in Nat
      BY <2>3, <2>6, <2>7, <2>8
    <3> HIDE DEF n, k
    <3>2. n \in {Cap, k} /\ n <= Cap /\ n <= k
      BY <3>1
    <3>3. \A x \in {Cap, k} : (x <= Cap /\ x <= k) => x = n
      BY <2>9, <3>1
    <3>4. n = Min({Cap, k})
      BY <3>2, <3>3 DEF Min
    <3>5. QED
      BY <3>4 DEF n, k
  <2>12. QED
    BY <2>1, <2>5, <2>10, <2>11, CacheCardinality, CacheMin
       DEF KeepsTheNewest, Cache!KeepsTheNewest, held
<1>2. QED
  BY <1>1, CacheInvariance, PTL
-----------------------------------------------------------------------------
(* The summary *)

(* The smaller of two numbers is the minimum of the two, the larger the maximum.  *)
LEMMA MinMaxOfTwo ==
  ASSUME NEW a \in Nat, NEW b \in Nat
  PROVE  /\ Min({a, b}) = IF a <= b THEN a ELSE b
         /\ Max({a, b}) = IF a <= b THEN b ELSE a
<1>1. \A x \in {a, b} : (\A y \in {a, b} : x <= y) <=> x = IF a <= b THEN a ELSE b
  OBVIOUS
<1>2. \A x \in {a, b} : (\A y \in {a, b} : x >= y) <=> x = IF a <= b THEN b ELSE a
  OBVIOUS
<1>3. QED
  BY <1>1, <1>2 DEF Min, Max

(* Division with a remainder.                                                 *)
LEMMA Division ==
  ASSUME NEW a \in Nat, NEW d \in Nat, d > 0
  PROVE  /\ a \div d \in Nat /\ a % d \in Nat /\ a % d < d
         /\ a = d * (a \div d) + (a % d)
  OBVIOUS

(* Bands of the size chosen hold n results.                                    *)
LEMMA BandsHoldAll ==
  ASSUME NEW n \in Nat, NEW bands \in Nat, 0 < bands, bands <= n
  PROVE  /\ (n + bands - 1) \div bands \in Nat \ {0}
         /\ n <= ((n + bands - 1) \div bands) * bands
<1> DEFINE a == n + bands - 1
           b == a \div bands
           r == a % bands
<1>1. a \in Nat /\ a >= bands
  OBVIOUS
<1>2. b \in Nat /\ r \in Nat /\ r < bands /\ a = bands * b + r
  <2> HIDE DEF a
  <2>1. QED
    BY <1>1, Division
<1> DEFINE p == bands * b
<1>3. p \in Nat /\ n <= p /\ a = p + r /\ b * bands = p
  <2>1. p \in Nat /\ a = p + r /\ b * bands = p
    <3> HIDE DEF a, b, r
    <3>1. QED
      BY <1>2
  <2> HIDE DEF b, r, p
  <2>2. QED
    BY <1>2, <2>1
<1>4. b # 0
  <2>1. b = 0 => p = 0
    OBVIOUS
  <2> HIDE DEF p, b
  <2>2. QED
    BY <1>3, <2>1
<1>5. QED
  BY <1>2, <1>3, <1>4

(* At most as many numbers below bands * b are multiples of b as there are bands.   *)
LEMMA OnePerBand ==
  ASSUME NEW n \in Nat, NEW bands \in Nat, NEW b \in Nat \ {0}, n <= b * bands
  PROVE  /\ IsFiniteSet({i \in 1 .. n : (i - 1) % b = 0})
         /\ Cardinality({i \in 1 .. n : (i - 1) % b = 0}) <= bands
<1> DEFINE R == {i \in 1 .. n : (i - 1) % b = 0}
           band == [i \in R |-> (i - 1) \div b + 1]
<1>1. ASSUME NEW i \in R PROVE i - 1 = b * (band[i] - 1) /\ band[i] \in 1 .. bands
  <2> DEFINE x == i - 1
             y == x \div b
  <2>1. x \in Nat /\ x < n /\ x % b = 0 /\ band[i] = y + 1
    OBVIOUS
  <2>2. y \in Nat /\ x = b * y
    <3> HIDE DEF x
    <3>1. QED
      BY <2>1, Division
  <2>3. y < bands
    <3> HIDE DEF x, y
    <3>1. QED
      BY <2>1, <2>2
  <2> HIDE DEF y, x
  <2>4. band[i] - 1 = y /\ band[i] \in 1 .. bands
    BY <2>1, <2>2, <2>3
  <2>5. QED
    BY <2>2, <2>4 DEF x
<1>2. \A i, j \in R : band[i] = band[j] => i = j
  <2> SUFFICES ASSUME NEW i \in R, NEW j \in R, band[i] = band[j] PROVE i = j
    OBVIOUS
  <2>1. i - 1 = j - 1 /\ i \in Int /\ j \in Int
    BY <1>1
  <2>2. QED
    BY <2>1
<1>3. band \in Injection(R, 1 .. bands)
  <2>1. band \in [R -> 1 .. bands]
    BY <1>1
  <2> HIDE DEF band, R
  <2>2. QED
    BY <1>2, <2>1 DEF Injection, IsInjective
<1>4. IsFiniteSet(1 .. bands) /\ Cardinality(1 .. bands) = bands
  BY FS_Interval
<1> HIDE DEF R, band
<1>5. IsFiniteSet(R) /\ Cardinality(R) <= bands
  BY <1>3, <1>4, FS_Injection
<1>6. QED
  BY <1>5 DEF R

(* A summary has a representative of each band, whatever the results are.       *)
LEMMA SummaryOfAny ==
  ASSUME NEW S, NEW ranked \in Seq(S)
  PROVE  /\ Cardinality(Representatives(ranked)) <= Max({Reps, 1})
         /\ ranked # <<>> => 1 \in Representatives(ranked)
<1> DEFINE n == Len(ranked)
           most == Max({Reps, 1})
           bands == Min({most, n})
<1>1. n \in Nat /\ DOMAIN ranked = 1 .. n /\ Reps \in Nat
  BY StagedQueryAssumption
<1>2. most \in Nat \ {0} /\ most = IF Reps <= 1 THEN 1 ELSE Reps
  <2>1. Max({Reps, 1}) = IF Reps <= 1 THEN 1 ELSE Reps
    BY <1>1, MinMaxOfTwo
  <2>2. most = IF Reps <= 1 THEN 1 ELSE Reps
    BY <2>1
  <2> HIDE DEF most
  <2>3. QED
    BY <1>1, <2>2
<1> HIDE DEF most
<1>3. CASE ranked = <<>>
  <2>1. Representatives(ranked) = {} /\ Cardinality({}) = 0
    BY <1>3, FS_EmptySet DEF Representatives
  <2>2. 0 <= most
    BY <1>2
  <2>3. QED
    BY <1>3, <2>1, <2>2 DEF most
<1>4. CASE ranked # <<>>
  <2>1. n > 0
    BY <1>1, <1>4
  <2>2. bands \in Nat /\ 0 < bands /\ bands <= n /\ bands <= most
    <3> HIDE DEF n
    <3>1. bands = IF most <= n THEN most ELSE n
      BY <1>1, <1>2, MinMaxOfTwo
    <3>2. QED
      BY <1>1, <1>2, <2>1, <3>1
  <2> DEFINE b == BandSize(n)
  <2>3. b = (n + bands - 1) \div bands
    BY DEF BandSize, most
  <2> HIDE DEF bands, n, b
  <2>4. b \in Nat \ {0} /\ n <= b * bands
    BY <1>1, <2>2, <2>3, BandsHoldAll
  <2>5. Representatives(ranked) = {i \in 1 .. n : (i - 1) % b = 0}
    BY <1>1, <1>4 DEF Representatives, n, b
  <2>6. Cardinality(Representatives(ranked)) <= bands /\ IsFiniteSet(Representatives(ranked))
    BY <1>1, <2>2, <2>4, <2>5, OnePerBand
  <2>7. Cardinality(Representatives(ranked)) <= most
    <3> DEFINE c == Cardinality(Representatives(ranked))
    <3>1. c \in Nat /\ c <= bands
      BY <2>6, FS_CardinalityType
    <3> HIDE DEF c
    <3>2. c <= most
      BY <1>2, <2>2, <3>1
    <3>3. QED
      BY <3>2 DEF c
  <2>8. 1 \in Representatives(ranked)
    <3>1. (1 - 1) % b = 0
      BY <2>4
    <3>2. QED
      BY <1>1, <2>1, <2>5, <3>1
  <2>9. QED
    BY <2>7, <2>8 DEF most
<1>5. QED
  BY <1>3, <1>4
-----------------------------------------------------------------------------
(* What is known of a query *)

(* NewestOf and LiveOf of a sequence of commits.                               *)
NewestIn(cs, s, n) ==
  LET of == {i \in 1 .. n : cs[i].sid = s}
  IN  {i \in of : \A j \in of : j <= i}

LiveIn(cs, s, n) == {i \in NewestIn(cs, s, n) : cs[i].val # Tombstone}

PassesIn(cs, filter, i) == filter \in {AnyCat, cs[i].val.cat, cs[i].val.tag}

(* Commit c passes the filter and was the newest of its subject at a moment of the *)
(* interval.                                                                *)
FreshBy(cs, filter, since, upto, c) ==
  /\ c \in 1 .. Len(cs)
  /\ PassesIn(cs, filter, c)
  /\ \E now \in since .. upto : c \in LiveIn(cs, cs[c].sid, now)

(* The subjects the index knows at least as near as c.                          *)
NearerIn(cs, indexed, c) ==
  {s \in Sids : \E i \in LiveIn(cs, s, indexed) :
     i # c /\ cs[i].val.dist <= cs[c].val.dist}

(* What has been joined and what is to be comes nearest first.                  *)
NearestFirst(q) ==
  /\ \A i, j \in DOMAIN q.out : i < j => q.out[i].dist <= q.out[j].dist
  /\ \A i, j \in DOMAIN q.todo : i < j => q.todo[i].dist <= q.todo[j].dist
  /\ \A i \in DOMAIN q.out, j \in DOMAIN q.todo : q.out[i].dist <= q.todo[j].dist

(* Indexed commit c waits for its turn, was found if there was no reason not to,   *)
(* or was crowded out by candidates at least as near.                           *)
Waits(cs, q, c) ==
  \E i \in DOMAIN q.todo : q.todo[i] = [sid |-> cs[c].sid, dist |-> cs[c].val.dist]

WasFound(cs, q, s, c) ==
  c \in NewestIn(cs, s, Len(cs)) /\ PassesIn(cs, q.filter, c) =>
    \E i \in DOMAIN q.out : q.out[i] = [commit |-> c, dist |-> cs[c].val.dist]

Crowded(cs, q, c) == Cardinality(NearerIn(cs, q.indexed, c)) >= q.fetch

Known(cs, q) ==
  /\ q.since <= Len(cs) /\ q.indexed <= Len(cs)
  /\ NearestFirst(q)
  /\ \A i \in DOMAIN q.out : FreshBy(cs, q.filter, q.since, Len(cs), q.out[i].commit)
  /\ q.at # "join" => q.out = <<>> /\ q.todo = <<>>
  /\ q.at = "join" => \A s \in Sids : \A c \in LiveIn(cs, s, q.indexed) :
                        Waits(cs, q, c) \/ WasFound(cs, q, s, c) \/ Crowded(cs, q, c)

(* What is known of a result, for good.                                        *)
ResultKnown(cs, q) ==
  /\ q.since <= q.upto /\ q.upto <= Len(cs) /\ q.indexed <= Len(cs)
  /\ Len(q.ranked) <= q.k
  /\ \A i, j \in DOMAIN q.ranked : i < j => q.ranked[i].dist <= q.ranked[j].dist
  /\ \A i \in DOMAIN q.ranked : FreshBy(cs, q.filter, q.since, q.upto, q.ranked[i].commit)
  /\ \A s \in Sids : \A c \in LiveIn(cs, s, q.indexed) :
       \/ c \notin NewestIn(cs, s, q.upto)
       \/ ~ PassesIn(cs, q.filter, c)
       \/ \E i \in DOMAIN q.ranked : q.ranked[i].commit = c
       \/ /\ Len(q.ranked) = q.k
          /\ \A i \in DOMAIN q.ranked : q.ranked[i].dist <= cs[c].val.dist
       \/ Crowded(cs, q, c)

Query == [at : {"idle", "search", "join"}, filter : Filters,
          k : Nat, since : 0 .. MaxCommits, fetch : Nat,
          indexed : 0 .. MaxCommits, todo : Seq([sid : Sids, dist : Nat]),
          out : Seq(Ranked)]

Result == [filter : Filters, k : Nat, since : 0 .. MaxCommits,
           upto : 0 .. MaxCommits, fetch : Nat, indexed : 0 .. MaxCommits,
           ranked : Seq(Ranked)]

EngineTyped ==
  /\ commits \in Seq(Commits) /\ Len(commits) <= MaxCommits
  /\ applied \in 0 .. Len(commits)
  /\ counts \in [Cats -> Nat]
  /\ writing \in [Writers -> Commits \union {None}]
  /\ query \in [Threads -> Query]
  /\ results \in Seq(Result) /\ Len(results) = queries

CacheTyped ==
  /\ queries \in 0 .. MaxQueries
  /\ \A t \in Threads : /\ storing[t].result \in 0 .. queries
                        /\ storing[t].id # 0 => storing[t].result # 0
  /\ handles \subseteq Cache!Entry
  /\ answers \subseteq [id : Nat, results : SUBSET Cache!Results]

QueriesKnown ==
  /\ \A t \in Threads : Known(commits, query[t])
  /\ \A n \in DOMAIN results : ResultKnown(commits, results[n])

QueryInv == EngineTyped /\ CacheTyped /\ QueriesKnown

-----------------------------------------------------------------------------
(* Commits *)

LEMMA CommitsSeen ==
  /\ \A s, n : NewestOf(s, n) = NewestIn(commits, s, n)
  /\ \A s, n : LiveOf(s, n) = LiveIn(commits, s, n)
  /\ \A f, i : Passes(f, i) <=> PassesIn(commits, f, i)
  BY DEF NewestOf, NewestIn, LiveOf, LiveIn, Passes, PassesIn

(* A subject has at most one newest commit.                                     *)
LEMMA OneNewest ==
  ASSUME NEW cs, NEW s, NEW n, NEW i \in NewestIn(cs, s, n), NEW j \in NewestIn(cs, s, n)
  PROVE  i = j
<1>1. i \in 1 .. n /\ j \in 1 .. n /\ i <= j /\ j <= i
  BY DEF NewestIn
<1>2. QED
  BY <1>1

LEMMA LiveIsCommit ==
  ASSUME NEW cs, NEW s, NEW n, NEW i \in LiveIn(cs, s, n)
  PROVE  /\ i \in 1 .. n /\ i \in NewestIn(cs, s, n)
         /\ cs[i].sid = s /\ cs[i].val # Tombstone
  BY DEF LiveIn, NewestIn

(* What was newest among more commits was so among fewer.                       *)
LEMMA NewestEarlier ==
  ASSUME NEW cs, NEW s, NEW n \in Nat, NEW m \in Nat, m <= n, NEW c \in NewestIn(cs, s, n),
         c <= m
  PROVE  c \in NewestIn(cs, s, m)
  BY DEF NewestIn

(* A later commit changes nothing of what the earlier ones said.                 *)
LEMMA EarlierCommitsStay ==
  ASSUME NEW S, NEW cs \in Seq(S), NEW e \in S, NEW s, NEW n \in Nat, n <= Len(cs)
  PROVE  /\ NewestIn(Append(cs, e), s, n) = NewestIn(cs, s, n)
         /\ LiveIn(Append(cs, e), s, n) = LiveIn(cs, s, n)
<1>1. \A i \in 1 .. n : Append(cs, e)[i] = cs[i]
  OBVIOUS
<1> DEFINE ds == Append(cs, e)
<1> HIDE DEF ds
<1>2. NewestIn(ds, s, n) = NewestIn(cs, s, n)
  BY <1>1 DEF NewestIn, ds
<1>3. \A i \in NewestIn(cs, s, n) : ds[i] = cs[i]
  BY <1>1 DEF NewestIn, ds
<1>4. LiveIn(ds, s, n) = LiveIn(cs, s, n)
  BY <1>2, <1>3 DEF LiveIn
<1>5. QED
  BY <1>2, <1>4 DEF ds

LEMMA FreshStays ==
  ASSUME NEW S, NEW cs \in Seq(S), NEW e \in S, NEW filter, NEW since \in Nat,
         NEW upto \in Nat, upto <= Len(cs), NEW later \in Nat, upto <= later,
         NEW c, FreshBy(cs, filter, since, upto, c)
  PROVE  FreshBy(Append(cs, e), filter, since, later, c)
<1> DEFINE ds == Append(cs, e)
<1>1. PICK now \in since .. upto : c \in LiveIn(cs, cs[c].sid, now)
  BY DEF FreshBy
<1>2. c \in 1 .. Len(cs) /\ ds[c] = cs[c] /\ Len(ds) = Len(cs) + 1
  BY DEF FreshBy
<1>3. now \in Nat /\ now <= Len(cs) /\ now \in since .. later
  OBVIOUS
<1>4. c \in LiveIn(ds, cs[c].sid, now)
  BY <1>1, <1>3, EarlierCommitsStay
<1>5. c \in 1 .. Len(ds)
  BY <1>2
<1> HIDE DEF ds
<1>6. FreshBy(ds, filter, since, later, c)
  BY <1>2, <1>3, <1>4, <1>5 DEF FreshBy, PassesIn
<1>7. QED
  BY <1>6 DEF ds

LEMMA NearerStays ==
  ASSUME NEW S, NEW cs \in Seq(S), NEW e \in S, NEW n \in Nat, n <= Len(cs),
         NEW c \in 1 .. n
  PROVE  NearerIn(Append(cs, e), n, c) = NearerIn(cs, n, c)
<1> DEFINE ds == Append(cs, e)
<1>1. \A i \in 1 .. n : ds[i] = cs[i]
  OBVIOUS
<1>2. \A s : LiveIn(ds, s, n) = LiveIn(cs, s, n)
  BY EarlierCommitsStay
<1>3. \A s : LiveIn(cs, s, n) \subseteq 1 .. n
  BY LiveIsCommit
<1> HIDE DEF ds
<1>4. NearerIn(ds, n, c) = NearerIn(cs, n, c)
  BY <1>1, <1>2, <1>3 DEF NearerIn
<1>5. QED
  BY <1>4 DEF ds

(* A commit takes nothing away from what is known of a running query ...          *)
LEMMA KnownStays ==
  ASSUME NEW S, NEW cs \in Seq(S), NEW e \in S, NEW q \in Query, Known(cs, q)
  PROVE  Known(Append(cs, e), q)
<1> DEFINE ds == Append(cs, e)
<1>1. /\ Len(ds) = Len(cs) + 1 /\ Len(cs) \in Nat
      /\ \A i \in 1 .. Len(cs) : ds[i] = cs[i]
  OBVIOUS
<1>2. q.since \in Nat /\ q.indexed \in Nat /\ q.since <= Len(cs) /\ q.indexed <= Len(cs)
  BY DEF Known, Query
<1>3. \A i \in DOMAIN q.out : FreshBy(ds, q.filter, q.since, Len(ds), q.out[i].commit)
  <2> SUFFICES ASSUME NEW i \in DOMAIN q.out
               PROVE  FreshBy(ds, q.filter, q.since, Len(ds), q.out[i].commit)
    OBVIOUS
  <2>1. FreshBy(cs, q.filter, q.since, Len(cs), q.out[i].commit)
    BY DEF Known
  <2>2. Len(ds) \in Nat /\ Len(cs) <= Len(ds) /\ Len(cs) <= Len(cs)
    BY <1>1
  <2> HIDE DEF ds
  <2>3. FreshBy(Append(cs, e), q.filter, q.since, Len(ds), q.out[i].commit)
    BY <1>1, <1>2, <2>1, <2>2, FreshStays
  <2>4. QED
    BY <2>3 DEF ds
<1>4. ASSUME q.at = "join", NEW s \in Sids, NEW c \in LiveIn(ds, s, q.indexed)
      PROVE  Waits(ds, q, c) \/ WasFound(ds, q, s, c) \/ Crowded(ds, q, c)
  <2>1. c \in LiveIn(cs, s, q.indexed)
    BY <1>2, <1>4, EarlierCommitsStay
  <2>2. c \in 1 .. q.indexed
    BY <2>1, LiveIsCommit
  <2>3. ds[c] = cs[c] /\ c \in Nat /\ c <= Len(cs)
    BY <1>1, <1>2, <2>2
  <2>4. Waits(cs, q, c) \/ WasFound(cs, q, s, c) \/ Crowded(cs, q, c)
    BY <1>4, <2>1 DEF Known
  <2>5. NearerIn(ds, q.indexed, c) = NearerIn(cs, q.indexed, c)
    BY <1>2, <2>2, NearerStays
  <2>6. c \in NewestIn(ds, s, Len(ds)) => c \in NewestIn(cs, s, Len(cs))
    <3> SUFFICES ASSUME c \in NewestIn(ds, s, Len(ds)) PROVE c \in NewestIn(cs, s, Len(cs))
      OBVIOUS
    <3>1. Len(ds) \in Nat /\ Len(cs) <= Len(ds)
      BY <1>1
    <3> HIDE DEF ds
    <3>2. c \in NewestIn(ds, s, Len(cs))
      BY <1>1, <2>3, <3>1, NewestEarlier
    <3>3. NewestIn(Append(cs, e), s, Len(cs)) = NewestIn(cs, s, Len(cs))
      BY <1>1, EarlierCommitsStay
    <3>4. QED
      BY <3>2, <3>3 DEF ds
  <2> HIDE DEF ds
  <2>7. QED
    BY <2>3, <2>4, <2>5, <2>6 DEF Waits, WasFound, Crowded, PassesIn
<1>5. q.since <= Len(ds) /\ q.indexed <= Len(ds)
  BY <1>1, <1>2
<1> HIDE DEF ds
<1>6. Known(ds, q)
  BY <1>3, <1>4, <1>5 DEF Known
<1>7. QED
  BY <1>6 DEF ds

(* ... nor of a result.                                                       *)
LEMMA ResultStays ==
  ASSUME NEW S, NEW cs \in Seq(S), NEW e \in S, NEW q \in Result, ResultKnown(cs, q)
  PROVE  ResultKnown(Append(cs, e), q)
<1> DEFINE ds == Append(cs, e)
<1>1. /\ Len(ds) = Len(cs) + 1 /\ Len(cs) \in Nat
      /\ \A i \in 1 .. Len(cs) : ds[i] = cs[i]
  OBVIOUS
<1>2. /\ q.since \in Nat /\ q.upto \in Nat /\ q.indexed \in Nat
      /\ q.since <= q.upto /\ q.upto <= Len(cs) /\ q.indexed <= Len(cs)
  BY DEF ResultKnown, Result
<1>3. \A i \in DOMAIN q.ranked : FreshBy(ds, q.filter, q.since, q.upto, q.ranked[i].commit)
  <2> SUFFICES ASSUME NEW i \in DOMAIN q.ranked
               PROVE  FreshBy(ds, q.filter, q.since, q.upto, q.ranked[i].commit)
    OBVIOUS
  <2>1. FreshBy(cs, q.filter, q.since, q.upto, q.ranked[i].commit) /\ q.upto <= q.upto
    BY <1>2 DEF ResultKnown
  <2>2. QED
    BY <1>2, <2>1, FreshStays
<1>4. ASSUME NEW s \in Sids, NEW c \in LiveIn(ds, s, q.indexed)
      PROVE  \/ c \notin NewestIn(ds, s, q.upto)
             \/ ~ PassesIn(ds, q.filter, c)
             \/ \E i \in DOMAIN q.ranked : q.ranked[i].commit = c
             \/ /\ Len(q.ranked) = q.k
                /\ \A i \in DOMAIN q.ranked : q.ranked[i].dist <= ds[c].val.dist
             \/ Crowded(ds, q, c)
  <2>1. c \in LiveIn(cs, s, q.indexed) /\ NewestIn(ds, s, q.upto) = NewestIn(cs, s, q.upto)
    BY <1>2, <1>4, EarlierCommitsStay
  <2>2. c \in 1 .. q.indexed
    BY <2>1, LiveIsCommit
  <2>3. ds[c] = cs[c]
    BY <1>1, <1>2, <2>2
  <2>4. NearerIn(ds, q.indexed, c) = NearerIn(cs, q.indexed, c)
    BY <1>2, <2>2, NearerStays
  <2> HIDE DEF ds
  <2>5. QED
    BY <2>1, <2>3, <2>4 DEF ResultKnown, Crowded, PassesIn
<1>5. q.upto <= Len(ds) /\ q.indexed <= Len(ds)
  BY <1>1, <1>2
<1> HIDE DEF ds
<1>6. ResultKnown(ds, q)
  BY <1>2, <1>3, <1>4, <1>5 DEF ResultKnown
<1>7. QED
  BY <1>6 DEF ds
-----------------------------------------------------------------------------
(* The search *)

Indexed(cs, n) == UNION {LiveIn(cs, s, n) : s \in Sids}

(* The ways to put the indexed commits nearest first.                           *)
RankingsIn(cs, n) ==
  {r \in [1 .. Cardinality(Indexed(cs, n)) -> Indexed(cs, n)] :
     \A i, j \in DOMAIN r :
       i < j => r[i] # r[j] /\ cs[r[i]].val.dist <= cs[r[j]].val.dist}

LEMMA ArrayIsSeq ==
  ASSUME NEW S, NEW m \in Nat, NEW a \in [1 .. m -> S]
  PROVE  a \in Seq(S) /\ Len(a) = m
  OBVIOUS

LEMMA RankingsSeen == Rankings = RankingsIn(commits, applied)
  BY CommitsSeen DEF Rankings, RankingsIn, Indexed, DistOf

(* The indexed commits are commits, and of those a subject has one.              *)
LEMMA IndexedCommits ==
  ASSUME NEW cs \in Seq(Commits), NEW n \in Nat, n <= Len(cs)
  PROVE  /\ Indexed(cs, n) \subseteq 1 .. n /\ IsFiniteSet(Indexed(cs, n))
         /\ \A i \in Indexed(cs, n) : i \in LiveIn(cs, cs[i].sid, n) /\ cs[i] \in Commits
         /\ \A i \in Indexed(cs, n) : cs[i].val \in Values /\ cs[i].val.dist \in Nat
         /\ \A i, j \in Indexed(cs, n) : cs[i].sid = cs[j].sid => i = j
<1>1. ASSUME NEW i \in Indexed(cs, n)
      PROVE  /\ i \in 1 .. n /\ i \in LiveIn(cs, cs[i].sid, n) /\ cs[i] \in Commits
             /\ cs[i].val \in Values /\ cs[i].val.dist \in Nat
  <2>1. PICK s \in Sids : i \in LiveIn(cs, s, n)
    BY DEF Indexed
  <2>2. i \in 1 .. n /\ cs[i].sid = s /\ cs[i].val # Tombstone
    BY <2>1, LiveIsCommit
  <2>3. cs[i] \in Commits
    BY <2>2
  <2>4. cs[i].val \in Values
    BY <2>2, <2>3 DEF Commits
  <2>5. QED
    BY <2>1, <2>2, <2>3, <2>4, StagedQueryAssumption
<1>2. Indexed(cs, n) \subseteq 1 .. n
  BY <1>1
<1>3. IsFiniteSet(Indexed(cs, n))
  <2>1. IsFiniteSet(1 .. n)
    BY FS_Interval
  <2> HIDE DEF Indexed
  <2>2. QED
    BY <1>2, <2>1, FS_Subset
<1>4. ASSUME NEW i \in Indexed(cs, n), NEW j \in Indexed(cs, n), cs[i].sid = cs[j].sid
      PROVE  i = j
  <2>1. i \in NewestIn(cs, cs[i].sid, n) /\ j \in NewestIn(cs, cs[i].sid, n)
    BY <1>1, <1>4, LiveIsCommit
  <2>2. QED
    BY <2>1, OneNewest
<1>5. QED
  BY <1>1, <1>2, <1>3, <1>4

(* A ranking has every indexed commit once, nearest first.                       *)
LEMMA RankingHasAll ==
  ASSUME NEW cs \in Seq(Commits), NEW n \in Nat, n <= Len(cs), NEW r \in RankingsIn(cs, n)
  PROVE  /\ Len(r) = Cardinality(Indexed(cs, n)) /\ Len(r) \in Nat
         /\ r \in [1 .. Len(r) -> Indexed(cs, n)]
         /\ \A i, j \in 1 .. Len(r) :
              i < j => r[i] # r[j] /\ cs[r[i]].val.dist <= cs[r[j]].val.dist
         /\ \A c \in Indexed(cs, n) : \E i \in 1 .. Len(r) : r[i] = c
<1> DEFINE I == Indexed(cs, n)
           k == Cardinality(I)
<1>1. IsFiniteSet(I) /\ k \in Nat
  BY IndexedCommits, FS_CardinalityType
<1>2. /\ r \in [1 .. k -> I]
      /\ \A i, j \in 1 .. k : i < j => r[i] # r[j] /\ cs[r[i]].val.dist <= cs[r[j]].val.dist
  BY DEF RankingsIn
<1>3. Cardinality(1 .. k) = k /\ IsFiniteSet(1 .. k)
  BY <1>1, FS_Interval
<1> HIDE DEF k, I
<1>4. \A i, j \in 1 .. k : r[i] = r[j] => i = j
  <2> SUFFICES ASSUME NEW i \in 1 .. k, NEW j \in 1 .. k, r[i] = r[j] PROVE i = j
    OBVIOUS
  <2>1. ~ (i < j) /\ ~ (j < i)
    BY <1>2
  <2>2. QED
    BY <1>1, <2>1
<1>5. r \in Injection(1 .. k, I)
  BY <1>2, <1>4 DEF Injection, IsInjective
<1>6. r \in Surjection(1 .. k, I)
  BY <1>1, <1>3, <1>5, FS_Injection DEF k
<1>7. \A c \in I : \E i \in 1 .. k : r[i] = c
  BY <1>6 DEF Surjection
<1>8. Len(r) = k
  BY <1>1, <1>2
<1>9. QED
  BY <1>1, <1>2, <1>7, <1>8 DEF k, I

(* What Search asks to be joined.                                             *)
Candidates(cs, r, m) == [i \in 1 .. m |-> [sid |-> cs[r[i]].sid, dist |-> cs[r[i]].val.dist]]

(* A commit past the first m of a ranking has m subjects at least as near.        *)
LEMMA PastIsCrowded ==
  ASSUME NEW cs \in Seq(Commits), NEW n \in Nat, n <= Len(cs), NEW r \in RankingsIn(cs, n),
         NEW m \in Nat, NEW k \in 1 .. Len(r), m < k
  PROVE  Cardinality(NearerIn(cs, n, r[k])) >= m
<1> DEFINE N == NearerIn(cs, n, r[k])
           f == [i \in 1 .. m |-> cs[r[i]].sid]
           I == Indexed(cs, n)
<1>1. /\ r \in [1 .. Len(r) -> I] /\ Len(r) \in Nat
      /\ \A i, j \in 1 .. Len(r) :
           i < j => r[i] # r[j] /\ cs[r[i]].val.dist <= cs[r[j]].val.dist
  BY RankingHasAll
<1>2. /\ \A i \in I : i \in LiveIn(cs, cs[i].sid, n) /\ cs[i] \in Commits
      /\ \A i, j \in I : cs[i].sid = cs[j].sid => i = j
      /\ I \subseteq 1 .. n /\ IsFiniteSet(I)
  BY IndexedCommits
<1> HIDE DEF I
<1>3. ASSUME NEW i \in 1 .. m PROVE f[i] \in N /\ r[i] \in I
  <2>1. i \in 1 .. Len(r) /\ i < k
    BY <1>1
  <2>2. r[i] \in I /\ r[i] # r[k] /\ cs[r[i]].val.dist <= cs[r[k]].val.dist
    BY <1>1, <2>1
  <2>3. cs[r[i]].sid \in Sids /\ r[i] \in LiveIn(cs, cs[r[i]].sid, n)
    BY <1>2, <2>2 DEF Commits
  <2>4. QED
    BY <2>2, <2>3 DEF NearerIn
<1>4. \A i, j \in 1 .. m : f[i] = f[j] => i = j
  <2> SUFFICES ASSUME NEW i \in 1 .. m, NEW j \in 1 .. m, f[i] = f[j] PROVE i = j
    OBVIOUS
  <2>1. r[i] = r[j]
    BY <1>2, <1>3
  <2>2. i \in 1 .. Len(r) /\ j \in 1 .. Len(r) /\ i \in Nat /\ j \in Nat
    BY <1>1
  <2>3. ~ (i < j) /\ ~ (j < i)
    BY <1>1, <2>1, <2>2
  <2>4. QED
    BY <2>2, <2>3
<1>5. IsFiniteSet(N)
  <2> DEFINE g == [i \in I |-> cs[i].sid]
             T == {g[i] : i \in I}
  <2>1. g \in Surjection(I, T)
    BY DEF Surjection
  <2>2. IsFiniteSet(T)
    <3> HIDE DEF g, T
    <3>1. QED
      BY <1>2, <2>1, FS_Surjection
  <2>3. N \subseteq T
    <3> SUFFICES ASSUME NEW s \in N PROVE s \in T
      OBVIOUS
    <3>1. s \in Sids
      BY DEF NearerIn
    <3>2. PICK i \in LiveIn(cs, s, n) : TRUE
      BY DEF NearerIn
    <3>3. i \in I /\ cs[i].sid = s
      BY <3>1, <3>2, LiveIsCommit DEF I, Indexed
    <3>4. QED
      BY <3>3
  <2> HIDE DEF N, T
  <2>4. QED
    BY <2>2, <2>3, FS_Subset
<1>6. f \in Injection(1 .. m, N)
  <2>1. f \in [1 .. m -> N]
    BY <1>3
  <2> HIDE DEF f, N
  <2>2. QED
    BY <1>4, <2>1 DEF Injection, IsInjective
<1>7. Cardinality(1 .. m) = m
  BY FS_Interval
<1> HIDE DEF f, N
<1>8. Cardinality(1 .. m) <= Cardinality(N) /\ Cardinality(N) \in Nat
  BY <1>5, <1>6, FS_Injection, FS_CardinalityType
<1>9. QED
  BY <1>7, <1>8 DEF N

(* After the search every indexed commit waits or is crowded out.                *)
LEMMA SearchKnows ==
  ASSUME NEW cs \in Seq(Commits), NEW n \in Nat, n <= Len(cs), NEW r \in RankingsIn(cs, n),
         NEW q \in Query, q.at = "search", Known(cs, q), NEW p,
         p = [q EXCEPT !.at = "join", !.indexed = n,
                       !.todo = Candidates(cs, r, Min({Len(r), q.fetch}))],
         n <= MaxCommits
  PROVE  p \in Query /\ Known(cs, p)
<1> DEFINE m == Min({Len(r), q.fetch})
           todo == Candidates(cs, r, m)
           I == Indexed(cs, n)
<1>1. /\ r \in [1 .. Len(r) -> I] /\ Len(r) \in Nat
      /\ \A i, j \in 1 .. Len(r) :
           i < j => r[i] # r[j] /\ cs[r[i]].val.dist <= cs[r[j]].val.dist
      /\ \A c \in I : \E i \in 1 .. Len(r) : r[i] = c
  BY RankingHasAll
<1>2. \A i \in I : cs[i] \in Commits /\ cs[i].val.dist \in Nat
  BY IndexedCommits
<1>3. m \in Nat /\ m <= Len(r) /\ (m = Len(r) \/ m = q.fetch)
  <2>1. q.fetch \in Nat
    BY DEF Query
  <2> DEFINE k == Len(r)
  <2> HIDE DEF k
  <2>2. k \in Nat
    BY <1>1 DEF k
  <2>3. Min({k, q.fetch}) = IF k <= q.fetch THEN k ELSE q.fetch
    BY <2>1, <2>2, MinMaxOfTwo
  <2>4. QED
    BY <2>1, <2>2, <2>3 DEF k
<1> HIDE DEF m, I
<1>4. \A i \in 1 .. m : /\ i \in 1 .. Len(r) /\ r[i] \in I
                        /\ todo[i] = [sid |-> cs[r[i]].sid, dist |-> cs[r[i]].val.dist]
                        /\ todo[i] \in [sid : Sids, dist : Nat]
  BY <1>1, <1>2, <1>3 DEF Candidates, Commits
<1>5. DOMAIN todo = 1 .. m /\ todo \in Seq([sid : Sids, dist : Nat])
  <2>1. todo \in [1 .. m -> [sid : Sids, dist : Nat]]
    BY <1>4 DEF Candidates
  <2> HIDE DEF todo
  <2>2. DOMAIN todo = 1 .. m
    BY <2>1
  <2>3. todo \in Seq([sid : Sids, dist : Nat])
    BY <1>3, <2>1, ArrayIsSeq
  <2>4. QED
    BY <2>2, <2>3
<1> HIDE DEF todo
<1>6. /\ p \in Query /\ p.at = "join" /\ p.indexed = n /\ p.todo = todo
      /\ p.out = <<>> /\ p.since = q.since /\ p.fetch = q.fetch
  <2>1. p = [q EXCEPT !.at = "join", !.indexed = n, !.todo = todo]
    BY DEF todo, m
  <2>2. q.out = <<>>
    BY DEF Known
  <2>3. n \in 0 .. MaxCommits
    BY StagedQueryAssumption
  <2>4. QED
    BY <1>5, <2>1, <2>2, <2>3 DEF Query
<1>7. NearestFirst(p)
  <2>1. ASSUME NEW i \in 1 .. m, NEW j \in 1 .. m, i < j
        PROVE  todo[i].dist <= todo[j].dist
    <3>1. i \in 1 .. Len(r) /\ j \in 1 .. Len(r)
      BY <1>4
    <3>2. cs[r[i]].val.dist <= cs[r[j]].val.dist
      BY <1>1, <2>1, <3>1
    <3>3. /\ todo[i] = [sid |-> cs[r[i]].sid, dist |-> cs[r[i]].val.dist]
          /\ todo[j] = [sid |-> cs[r[j]].sid, dist |-> cs[r[j]].val.dist]
      BY <1>4
    <3>4. QED
      BY <3>2, <3>3
  <2>2. DOMAIN p.out = {}
    BY <1>6
  <2>3. QED
    BY <1>5, <1>6, <2>1, <2>2 DEF NearestFirst
<1>8. ASSUME NEW s \in Sids, NEW c \in LiveIn(cs, s, n)
      PROVE  Waits(cs, p, c) \/ Crowded(cs, p, c)
  <2>1. PICK k \in 1 .. Len(r) : r[k] = c
    BY <1>1, <1>8 DEF I, Indexed
  <2>2. CASE k <= m
    <3>1. k \in 1 .. m
      BY <2>2
    <3>2. QED
      BY <1>4, <1>5, <1>6, <2>1, <3>1 DEF Waits
  <2>3. CASE ~ (k <= m)
    <3>1. m < k /\ m = q.fetch
      BY <1>1, <1>3, <2>3
    <3>2. Cardinality(NearerIn(cs, n, c)) >= m
      BY <1>3, <2>1, <3>1, PastIsCrowded
    <3>3. QED
      BY <1>6, <3>1, <3>2 DEF Crowded
  <2>4. QED
    BY <2>2, <2>3
<1>9. QED
  BY <1>6, <1>7, <1>8 DEF Known
-----------------------------------------------------------------------------
(* The join *)

LEMMA HeadOfSeq ==
  ASSUME NEW S, NEW s \in Seq(S), s # <<>>
  PROVE  Head(s) = s[1] /\ Head(s) \in S
  OBVIOUS

(* What Join appends for the commits F found at distance d.                      *)
Hits(F, d) ==
  [n \in 1 .. Cardinality(F) |-> [commit |-> CHOOSE i \in F : TRUE, dist |-> d]]

AtMostOne(F) == \A i, j \in F : i = j

JoinsTo(F, out, d, new) ==
  \/ F = {} /\ new = out
  \/ \E i \in F : new = Append(out, [commit |-> i, dist |-> d])

(* A set of at most one commit appends at most one result.                        *)
LEMMA JoinedOut ==
  ASSUME NEW F, AtMostOne(F), NEW out, out \in Seq(Ranked), NEW d
  PROVE  JoinsTo(F, out, d, out \o Hits(F, d))
<1> DEFINE new == out \o Hits(F, d)
<1>1. CASE F = {}
  <2>1. Cardinality(F) = 0
    BY <1>1, FS_EmptySet
  <2>2. [n \in 1 .. 0 |-> [commit |-> CHOOSE i \in F : TRUE, dist |-> d]] = <<>>
    OBVIOUS
  <2>3. out \o <<>> = out
    OBVIOUS
  <2>4. QED
    BY <1>1, <2>1, <2>2, <2>3 DEF Hits, JoinsTo
<1>2. CASE F # {}
  <2> DEFINE i == CHOOSE i \in F : TRUE
             e == [commit |-> i, dist |-> d]
  <2>1. i \in F
    BY <1>2
  <2>2. F = {i} /\ Cardinality(F) = 1
    <3> HIDE DEF i
    <3>1. F = {i}
      BY <2>1 DEF AtMostOne
    <3>2. QED
      BY <3>1, FS_Singleton
  <2> HIDE DEF i, e
  <2>3. [n \in 1 .. 1 |-> e] = <<e>> /\ out \o <<e>> = Append(out, e)
    OBVIOUS
  <2>4. new = out \o [n \in 1 .. 1 |-> e]
    BY <2>2 DEF i, e, Hits
  <2>5. new = Append(out, [commit |-> i, dist |-> d])
    BY <2>3, <2>4 DEF e
  <2>6. QED
    BY <2>1, <2>5 DEF JoinsTo
<1>3. QED
  BY <1>1, <1>2

(* What is left to join, and whether a result e was found: the order stays.        *)
LEMMA OrderStays ==
  ASSUME NEW q \in Query, NEW p \in Query, NearestFirst(q), q.todo # <<>>,
         p.todo = Tail(q.todo),
         \/ p.out = q.out
         \/ \E e \in Ranked : e.dist = Head(q.todo).dist /\ p.out = Append(q.out, e)
  PROVE  NearestFirst(p)
<1> DEFINE n == Len(q.out)
           m == Len(q.todo)
<1>1. /\ q.out \in Seq(Ranked) /\ q.todo \in Seq([sid : Sids, dist : Nat])
      /\ n \in Nat /\ m \in Nat \ {0} /\ DOMAIN q.out = 1 .. n /\ DOMAIN q.todo = 1 .. m
  BY DEF Query
<1>2. /\ DOMAIN p.todo = 1 .. m - 1
      /\ \A i \in 1 .. m - 1 : p.todo[i] = q.todo[i + 1]
  BY <1>1
<1>3. Head(q.todo) = q.todo[1]
  BY <1>1
<1>4. /\ \A i, j \in 1 .. n : i < j => q.out[i].dist <= q.out[j].dist
      /\ \A i, j \in 1 .. m : i < j => q.todo[i].dist <= q.todo[j].dist
      /\ \A i \in 1 .. n, j \in 1 .. m : q.out[i].dist <= q.todo[j].dist
  BY <1>1 DEF NearestFirst
<1>5. \A i, j \in DOMAIN p.todo : i < j => p.todo[i].dist <= p.todo[j].dist
  <2> SUFFICES ASSUME NEW i \in 1 .. m - 1, NEW j \in 1 .. m - 1, i < j
               PROVE  p.todo[i].dist <= p.todo[j].dist
    BY <1>2
  <2>1. i + 1 \in 1 .. m /\ j + 1 \in 1 .. m /\ i + 1 < j + 1
    <3>1. m \in Nat
      BY <1>1
    <3> HIDE DEF m
    <3>2. QED
      BY <3>1
  <2>2. q.todo[i + 1].dist <= q.todo[j + 1].dist
    BY <1>4, <2>1
  <2>3. QED
    BY <1>2, <2>2
<1>6. CASE p.out = q.out
  <2>1. \A i \in DOMAIN p.out, j \in DOMAIN p.todo : p.out[i].dist <= p.todo[j].dist
    <3> SUFFICES ASSUME NEW i \in 1 .. n, NEW j \in 1 .. m - 1
                 PROVE  q.out[i].dist <= p.todo[j].dist
      BY <1>1, <1>2, <1>6
    <3>1. j + 1 \in 1 .. m
      BY <1>1
    <3>2. QED
      BY <1>2, <1>4, <3>1
  <2>2. QED
    BY <1>1, <1>4, <1>5, <1>6, <2>1 DEF NearestFirst
<1>7. ASSUME NEW e \in Ranked, e.dist = Head(q.todo).dist, p.out = Append(q.out, e)
      PROVE  NearestFirst(p)
  <2>0. e.dist = q.todo[1].dist
    BY <1>3, <1>7
  <2>1. /\ DOMAIN p.out = 1 .. n + 1 /\ p.out[n + 1] = e
        /\ \A i \in 1 .. n : p.out[i] = q.out[i]
    BY <1>1, <1>7
  <2>2. 1 \in 1 .. m
    BY <1>1
  <2>3. ASSUME NEW i \in 1 .. n + 1, NEW j \in 1 .. n + 1, i < j
        PROVE  p.out[i].dist <= p.out[j].dist
    <3>1. i \in 1 .. n
      BY <1>1, <2>3
    <3>2. CASE j \in 1 .. n
      BY <1>4, <2>1, <2>3, <3>1, <3>2
    <3>3. CASE j = n + 1
      <4>1. q.out[i].dist <= q.todo[1].dist
        BY <1>4, <2>2, <3>1
      <4>2. p.out[i] = q.out[i] /\ p.out[j] = e
        BY <2>1, <3>1, <3>3
      <4>3. QED
        BY <2>0, <4>1, <4>2
    <3>4. j \in 1 .. n \/ j = n + 1
      <4>1. n \in Nat
        BY <1>1
      <4> HIDE DEF n
      <4>2. QED
        BY <4>1
    <3>5. QED
      BY <3>2, <3>3, <3>4
  <2>4. ASSUME NEW i \in 1 .. n + 1, NEW j \in 1 .. m - 1
        PROVE  p.out[i].dist <= p.todo[j].dist
    <3>1. j + 1 \in 1 .. m /\ 1 < j + 1 /\ p.todo[j] = q.todo[j + 1]
      <4>1. m \in Nat
        BY <1>1
      <4> HIDE DEF m
      <4>2. QED
        BY <1>2, <4>1
    <3>2. CASE i \in 1 .. n
      <4>1. p.out[i] = q.out[i] /\ q.out[i].dist <= q.todo[j + 1].dist
        BY <1>4, <2>1, <3>1, <3>2
      <4>2. QED
        BY <3>1, <4>1
    <3>3. CASE i = n + 1
      <4>1. q.todo[1].dist <= q.todo[j + 1].dist
        BY <1>4, <2>2, <3>1
      <4>2. p.out[i] = e /\ p.todo[j] = q.todo[j + 1]
        BY <2>1, <3>1, <3>3
      <4>3. QED
        BY <2>0, <4>1, <4>2
    <3>4. i \in 1 .. n \/ i = n + 1
      <4>1. n \in Nat
        BY <1>1
      <4> HIDE DEF n
      <4>2. QED
        BY <4>1
    <3>5. QED
      BY <3>2, <3>3, <3>4
  <2>5. QED
    BY <1>2, <1>5, <2>1, <2>3, <2>4 DEF NearestFirst
<1>8. QED
  BY <1>6, <1>7

(* What Join finds of a candidate.                                             *)
FoundIn(cs, q) ==
  {i \in LiveIn(cs, Head(q.todo).sid, Len(cs)) : PassesIn(cs, q.filter, i)}

(* A join leaves nobody out: the head of the queue was found, or is gone, or        *)
(* fails the filter.                                                        *)
LEMMA JoinKnows ==
  ASSUME NEW cs \in Seq(Commits), Len(cs) <= MaxCommits, NEW q \in Query, q.at = "join",
         q.todo # <<>>, Known(cs, q), NEW p,
         p = [q EXCEPT !.todo = Tail(@),
                       !.out = @ \o [n \in 1 .. Cardinality(FoundIn(cs, q)) |->
                                      [commit |-> CHOOSE i \in FoundIn(cs, q) : TRUE,
                                       dist |-> Head(q.todo).dist]]]
  PROVE  p \in Query /\ Known(cs, p)
<1> DEFINE h == Head(q.todo)
           F == FoundIn(cs, q)
           out == q.out \o [n \in 1 .. Cardinality(F) |->
                              [commit |-> CHOOSE i \in F : TRUE, dist |-> h.dist]]
           m == Len(q.todo)
           k == Len(q.out)
<1>1. /\ q.out \in Seq(Ranked) /\ q.todo \in Seq([sid : Sids, dist : Nat])
      /\ m \in Nat \ {0} /\ DOMAIN q.todo = 1 .. m /\ k \in Nat /\ DOMAIN q.out = 1 .. k
  BY DEF Query
<1>2. h = q.todo[1] /\ h \in [sid : Sids, dist : Nat]
  BY <1>1, HeadOfSeq
<1>3. /\ Tail(q.todo) \in Seq([sid : Sids, dist : Nat]) /\ DOMAIN Tail(q.todo) = 1 .. m - 1
      /\ \A i \in 1 .. m - 1 : Tail(q.todo)[i] = q.todo[i + 1]
  BY <1>1
<1>4. /\ \A i, j \in F : i = j
      /\ \A i \in F : /\ i \in LiveIn(cs, h.sid, Len(cs)) /\ PassesIn(cs, q.filter, i)
                      /\ i \in 1 .. Len(cs) /\ cs[i].sid = h.sid
  <2>1. \A i \in F : i \in LiveIn(cs, h.sid, Len(cs)) /\ PassesIn(cs, q.filter, i)
    BY DEF FoundIn
  <2> HIDE DEF F, h
  <2>2. \A i \in F : i \in 1 .. Len(cs) /\ cs[i].sid = h.sid /\ i \in NewestIn(cs, h.sid, Len(cs))
    BY <2>1, LiveIsCommit
  <2>3. \A i, j \in F : i = j
    BY <2>2, OneNewest
  <2>4. QED
    BY <2>1, <2>2, <2>3
<1>5. \/ F = {} /\ out = q.out
      \/ \E i \in F : out = Append(q.out, [commit |-> i, dist |-> h.dist])
  <2>1. q.out \in Seq(Ranked) /\ AtMostOne(F)
    BY <1>1, <1>4 DEF AtMostOne
  <2>2. out = q.out \o Hits(F, h.dist)
    BY DEF Hits
  <2>3. JoinsTo(F, q.out, h.dist, q.out \o Hits(F, h.dist))
    <3> HIDE DEF F, h, out
    <3>1. QED
      BY <2>1, JoinedOut, Zenon
  <2> HIDE DEF F, h, out
  <2>4. QED
    BY <2>2, <2>3 DEF JoinsTo
<1>6. p = [q EXCEPT !.todo = Tail(q.todo), !.out = out]
  OBVIOUS
<1> HIDE DEF out
<1>7. \A i \in F : [commit |-> i, dist |-> h.dist] \in Ranked
  <2>1. \A i \in F : i \in 1 .. MaxCommits
    <3>1. MaxCommits \in Nat /\ Len(cs) \in Nat
      BY StagedQueryAssumption
    <3> HIDE DEF F
    <3>2. QED
      BY <1>4, <3>1
  <2>2. h.dist \in Nat
    BY <1>2
  <2>3. QED
    BY <2>1, <2>2 DEF Ranked
<1> HIDE DEF F, h, k, m
<1>8. out \in Seq(Ranked)
  <2>1. ASSUME NEW e \in Ranked PROVE Append(q.out, e) \in Seq(Ranked)
    BY <1>1
  <2>2. QED
    BY <1>1, <1>5, <1>7, <2>1
<1>9. /\ p \in Query /\ p.at = "join" /\ p.filter = q.filter /\ p.since = q.since
      /\ p.indexed = q.indexed /\ p.fetch = q.fetch
      /\ p.todo = Tail(q.todo) /\ p.out = out
  BY <1>3, <1>6, <1>8 DEF Query
<1>10. q.since \in Nat /\ q.since <= Len(cs) /\ q.indexed <= Len(cs) /\ Len(cs) \in Nat
  BY DEF Query, Known
<1>11. NearestFirst(p)
  <2>1. NearestFirst(q)
    BY DEF Known
  <2>2. CASE p.out = q.out
    BY <1>9, <2>1, <2>2, OrderStays
  <2>3. ASSUME NEW i \in F, out = Append(q.out, [commit |-> i, dist |-> h.dist])
        PROVE  NearestFirst(p)
    <3> DEFINE e == [commit |-> i, dist |-> h.dist]
    <3>1. e \in Ranked /\ e.dist = h.dist /\ p.out = Append(q.out, e)
      BY <1>7, <1>9, <2>3
    <3> HIDE DEF e
    <3>2. QED
      BY <1>9, <2>1, <3>1, OrderStays DEF h
  <2>4. QED
    BY <1>5, <1>9, <2>2, <2>3
<1>12. \A i \in DOMAIN p.out : FreshBy(cs, p.filter, p.since, Len(cs), p.out[i].commit)
  <2>1. \A i \in DOMAIN q.out : FreshBy(cs, q.filter, q.since, Len(cs), q.out[i].commit)
    BY DEF Known
  <2>2. ASSUME NEW i \in F PROVE FreshBy(cs, q.filter, q.since, Len(cs), i)
    <3>1. Len(cs) \in q.since .. Len(cs)
      BY <1>10
    <3>2. QED
      BY <1>4, <2>2, <3>1 DEF FreshBy
  <2>3. ASSUME NEW i \in F, out = Append(q.out, [commit |-> i, dist |-> h.dist]),
               NEW j \in DOMAIN out
        PROVE  FreshBy(cs, q.filter, q.since, Len(cs), out[j].commit)
    <3> DEFINE e == [commit |-> i, dist |-> h.dist]
    <3>1. e \in Ranked /\ e.commit = i
      BY <1>7, <2>3
    <3> HIDE DEF e
    <3>2. out = Append(q.out, e)
      BY <2>3 DEF e
    <3>3. out[j] = e \/ (j \in DOMAIN q.out /\ out[j] = q.out[j])
      BY <1>1, <3>1, <3>2
    <3>4. QED
      BY <2>1, <2>2, <3>1, <3>3
  <2>4. QED
    BY <1>5, <1>9, <2>1, <2>3
<1>13. ASSUME NEW s \in Sids, NEW c \in LiveIn(cs, s, q.indexed)
       PROVE  Waits(cs, p, c) \/ WasFound(cs, p, s, c) \/ Crowded(cs, p, c)
  <2> DEFINE w == [sid |-> cs[c].sid, dist |-> cs[c].val.dist]
             e == [commit |-> c, dist |-> cs[c].val.dist]
  <2>1. cs[c].sid = s /\ cs[c].val # Tombstone
    BY LiveIsCommit
  <2>2. Waits(cs, q, c) \/ WasFound(cs, q, s, c) \/ Crowded(cs, q, c)
    BY <1>13 DEF Known
  <2>3. CASE Crowded(cs, q, c)
    BY <1>9, <2>3 DEF Crowded
  <2>4. \A j \in DOMAIN q.out : j \in DOMAIN out /\ out[j] = q.out[j]
    <3>1. ASSUME NEW i \in F, out = Append(q.out, [commit |-> i, dist |-> h.dist])
          PROVE  \A j \in DOMAIN q.out : j \in DOMAIN out /\ out[j] = q.out[j]
      <4> DEFINE f == [commit |-> i, dist |-> h.dist]
      <4>1. f \in Ranked /\ out = Append(q.out, f)
        BY <1>7, <3>1
      <4> HIDE DEF f
      <4>2. QED
        BY <1>1, <4>1
    <3>2. QED
      BY <1>5, <3>1
  <2>5. CASE WasFound(cs, q, s, c)
    BY <1>9, <2>4, <2>5 DEF WasFound
  <2>6. CASE Waits(cs, q, c)
    <3>1. PICK i \in 1 .. m : q.todo[i] = w
      BY <1>1, <2>6 DEF Waits
    <3>2. CASE i # 1
      <4>1. i - 1 \in 1 .. m - 1 /\ (i - 1) + 1 = i
        BY <1>1, <3>2
      <4>2. Tail(q.todo)[i - 1] = w
        BY <1>3, <3>1, <4>1
      <4>3. QED
        BY <1>3, <1>9, <4>1, <4>2 DEF Waits
    <3>3. CASE i = 1
      <4>1. h = w
        BY <1>2, <3>1, <3>3
      <4>2. h.sid = s /\ h.dist = cs[c].val.dist
        BY <2>1, <4>1
      <4>3. SUFFICES ASSUME c \in NewestIn(cs, s, Len(cs)), PassesIn(cs, q.filter, c)
                     PROVE  \E j \in DOMAIN out : out[j] = e
        BY <1>9 DEF WasFound
      <4>4. c \in F
        BY <2>1, <4>2, <4>3 DEF F, FoundIn, LiveIn, h
      <4>5. out = Append(q.out, e)
        BY <1>4, <1>5, <4>2, <4>4
      <4>6. e \in Ranked
        BY <1>7, <4>2, <4>4
      <4> HIDE DEF e
      <4>7. k + 1 \in DOMAIN out /\ out[k + 1] = e
        BY <1>1, <4>5, <4>6 DEF k
      <4>8. QED
        BY <4>7
    <3>4. QED
      BY <3>2, <3>3
  <2>7. QED
    BY <2>2, <2>3, <2>5, <2>6
<1>14. QED
  BY <1>9, <1>10, <1>11, <1>12, <1>13 DEF Known
-----------------------------------------------------------------------------
(* The result *)

(* What comes nearest first stays as it is when it is sorted.                    *)
LEMMA SortedStays ==
  ASSUME NEW out \in Seq(Ranked),
         \A i, j \in DOMAIN out : i < j => out[i].dist <= out[j].dist
  PROVE  ByDistance(out) = out
<1> DEFINE n == Len(out)
           before(i) == {j \in DOMAIN out : \/ out[j].dist < out[i].dist
                                            \/ out[j].dist = out[i].dist /\ j < i}
<1>1. n \in Nat /\ DOMAIN out = 1 .. n /\ \A i \in 1 .. n : out[i].dist \in Nat
  <2>1. \A i \in DOMAIN out : out[i] \in Ranked
    OBVIOUS
  <2>2. QED
    BY <2>1 DEF Ranked
<1>2. ASSUME NEW i \in 1 .. n PROVE Cardinality(before(i)) = i - 1
  <2>1. before(i) = 1 .. i - 1
    <3>1. ASSUME NEW j \in 1 .. n PROVE j \in before(i) <=> j < i
      <4>1. out[j].dist \in Nat /\ out[i].dist \in Nat /\ i \in Nat /\ j \in Nat
        BY <1>1
      <4>2. /\ j < i => out[j].dist <= out[i].dist
            /\ i < j => out[i].dist <= out[j].dist
        BY <1>1
      <4>3. j \in before(i) <=> (out[j].dist < out[i].dist
                                   \/ (out[j].dist = out[i].dist /\ j < i))
        BY <1>1
      <4> HIDE DEF before
      <4>4. CASE i = j
        BY <4>1, <4>3, <4>4
      <4>5. CASE i # j
        <5> DEFINE di == out[i].dist
                   dj == out[j].dist
        <5> HIDE DEF di, dj
        <5>1. /\ di \in Nat /\ dj \in Nat /\ (j < i => dj <= di) /\ (i < j => di <= dj)
              /\ (j \in before(i) <=> (dj < di \/ (dj = di /\ j < i)))
          BY <4>1, <4>2, <4>3 DEF di, dj
        <5>2. QED
          BY <4>1, <4>5, <5>1
      <4>6. QED
        BY <4>4, <4>5
    <3>2. before(i) \subseteq 1 .. n
      BY <1>1
    <3> HIDE DEF before
    <3>3. \A j \in 1 .. n : j \in 1 .. i - 1 <=> j < i
      BY <1>1
    <3>4. 1 .. i - 1 \subseteq 1 .. n
      BY <1>1
    <3>5. QED
      BY <3>1, <3>2, <3>3, <3>4
  <2>2. Cardinality(1 .. i - 1) = i - 1
    <3>1. 1 \in Int /\ i - 1 \in Int /\ i \in Int /\ i >= 1
      BY <1>1
    <3>2. Cardinality(1 .. i - 1) = IF 1 > i - 1 THEN 0 ELSE (i - 1) - 1 + 1
      BY <3>1, FS_Interval
    <3>3. QED
      BY <3>1, <3>2
  <2>3. QED
    BY <2>1, <2>2
<1>3. \A p \in 1 .. n : (CHOOSE i \in DOMAIN out : Cardinality(before(i)) = p - 1) = p
  <2> SUFFICES ASSUME NEW p \in 1 .. n
               PROVE  (CHOOSE i \in DOMAIN out : Cardinality(before(i)) = p - 1) = p
    OBVIOUS
  <2> HIDE DEF before
  <2>1. \A i \in 1 .. n : Cardinality(before(i)) = p - 1 <=> i = p
    BY <1>1, <1>2
  <2>2. QED
    BY <1>1, <2>1
<1>4. ByDistance(out) = [p \in DOMAIN out |->
                           out[CHOOSE i \in DOMAIN out : Cardinality(before(i)) = p - 1]]
  BY DEF ByDistance
<1>5. ByDistance(out) = [p \in DOMAIN out |-> out[p]]
  <2> HIDE DEF before
  <2>1. QED
    BY <1>1, <1>3, <1>4
<1>6. QED
  BY <1>5

(* The first k of what was found.                                             *)
LEMMA TopKOfSorted ==
  ASSUME NEW out \in Seq(Ranked), NEW k \in Nat,
         \A i, j \in DOMAIN out : i < j => out[i].dist <= out[j].dist
  PROVE  /\ TopK(out, k) \in Seq(Ranked)
         /\ Len(TopK(out, k)) = IF Len(out) <= k THEN Len(out) ELSE k
         /\ \A i \in DOMAIN TopK(out, k) : i \in DOMAIN out /\ TopK(out, k)[i] = out[i]
<1> DEFINE n == Len(out)
           m == Min({n, k})
<1>1. n \in Nat /\ DOMAIN out = 1 .. n
  OBVIOUS
<1>2. TopK(out, k) = SubSeq(out, 1, m)
  BY SortedStays DEF TopK
<1>3. m = IF n <= k THEN n ELSE k
  <2> HIDE DEF n
  <2>1. QED
    BY <1>1, MinMaxOfTwo
<1>4. m \in 0 .. n
  BY <1>1, <1>3
<1> HIDE DEF m
<1>5. /\ SubSeq(out, 1, m) \in Seq(Ranked) /\ Len(SubSeq(out, 1, m)) = m
      /\ DOMAIN SubSeq(out, 1, m) = 1 .. m
      /\ \A i \in 1 .. m : i \in DOMAIN out /\ SubSeq(out, 1, m)[i] = out[i]
  BY <1>1, <1>4
<1>6. QED
  BY <1>2, <1>3, <1>5

(* A result keeps what is known of its query when nothing is left to join.        *)
LEMMA FinishKnows ==
  ASSUME NEW cs \in Seq(Commits), Len(cs) <= MaxCommits, NEW q \in Query, q.at = "join",
         q.todo = <<>>, Known(cs, q), NEW res,
         res = [filter |-> q.filter, k |-> q.k, since |-> q.since, upto |-> Len(cs),
                fetch |-> q.fetch, indexed |-> q.indexed, ranked |-> TopK(q.out, q.k)]
  PROVE  res \in Result /\ ResultKnown(cs, res)
<1> DEFINE n == Len(q.out)
           ranked == TopK(q.out, q.k)
<1>1. /\ q.out \in Seq(Ranked) /\ q.k \in Nat /\ n \in Nat /\ DOMAIN q.out = 1 .. n
      /\ Len(cs) \in Nat /\ Len(cs) \in 0 .. MaxCommits
  BY StagedQueryAssumption DEF Query
<1>2. \A i, j \in DOMAIN q.out : i < j => q.out[i].dist <= q.out[j].dist
  BY DEF Known, NearestFirst
<1>3. /\ ranked \in Seq(Ranked) /\ Len(ranked) = IF n <= q.k THEN n ELSE q.k
      /\ \A i \in DOMAIN ranked : i \in DOMAIN q.out /\ ranked[i] = q.out[i]
  BY <1>1, <1>2, TopKOfSorted
<1> HIDE DEF ranked
<1>4. res = [filter |-> q.filter, k |-> q.k, since |-> q.since, upto |-> Len(cs),
             fetch |-> q.fetch, indexed |-> q.indexed, ranked |-> ranked]
  BY DEF ranked
<1>5. res \in Result
  BY <1>1, <1>3, <1>4 DEF Query, Result
<1>6. /\ res.filter = q.filter /\ res.k = q.k /\ res.since = q.since /\ res.upto = Len(cs)
      /\ res.fetch = q.fetch /\ res.indexed = q.indexed /\ res.ranked = ranked
  BY <1>4
<1>7. \A i \in DOMAIN ranked : FreshBy(cs, q.filter, q.since, Len(cs), ranked[i].commit)
  BY <1>3 DEF Known
<1>8. ASSUME NEW s \in Sids, NEW c \in LiveIn(cs, s, q.indexed),
             c \in NewestIn(cs, s, Len(cs)), PassesIn(cs, q.filter, c),
             \A i \in DOMAIN ranked : ranked[i].commit # c
      PROVE  \/ /\ Len(ranked) = q.k
                /\ \A i \in DOMAIN ranked : ranked[i].dist <= cs[c].val.dist
             \/ Crowded(cs, res, c)
  <2>1. Waits(cs, q, c) \/ WasFound(cs, q, s, c) \/ Crowded(cs, q, c)
    BY <1>8 DEF Known
  <2>2. ~ Waits(cs, q, c)
    BY DEF Waits
  <2>3. CASE Crowded(cs, q, c)
    BY <1>6, <2>3 DEF Crowded
  <2>4. CASE WasFound(cs, q, s, c)
    <3>1. PICK j \in DOMAIN q.out : q.out[j] = [commit |-> c, dist |-> cs[c].val.dist]
      BY <1>8, <2>4 DEF WasFound
    <3>2. q.out[j].commit = c /\ q.out[j].dist = cs[c].val.dist
      BY <3>1
    <3>3. j \notin DOMAIN ranked
      BY <1>3, <1>8, <3>2
    <3>4. DOMAIN ranked = 1 .. Len(ranked) /\ j \in 1 .. n
      BY <1>1, <1>3
    <3>5. Len(ranked) = q.k /\ q.k < j
      <4> HIDE DEF n
      <4>1. QED
        BY <1>1, <1>3, <3>3, <3>4
    <3>6. ASSUME NEW i \in DOMAIN ranked PROVE ranked[i].dist <= cs[c].val.dist
      <4>1. i < j
        <5> HIDE DEF n
        <5>1. QED
          BY <1>1, <3>4, <3>5
      <4>2. QED
        BY <1>2, <1>3, <3>2, <4>1
    <3>7. QED
      BY <3>5, <3>6
  <2>5. QED
    BY <2>1, <2>2, <2>3, <2>4
<1>9. q.since <= Len(cs) /\ q.indexed <= Len(cs) /\ Len(cs) <= Len(cs)
  BY <1>1 DEF Known
<1>10. /\ Len(ranked) <= q.k
       /\ \A i, j \in DOMAIN ranked : i < j => ranked[i].dist <= ranked[j].dist
  <2>1. Len(ranked) <= q.k
    <3> HIDE DEF n
    <3>1. QED
      BY <1>1, <1>3
  <2>2. QED
    BY <1>2, <1>3, <2>1
<1>11. QED
  BY <1>5, <1>6, <1>7, <1>8, <1>9, <1>10 DEF ResultKnown
-----------------------------------------------------------------------------
(* The steps of the engine *)

(* The plan asks for a number of candidates, whatever was counted.                *)
LEMMA FetchIsNumber ==
  ASSUME counts \in [Cats -> Nat], NEW filter \in Filters
  PROVE  OverFetch(Selectivity(filter)) \in Nat
<1> DEFINE sel == Selectivity(filter)
           a == Margin * sel.of + 10 * sel.by - 1
           d == 10 * sel.by
<1>1. Total \in Nat
  <2>1. IsFiniteSet(Cats) /\ Weighs(counts, Cats)
    BY StagedQueryAssumption DEF Weighs
  <2>2. QED
    BY <2>1, SumLaws DEF Total
<1>2. sel.by \in Nat \ {0} /\ sel.of \in Nat
  <2>1. CASE filter = AnyCat
    BY <2>1 DEF Selectivity, Counted
  <2>2. CASE filter # AnyCat /\ (filter \in Tags \/ Total = 0)
    BY <2>2 DEF Selectivity, Counted
  <2>3. CASE /\ filter # AnyCat /\ filter \notin Tags
             /\ Total # 0 /\ counts[filter] = 0
    BY <2>3 DEF Selectivity, Counted
  <2>4. CASE /\ filter # AnyCat /\ filter \notin Tags
             /\ Total # 0 /\ counts[filter] # 0
    <3>1. sel = [by |-> counts[filter], of |-> Total]
      BY <2>4 DEF Selectivity, Counted
    <3>2. counts[filter] \in Nat \ {0}
      BY <2>4 DEF Filters
    <3> HIDE DEF sel
    <3>3. QED
      BY <1>1, <3>1, <3>2
  <2>5. QED
    BY <2>1, <2>2, <2>3, <2>4
<1>3. Margin \in Nat
  BY StagedQueryAssumption
<1> HIDE DEF sel
<1>4. a \in Nat /\ d \in Nat \ {0}
  <2> DEFINE x == Margin * sel.of
             y == sel.by
  <2>1. x \in Nat /\ y \in Nat \ {0}
    BY <1>2, <1>3
  <2> HIDE DEF x, y
  <2>2. x + 10 * y - 1 \in Nat /\ 10 * y \in Nat \ {0}
    BY <2>1
  <2>3. QED
    BY <2>2 DEF x, y
<1>5. a \div d \in Nat
  <2> HIDE DEF a, d
  <2>1. QED
    BY <1>4, Division
<1>6. OverFetch(sel) = Min({4096, a \div d})
  BY DEF OverFetch, MaxOverFetch
<1> HIDE DEF a, d
<1> DEFINE w == a \div d
<1> HIDE DEF w
<1>7. Min({4096, w}) \in Nat
  <2>1. w \in Nat /\ 4096 \in Nat
    BY <1>5 DEF w
  <2>2. Min({4096, w}) = IF 4096 <= w THEN 4096 ELSE w
    BY <2>1, MinMaxOfTwo
  <2>3. QED
    BY <2>1, <2>2
<1>8. QED
  BY <1>6, <1>7 DEF w, sel

LEMMA InitKnows ==
  ASSUME Init
  PROVE  QueryInv
<1>1. /\ commits = Recovered /\ applied = Len(Recovered)
      /\ counts = [c \in Cats |-> 0] /\ writing = [w \in Writers |-> None]
      /\ query = [t \in Threads |-> Idle] /\ results = <<>>
      /\ storing = [t \in Threads |-> Cache!Free] /\ queries = 0 /\ handles = {} /\ answers = {}
  BY DEF Init, Cache!Init
<1>2. Recovered \in Seq(Commits) /\ Len(Recovered) \in Nat /\ Len(Recovered) <= MaxCommits
  BY StagedQueryAssumption DEF Commits
<1>3. Idle \in Query
  BY StagedQueryAssumption DEF Idle, Query, Filters
<1>4. EngineTyped
  BY <1>1, <1>2, <1>3 DEF EngineTyped
<1>5. CacheTyped
  <2>1. MaxQueries \in Nat
    BY CacheAssumption DEF Cache!ContinuationsAssumption
  <2>2. QED
    BY <1>1, <2>1 DEF CacheTyped, Cache!Free
<1>6. Known(Recovered, Idle)
  BY <1>2 DEF Known, Idle, NearestFirst
<1>7. QED
  BY <1>1, <1>4, <1>5, <1>6 DEF QueryInv, QueriesKnown

(* A commit of the writer or a deletion.                                        *)
LEMMA CommitKnows ==
  ASSUME QueryInv, NEW e \in Commits, commits' = Append(commits, e), Len(commits) < MaxCommits,
         UNCHANGED <<applied, counts, query, results, cacheVars>>,
         writing' \in [Writers -> Commits \union {None}]
  PROVE  QueryInv'
<1>1. /\ commits \in Seq(Commits) /\ Len(commits) \in Nat /\ applied \in 0 .. Len(commits)
      /\ query \in [Threads -> Query] /\ results \in Seq(Result)
  BY DEF QueryInv, EngineTyped
<1>2. commits' \in Seq(Commits) /\ Len(commits') = Len(commits) + 1
  BY <1>1
<1>3. EngineTyped'
  <2>1. Len(commits') <= MaxCommits
    BY <1>1, <1>2, StagedQueryAssumption
  <2>2. applied' \in 0 .. Len(commits')
    BY <1>1, <1>2
  <2>3. QED
    BY <1>2, <2>1, <2>2 DEF QueryInv, EngineTyped, cacheVars
<1>4. CacheTyped'
  BY DEF QueryInv, CacheTyped, cacheVars
<1>5. \A t \in Threads : Known(commits', query'[t])
  BY <1>1, KnownStays DEF QueryInv, QueriesKnown
<1>6. \A n \in DOMAIN results' : ResultKnown(commits', results'[n])
  BY <1>1, ResultStays DEF QueryInv, QueriesKnown
<1>7. QED
  BY <1>3, <1>4, <1>5, <1>6 DEF QueryInv, QueriesKnown

(* A thread's query moves on.                                                 *)
LEMMA QueryKnows ==
  ASSUME QueryInv, NEW t \in Threads, NEW p \in Query, Known(commits, p),
         query' = [query EXCEPT ![t] = p],
         UNCHANGED <<commits, applied, counts, writing, results, cacheVars>>
  PROVE  QueryInv'
<1>1. query \in [Threads -> Query]
  BY DEF QueryInv, EngineTyped
<1>2. /\ query' \in [Threads -> Query] /\ query'[t] = p
      /\ \A u \in Threads : u # t => query'[u] = query[u]
  BY <1>1
<1>3. EngineTyped' /\ CacheTyped'
  BY <1>2 DEF QueryInv, EngineTyped, CacheTyped, cacheVars
<1>4. QueriesKnown'
  <2>1. \A u \in Threads : Known(commits', query'[u])
    BY <1>2 DEF QueryInv, QueriesKnown
  <2>2. QED
    BY <2>1 DEF QueryInv, QueriesKnown
<1>5. QED
  BY <1>3, <1>4 DEF QueryInv

(* The search of a thread.                                                    *)
LEMMA SearchStep ==
  ASSUME QueryInv, NEW t \in Threads, Search(t)
  PROVE  QueryInv'
<1> DEFINE q == query[t]
<1>1. /\ q.at = "search" /\ query \in [Threads -> Query] /\ q \in Query
      /\ UNCHANGED <<commits, applied, counts, writing, results, cacheVars>>
  BY DEF Search, QueryInv, EngineTyped
<1>2. /\ commits \in Seq(Commits) /\ applied \in Nat /\ applied <= Len(commits)
      /\ applied <= MaxCommits /\ Known(commits, q)
  <2>1. /\ commits \in Seq(Commits) /\ applied \in 0 .. Len(commits)
        /\ Len(commits) \in Nat /\ Len(commits) <= MaxCommits /\ Known(commits, q)
    BY DEF QueryInv, EngineTyped, QueriesKnown
  <2>2. QED
    BY <2>1, StagedQueryAssumption
<1>3. PICK r \in Rankings :
        query' = [query EXCEPT
          ![t].at = "join", ![t].indexed = applied,
          ![t].todo = [i \in 1 .. Min({Len(r), query[t].fetch}) |->
                         [sid |-> commits[r[i]].sid, dist |-> DistOf(r[i])]]]
  BY DEF Search
<1> DEFINE todo == Candidates(commits, r, Min({Len(r), q.fetch}))
           p == [q EXCEPT !.at = "join", !.indexed = applied, !.todo = todo]
<1>4. query' = [query EXCEPT ![t] = p]
  <2>1. todo = [i \in 1 .. Min({Len(r), query[t].fetch}) |->
                  [sid |-> commits[r[i]].sid, dist |-> DistOf(r[i])]]
    BY DEF Candidates, DistOf
  <2> HIDE DEF todo
  <2>2. query' = [query EXCEPT ![t].at = "join", ![t].indexed = applied, ![t].todo = todo]
    BY <1>3, <2>1
  <2>3. QED
    BY <1>1, <2>2
<1>5. r \in RankingsIn(commits, applied)
  BY RankingsSeen
<1> HIDE DEF q
<1>6. p \in Query /\ Known(commits, p)
  BY <1>1, <1>2, <1>5, SearchKnows
<1> HIDE DEF p
<1>7. QED
  BY <1>1, <1>4, <1>6, QueryKnows

(* The join of a candidate.                                                   *)
LEMMA JoinStep ==
  ASSUME QueryInv, NEW t \in Threads, Join(t)
  PROVE  QueryInv'
<1> DEFINE q == query[t]
           F == FoundIn(commits, q)
           p == [q EXCEPT !.todo = Tail(@),
                          !.out = @ \o [n \in 1 .. Cardinality(F) |->
                                         [commit |-> CHOOSE i \in F : TRUE,
                                          dist |-> Head(q.todo).dist]]]
<1>1. /\ q.at = "join" /\ q.todo # <<>> /\ query \in [Threads -> Query] /\ q \in Query
      /\ UNCHANGED <<commits, applied, counts, writing, results, cacheVars>>
  BY DEF Join, QueryInv, EngineTyped
<1>2. commits \in Seq(Commits) /\ Len(commits) <= MaxCommits /\ Known(commits, q)
  BY DEF QueryInv, EngineTyped, QueriesKnown
<1>3. F = {i \in LiveOf(Head(query[t].todo).sid, Len(commits)) : Passes(query[t].filter, i)}
  BY CommitsSeen DEF FoundIn
<1>4. query' = [query EXCEPT ![t] = p]
  <2> HIDE DEF F
  <2>1. query' = [query EXCEPT
          ![t].todo = Tail(@),
          ![t].out = @ \o [n \in 1 .. Cardinality(F) |->
                             [commit |-> CHOOSE i \in F : TRUE, dist |-> Head(query[t].todo).dist]]]
    BY <1>3 DEF Join
  <2> DEFINE hits == [n \in 1 .. Cardinality(F) |->
                        [commit |-> CHOOSE i \in F : TRUE, dist |-> Head(query[t].todo).dist]]
  <2>2. query' = [query EXCEPT ![t].todo = Tail(@), ![t].out = @ \o hits]
    BY <2>1
  <2>3. p = [q EXCEPT !.todo = Tail(@), !.out = @ \o hits]
    OBVIOUS
  <2> HIDE DEF hits, p
  <2>4. QED
    BY <1>1, <2>2, <2>3
<1> HIDE DEF q
<1>5. p \in Query /\ Known(commits, p)
  BY <1>1, <1>2, JoinKnows
<1> HIDE DEF p
<1>6. QED
  BY <1>1, <1>4, <1>5, QueryKnows

(* A thread has its result.                                                   *)
LEMMA FinishStep ==
  ASSUME QueryInv, NEW t \in Threads, Finish(t), storing \in [Threads -> [id : Nat, result : Nat]]
  PROVE  QueryInv'
<1> DEFINE q == query[t]
           res == [filter |-> q.filter, k |-> q.k, since |-> q.since, upto |-> Len(commits),
                   fetch |-> q.fetch, indexed |-> q.indexed, ranked |-> TopK(q.out, q.k)]
<1>1. /\ q.at = "join" /\ q.todo = <<>> /\ query \in [Threads -> Query] /\ q \in Query
      /\ results' = Append(results, res) /\ query' = [query EXCEPT ![t] = Idle]
      /\ UNCHANGED <<commits, applied, counts, writing>>
  BY DEF Finish, QueryInv, EngineTyped
<1>2. /\ commits \in Seq(Commits) /\ Len(commits) <= MaxCommits /\ Known(commits, q)
      /\ results \in Seq(Result) /\ Len(results) = queries
  BY DEF QueryInv, EngineTyped, QueriesKnown
<1>3. res \in Result /\ ResultKnown(commits, res)
  <2> HIDE DEF q
  <2>1. QED
    BY <1>1, <1>2, FinishKnows
<1> HIDE DEF res
<1>4. /\ storing[t] = Cache!Free /\ queries < MaxQueries /\ queries' = queries + 1
      /\ storing' = [storing EXCEPT ![t].result = queries']
      /\ UNCHANGED <<next, map, handles, inserted, answers>>
  BY DEF Finish, Cache!QueryStaged
<1>5. queries \in Nat /\ MaxQueries \in Nat
  BY CacheAssumption DEF QueryInv, CacheTyped, Cache!ContinuationsAssumption
<1>6. Idle \in Query /\ Known(commits, Idle)
  <2>1. Idle \in Query
    BY StagedQueryAssumption DEF Idle, Query, Filters
  <2>2. Known(commits, Idle)
    BY <1>2 DEF Known, Idle, NearestFirst
  <2>3. QED
    BY <2>1, <2>2
<1>7. /\ query' \in [Threads -> Query] /\ query'[t] = Idle
      /\ \A u \in Threads : u # t => query'[u] = query[u]
  BY <1>1, <1>6
<1>8. /\ results' \in Seq(Result) /\ Len(results') = Len(results) + 1
      /\ \A n \in DOMAIN results' :
           (n \in DOMAIN results /\ results'[n] = results[n]) \/ results'[n] = res
  BY <1>1, <1>2, <1>3
<1>9. EngineTyped'
  BY <1>1, <1>2, <1>4, <1>7, <1>8 DEF QueryInv, EngineTyped
<1>10. CacheTyped'
  <2>1. queries' \in 0 .. MaxQueries /\ queries' # 0
    BY <1>4, <1>5
  <2>2. /\ storing'[t].id = 0 /\ storing'[t].result = queries'
        /\ \A u \in Threads : u # t => storing'[u] = storing[u]
    BY <1>4 DEF Cache!Free
  <2>3. \A n \in 0 .. queries : n \in 0 .. queries'
    BY <1>4, <1>5
  <2>4. ASSUME NEW u \in Threads
        PROVE  /\ storing'[u].result \in 0 .. queries'
               /\ storing'[u].id # 0 => storing'[u].result # 0
    <3>1. CASE u = t
      BY <2>1, <2>2, <3>1
    <3>2. CASE u # t
      BY <2>2, <2>3, <3>2 DEF QueryInv, CacheTyped
    <3>3. QED
      BY <3>1, <3>2
  <2>5. QED
    BY <1>4, <2>1, <2>4 DEF QueryInv, CacheTyped
<1>11. \A u \in Threads : Known(commits', query'[u])
  BY <1>1, <1>6, <1>7 DEF QueryInv, QueriesKnown
<1>12. \A n \in DOMAIN results' : ResultKnown(commits', results'[n])
  BY <1>1, <1>3, <1>8 DEF QueryInv, QueriesKnown
<1>13. QED
  BY <1>9, <1>10, <1>11, <1>12 DEF QueryInv, QueriesKnown
-----------------------------------------------------------------------------
(* What is known of the queries holds in every behaviour *)

(* A handle is taken, a result stored, a handle drilled.                         *)
LEMMA CacheStep ==
  ASSUME QueryInv, CacheInv,
         (\E t \in Threads : Cache!TakeId(t) \/ Cache!Store(t)) \/ Cache!Drill,
         UNCHANGED engineVars
  PROVE  QueryInv'
<1>1. /\ storing \in [Threads -> [id : Nat, result : Nat]] /\ next \in Nat \ {0}
      /\ map \subseteq handles
      /\ UNCHANGED <<commits, applied, counts, writing, query, results>>
  BY DEF CacheInv, HandleType, engineVars
<1>2. /\ queries \in 0 .. MaxQueries /\ MaxQueries \in Nat
      /\ \A t \in Threads : /\ storing[t].result \in 0 .. queries
                            /\ storing[t].id # 0 => storing[t].result # 0
      /\ handles \subseteq Cache!Entry
      /\ answers \subseteq [id : Nat, results : SUBSET Cache!Results]
  BY CacheAssumption DEF QueryInv, CacheTyped, Cache!ContinuationsAssumption
<1>3. ASSUME queries' = queries PROVE EngineTyped' /\ QueriesKnown'
  BY <1>1, <1>3 DEF QueryInv, EngineTyped, QueriesKnown
<1>4. ASSUME NEW t \in Threads, Cache!TakeId(t) PROVE CacheTyped' /\ queries' = queries
  <2>1. /\ storing[t].result # 0 /\ storing' = [storing EXCEPT ![t].id = next]
        /\ UNCHANGED <<map, queries, handles, inserted, answers>>
    BY <1>4 DEF Cache!TakeId
  <2>2. \A u \in Threads : /\ storing'[u].result = storing[u].result
                           /\ u # t => storing'[u].id = storing[u].id
    BY <1>1, <2>1
  <2>3. QED
    BY <1>2, <2>1, <2>2 DEF CacheTyped
<1>5. ASSUME NEW t \in Threads, Cache!Store(t) PROVE CacheTyped' /\ queries' = queries
  <2>1. /\ storing[t].id # 0 /\ handles' = handles \union {storing[t]}
        /\ storing' = [storing EXCEPT ![t] = Cache!Free]
        /\ UNCHANGED <<next, queries, answers>>
    BY <1>5 DEF Cache!Store
  <2>2. storing[t] \in Cache!Entry
    <3>1. storing[t] \in [id : Nat, result : Nat]
      BY <1>1
    <3>2. storing[t].id \in Nat \ {0} /\ storing[t].result \in 1 .. MaxQueries
      BY <1>2, <2>1, <3>1
    <3>3. QED
      BY <3>1, <3>2 DEF Cache!Entry, Cache!Results
  <2>3. \A u \in Threads : storing'[u] = IF u = t THEN Cache!Free ELSE storing[u]
    BY <1>1, <2>1
  <2>4. ASSUME NEW u \in Threads
        PROVE  /\ storing'[u].result \in 0 .. queries
               /\ storing'[u].id # 0 => storing'[u].result # 0
    <3>1. CASE u = t
      BY <1>2, <2>3, <3>1 DEF Cache!Free
    <3>2. CASE u # t
      BY <1>2, <2>3, <3>2
    <3>3. QED
      BY <3>1, <3>2
  <2>5. QED
    BY <1>2, <2>1, <2>2, <2>4 DEF CacheTyped
<1>6. ASSUME Cache!Drill PROVE CacheTyped' /\ queries' = queries
  <2>1. PICK h \in handles :
          answers' = {[id |-> h.id, results |-> {e.result : e \in {f \in map : f.id = h.id}}]}
    BY <1>6 DEF Cache!Drill
  <2>2. UNCHANGED <<next, map, storing, queries, handles, inserted>>
    BY <1>6 DEF Cache!Drill
  <2>3. answers' \subseteq [id : Nat, results : SUBSET Cache!Results]
    <3>1. h.id \in Nat
      BY <1>2 DEF Cache!Entry
    <3>2. \A e \in map : e.result \in Cache!Results
      BY <1>1, <1>2 DEF Cache!Entry
    <3>3. {e.result : e \in {f \in map : f.id = h.id}} \in SUBSET Cache!Results
      BY <3>2
    <3>4. QED
      BY <2>1, <3>1, <3>3
  <2>4. QED
    BY <1>2, <2>2, <2>3 DEF CacheTyped
<1>7. QED
  BY <1>3, <1>4, <1>5, <1>6 DEF QueryInv

LEMMA StepKnows ==
  ASSUME QueryInv, CacheInv, Next
  PROVE  QueryInv'
<1> USE DEF QueryInv
<1>1. /\ commits \in Seq(Commits) /\ counts \in [Cats -> Nat] /\ query \in [Threads -> Query]
      /\ writing \in [Writers -> Commits \union {None}]
  BY DEF EngineTyped
<1>2. ASSUME NEW w \in Writers, Observe(w) PROVE QueryInv'
  <2>1. PICK p \in Puts : /\ writing' = [writing EXCEPT ![w] = p]
                          /\ counts' = [counts EXCEPT ![p.val.cat] = @ + 1]
    BY <1>2 DEF Observe
  <2>2. p \in Commits /\ p.val.cat \in Cats
    BY StagedQueryAssumption DEF Commits
  <2>3. counts' \in [Cats -> Nat] /\ writing' \in [Writers -> Commits \union {None}]
    BY <1>1, <2>1, <2>2
  <2>4. UNCHANGED <<commits, applied, query, results, cacheVars>>
    BY <1>2 DEF Observe
  <2>5. EngineTyped'
    BY <2>3, <2>4 DEF EngineTyped, cacheVars
  <2>6. CacheTyped' /\ QueriesKnown'
    BY <2>4 DEF CacheTyped, QueriesKnown, cacheVars
  <2>7. QED
    BY <2>5, <2>6
<1>3. ASSUME NEW w \in Writers, Commit(w) PROVE QueryInv'
  <2>1. writing[w] \in Commits
    BY <1>1, <1>3 DEF Commit
  <2>2. writing' \in [Writers -> Commits \union {None}]
    BY <1>1, <1>3 DEF Commit
  <2> HIDE DEF QueryInv
  <2>3. QED
    BY <1>3, <2>1, <2>2, CommitKnows DEF Commit
<1>4. ASSUME NEW w \in Writers, CommitNothing(w) PROVE QueryInv'
  <2>1. writing' \in [Writers -> Commits \union {None}]
    BY <1>1, <1>4 DEF CommitNothing
  <2>2. UNCHANGED <<commits, applied, counts, query, results, cacheVars>>
    BY <1>4 DEF CommitNothing
  <2>3. EngineTyped'
    BY <2>1, <2>2 DEF EngineTyped, cacheVars
  <2>4. CacheTyped' /\ QueriesKnown'
    BY <2>2 DEF CacheTyped, QueriesKnown, cacheVars
  <2>5. QED
    BY <2>3, <2>4
<1>5. ASSUME NEW w \in Writers, Delete(w) PROVE QueryInv'
  <2>1. PICK s \in Deletes : commits' = Append(commits, [sid |-> s, val |-> Tombstone])
    BY <1>5 DEF Delete
  <2> DEFINE e == [sid |-> s, val |-> Tombstone]
  <2>2. e \in Commits
    BY StagedQueryAssumption DEF Commits
  <2>3. commits' = Append(commits, e)
    BY <2>1
  <2>4. writing' \in [Writers -> Commits \union {None}] /\ Len(commits) < MaxCommits
        /\ UNCHANGED <<applied, counts, query, results, cacheVars>>
    BY <1>1, <1>5 DEF Delete
  <2> HIDE DEF e, QueryInv
  <2>5. QED
    BY <2>2, <2>3, <2>4, CommitKnows
<1>6. CASE Materialize
  <2>1. /\ applied' = applied + 1 /\ applied < Len(commits)
        /\ UNCHANGED <<commits, counts, writing, query, results, cacheVars>>
    BY <1>6 DEF Materialize
  <2>2. applied' \in 0 .. Len(commits)
    <3>1. applied \in 0 .. Len(commits) /\ Len(commits) \in Nat
      BY <1>1 DEF EngineTyped
    <3>2. QED
      BY <2>1, <3>1
  <2>3. EngineTyped'
    BY <2>1, <2>2 DEF EngineTyped, cacheVars
  <2>4. CacheTyped' /\ QueriesKnown'
    BY <2>1 DEF CacheTyped, QueriesKnown, cacheVars
  <2>5. QED
    BY <2>3, <2>4
<1>7. ASSUME NEW t \in Threads, Plan(t) PROVE QueryInv'
  <2>1. PICK q \in Asks :
          query' = [query EXCEPT ![t] =
            [Idle EXCEPT !.at = "search", !.filter = q.filter, !.k = q.k,
                         !.since = Len(commits),
                         !.fetch = q.k * OverFetch(Selectivity(q.filter))]]
    BY <1>7 DEF Plan
  <2> DEFINE fetch == q.k * OverFetch(Selectivity(q.filter))
             p == [Idle EXCEPT !.at = "search", !.filter = q.filter, !.k = q.k,
                               !.since = Len(commits), !.fetch = fetch]
  <2>2. q.filter \in Filters /\ q.k \in Nat
    BY StagedQueryAssumption
  <2>3. fetch \in Nat
    <3> DEFINE x == OverFetch(Selectivity(q.filter))
    <3>1. x \in Nat
      BY <1>1, <2>2, FetchIsNumber
    <3> HIDE DEF x
    <3>2. q.k * x \in Nat
      BY <2>2, <3>1
    <3>3. QED
      BY <3>2 DEF x
  <2>4. query' = [query EXCEPT ![t] = p]
    BY <2>1
  <2> HIDE DEF fetch
  <2>5. Len(commits) \in Nat /\ Len(commits) \in 0 .. MaxCommits
    <3>1. Len(commits) \in Nat /\ Len(commits) <= MaxCommits /\ MaxCommits \in Nat
      BY StagedQueryAssumption DEF EngineTyped
    <3>2. QED
      BY <3>1
  <2>6. Idle \in Query
    BY StagedQueryAssumption DEF Idle, Query, Filters
  <2>7. p \in Query
    BY <2>2, <2>3, <2>5, <2>6 DEF Query
  <2>8. Known(commits, p)
    <3>1. /\ p.at = "search" /\ p.since = Len(commits) /\ p.indexed = Idle.indexed
          /\ p.todo = Idle.todo /\ p.out = Idle.out
      BY <2>6 DEF Query
    <3>2. Idle.indexed = 0 /\ Idle.todo = <<>> /\ Idle.out = <<>>
      BY DEF Idle
    <3> HIDE DEF p
    <3>3. QED
      BY <2>5, <3>1, <3>2 DEF Known, NearestFirst
  <2> HIDE DEF p
  <2>9. UNCHANGED <<commits, applied, counts, writing, results, cacheVars>>
    BY <1>7 DEF Plan
  <2> HIDE DEF QueryInv
  <2>10. QED
    BY <2>4, <2>7, <2>8, <2>9, QueryKnows
<1>8. ASSUME NEW t \in Threads, Finish(t) PROVE QueryInv'
  BY <1>8, FinishStep DEF CacheInv, HandleType
<1> HIDE DEF QueryInv
<1>9. ASSUME NEW t \in Threads, Pin(t) PROVE QueryInv'
  BY <1>9, CacheStep DEF Pin
<1>10. CASE Drill
  BY <1>10, CacheStep DEF Drill
<1>11. QED
  BY <1>2, <1>3, <1>4, <1>5, <1>6, <1>7, <1>8, <1>9, <1>10, SearchStep, JoinStep DEF Next

LEMMA QueryInvariance == Spec => []QueryInv
<1>1. Init => QueryInv
  BY InitKnows
<1>2. QueryInv /\ CacheInv /\ [Next]_vars => QueryInv'
  <2> SUFFICES ASSUME QueryInv, CacheInv, [Next]_vars PROVE QueryInv'
    OBVIOUS
  <2>1. CASE Next
    BY <2>1, StepKnows
  <2>2. CASE UNCHANGED vars
    BY <2>2 DEF vars, cacheVars, QueryInv, EngineTyped, CacheTyped, QueriesKnown
  <2>3. QED
    BY <2>1, <2>2
<1>3. QED
  BY <1>1, <1>2, CacheInvariance, PTL DEF Spec

(* The state of the engine and of its cache keeps its types: commits, counts, the  *)
(* queries under way and their results stay within their bounds.                *)
THEOREM QueryTypes == Spec => []TypeOK
<1>1. ASSUME QueryInv, CacheInv PROVE TypeOK
  <2>1. /\ commits \in Seq(Commits) /\ Len(commits) <= MaxCommits /\ applied \in 0 .. Len(commits)
        /\ counts \in [Cats -> Nat] /\ writing \in [Writers -> Commits \union {None}]
        /\ query \in [Threads -> Query] /\ Len(results) = queries
    BY <1>1 DEF QueryInv, EngineTyped
  <2>2. /\ queries \in 0 .. MaxQueries
        /\ \A t \in Threads : storing[t].result \in 0 .. queries
        /\ handles \subseteq Cache!Entry
        /\ answers \subseteq [id : Nat, results : SUBSET Cache!Results]
    BY <1>1 DEF QueryInv, CacheTyped
  <2>3. /\ next \in Nat \ {0} /\ storing \in [Threads -> [id : Nat, result : Nat]]
        /\ map \subseteq handles /\ inserted = {h.id : h \in handles}
        /\ \A h, g \in handles : h.id = g.id => h = g
        /\ Cardinality(map) <= Cap
    BY <1>1 DEF CacheInv, HandleType, HandlesAreUnique, EvictedIsOlder, HeldOf
  <2>4. storing \in [Threads -> [id : Nat, result : Cache!Results \union {0}]]
    <3>1. MaxQueries \in Nat
      BY CacheAssumption DEF Cache!ContinuationsAssumption
    <3>2. \A n \in 0 .. queries : n \in Cache!Results \union {0}
      BY <2>2, <3>1 DEF Cache!Results
    <3>3. \A t \in Threads : storing[t] \in [id : Nat, result : Cache!Results \union {0}]
      BY <2>2, <2>3, <3>2
    <3>4. QED
      BY <2>3, <3>3
  <2>5. inserted \subseteq Nat /\ map \subseteq Cache!Entry
    BY <2>2, <2>3 DEF Cache!Entry
  <2>6. Cache!Cardinality(map) <= Cap
    BY <2>3, CacheCardinality
  <2>7. Cache!TypeOK
    BY <2>2, <2>3, <2>4, <2>5, <2>6 DEF Cache!TypeOK
  <2>8. QED
    BY <2>1, <2>7 DEF TypeOK, Query
<1>2. QED
  BY <1>1, QueryInvariance, CacheInvariance, PTL

(* Whatever the index lags behind and the writers do, a grain returned passes the  *)
(* filter and was live at a moment of the query, and the at most k of an answer    *)
(* come nearest first (near_join_select joins with the truth, sorts, truncates).   *)
THEOREM AnswersStayFresh == Spec => []AnswersAreFresh
<1>1. QueryInv => AnswersAreFresh
  BY CommitsSeen DEF QueryInv, QueriesKnown, ResultKnown, FreshBy, AnswersAreFresh
<1>2. QED
  BY <1>1, QueryInvariance, PTL

(* A grain that matches, was indexed and stays untouched is found, unless k         *)
(* results or all candidates asked for are at least as near (near_join_select,      *)
(* Planner::over_fetch).                                                      *)
THEOREM UntouchedAreFound == Spec => []UntouchedMatchesAreFound
<1>1. ASSUME QueryInv PROVE UntouchedMatchesAreFound
  <2> SUFFICES ASSUME NEW n \in DOMAIN results, NEW s \in Sids,
                      NEW c \in LiveOf(s, results[n].indexed),
                      c \in NewestOf(s, results[n].upto), Passes(results[n].filter, c),
                      c \notin {results[n].ranked[i].commit : i \in DOMAIN results[n].ranked}
               PROVE  \/ /\ Len(results[n].ranked) = results[n].k
                         /\ \A i \in DOMAIN results[n].ranked :
                              results[n].ranked[i].dist <= DistOf(c)
                      \/ Cardinality({u \in Sids : \E i \in LiveOf(u, results[n].indexed) :
                              i # c /\ DistOf(i) <= DistOf(c)}) >= results[n].fetch
    BY DEF UntouchedMatchesAreFound
  <2> DEFINE q == results[n]
  <2>1. ResultKnown(commits, q)
    BY <1>1 DEF QueryInv, QueriesKnown
  <2>2. /\ c \in LiveIn(commits, s, q.indexed) /\ c \in NewestIn(commits, s, q.upto)
        /\ PassesIn(commits, q.filter, c)
    BY CommitsSeen
  <2>3. {u \in Sids : \E i \in LiveOf(u, q.indexed) : i # c /\ DistOf(i) <= DistOf(c)}
          = NearerIn(commits, q.indexed, c)
    BY CommitsSeen DEF NearerIn, DistOf
  <2>4. ~ \E i \in DOMAIN q.ranked : q.ranked[i].commit = c
    OBVIOUS
  <2>5. \/ /\ Len(q.ranked) = q.k
           /\ \A i \in DOMAIN q.ranked : q.ranked[i].dist <= commits[c].val.dist
        \/ Crowded(commits, q, c)
    <3> HIDE DEF q
    <3>1. QED
      BY <2>1, <2>2, <2>4 DEF ResultKnown
  <2>6. QED
    BY <2>3, <2>5 DEF Crowded, DistOf
<1>2. QED
  BY <1>1, QueryInvariance, PTL

(* A summary is as small as was asked for and shows the nearest result, for results *)
(* of any length (build_summary).                                             *)
THEOREM SummariesAreSmall == Spec => []SummaryIsSmall
<1>1. ASSUME QueryInv PROVE SummaryIsSmall
  <2>1. \A n \in DOMAIN results : results[n].ranked \in Seq(Ranked)
    <3>1. results \in Seq(Result)
      BY <1>1 DEF QueryInv, EngineTyped
    <3>2. \A n \in DOMAIN results : results[n] \in Result
      BY <3>1
    <3>3. QED
      BY <3>2 DEF Result
  <2>2. QED
    BY <2>1, SummaryOfAny DEF SummaryIsSmall
<1>2. QED
  BY <1>1, QueryInvariance, PTL
=============================================================================
