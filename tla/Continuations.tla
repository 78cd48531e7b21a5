------------------------------ MODULE Continuations ------------------------------
(***************************************************************************)
(* The continuation cache behind query_staged and drill (disclosure.rs): a   *)
(* bounded map from handle to a pinned result.  A handle is taken from a      *)
(* counter before the lock of the map is; the entry is inserted, and the      *)
(* oldest entries evicted, under the lock.  A result is its owner's number    *)
(* of the query that produced it.                                           *)
(***************************************************************************)
EXTENDS Naturals, FiniteSetsExt

CONSTANTS
  Threads,     \* threads calling query_staged and drill
  Cap,         \* capacity of the cache
  MaxQueries   \* bound on the number of staged queries

(* What is assumed of the constants, by the modules that instantiate this one. *)
ContinuationsAssumption ==
  /\ Cap \in Nat \ {0}
  /\ MaxQueries \in Nat

VARIABLES
  next,      \* the next handle
  map,       \* the cache: a set of [id, result], one per id
  storing,   \* thread -> the result it is storing and the handle it took, 0 before
  queries,   \* how many queries were staged
  handles,   \* history: the handles returned, with the result they stand for
  inserted,  \* history: every id that was inserted
  answers    \* history: what the last drill returned, [id, results]

vars == <<next, map, storing, queries, handles, inserted, answers>>

Results == 1 .. MaxQueries

Entry == [id : Nat \ {0}, result : Results]

Free == [id |-> 0, result |-> 0]

TypeOK ==
  /\ next \in Nat \ {0}
  /\ map \subseteq Entry
  /\ \A e, f \in map : e.id = f.id => e = f
  /\ Cardinality(map) <= Cap
  /\ storing \in [Threads -> [id : Nat, result : Results \union {0}]]
  /\ queries \in 0 .. MaxQueries
  /\ handles \subseteq Entry
  /\ inserted \subseteq Nat
  /\ answers \subseteq [id : Nat, results : SUBSET Results]

Init ==
  /\ next = 1 /\ map = {}
  /\ storing = [t \in Threads |-> Free]
  /\ queries = 0 /\ handles = {} /\ inserted = {} /\ answers = {}

(* The search has produced a result to store. *)
QueryStaged(t) ==
  /\ storing[t] = Free
  /\ queries < MaxQueries
  /\ queries' = queries + 1
  /\ storing' = [storing EXCEPT ![t].result = queries']
  /\ UNCHANGED <<next, map, handles, inserted, answers>>

(* The handle is the number of entries held, plus one. *)
TakeId_FromSize(t) ==
  /\ storing[t].result # 0 /\ storing[t].id = 0
  /\ storing' = [storing EXCEPT ![t].id = Cardinality(map) + 1]
  /\ next' = next + 1
  /\ UNCHANGED <<map, queries, handles, inserted, answers>>

(* fetch_add, outside the lock. *)
TakeId(t) ==
  /\ storing[t].result # 0 /\ storing[t].id = 0
  /\ storing' = [storing EXCEPT ![t].id = next]
  /\ next' = next + 1
  /\ UNCHANGED <<map, queries, handles, inserted, answers>>

(* The last key goes. *)
Evict_Newest(m) ==
  IF Cardinality(m) <= Cap THEN m
  ELSE {e \in m : \E f \in m : e.id < f.id}

(* One entry too many stays. *)
Evict_OneLate(m) ==
  IF Cardinality(m) <= Cap + 1 THEN m
  ELSE {e \in m : \E f \in m : f.id < e.id}

(* Beyond capacity the entry with the smallest key goes; one insert makes at   *)
(* most one too many.                                                       *)
Evict(m) ==
  IF Cardinality(m) <= Cap THEN m
  ELSE {e \in m : \E f \in m : f.id < e.id}

(* insert replaces an entry of the same id; the handle goes to the caller. *)
Store(t) ==
  /\ storing[t].id # 0
  /\ LET e == storing[t]
     IN  /\ map' = Evict({f \in map : f.id # e.id} \union {e})
         /\ handles' = handles \union {e}
         /\ inserted' = inserted \union {e.id}
  /\ storing' = [storing EXCEPT ![t] = Free]
  /\ UNCHANGED <<next, queries, answers>>

(* get_full with any handle that was returned. *)
Drill ==
  /\ \E h \in handles :
       answers' = {[id |-> h.id, results |-> {e.result : e \in {f \in map : f.id = h.id}}]}
  /\ UNCHANGED <<next, map, storing, queries, handles, inserted>>

Next ==
  \/ \E t \in Threads : QueryStaged(t) \/ TakeId(t) \/ Store(t)
  \/ Drill

Spec == Init /\ [][Next]_vars

-----------------------------------------------------------------------------
(* Safety *)

(* A drill returns the result its handle was issued for, or nothing: never     *)
(* the result of another query, however the takers of handles interleave with  *)
(* the inserts (store, get_full).                                            *)
DrillReturnsItsOwnResult ==
  /\ \A h, g \in handles : h.id = g.id => h = g
  /\ \A a \in answers, h \in handles :
       a.id = h.id => a.results \subseteq {h.result}

(* The cache holds exactly the newest ids of all those inserted, even when a    *)
(* slow thread inserts an id older than everything held ("evicts the oldest     *)
(* beyond capacity").                                                        *)
KeepsTheNewest ==
  LET held == {e.id : e \in map}
  IN  /\ held \subseteq inserted
      /\ Cardinality(held) = Min({Cap, Cardinality(inserted)})
      /\ \A i \in inserted \ held, j \in held : i < j

=============================================================================
