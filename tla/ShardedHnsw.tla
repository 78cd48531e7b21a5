------------------------------- MODULE ShardedHnsw -------------------------------
(***************************************************************************)
(* Independent graphs behind one index (vector/sharded.rs): a subject lives in   *)
(* the shard its hash names, writers of the pool lock one shard at a time, and a   *)
(* search asks the shards one after another in any order and merges what they     *)
(* answer.  No lock spans a search, so writes fall between its parts.            *)
(***************************************************************************)
EXTENDS Hnsw

CONSTANTS
  Sids,
  ShardOf,    \* shard_of: subject -> shard, a number from 1
  Positions,  \* vectors
  Levels,     \* levels rand_level may draw
  Queries,    \* what is searched for: [at, k, ef]
  MaxWrites,  \* bound on the writes of a behaviour
  MaxRacing   \* bound on the writes made before or during a search

Shards == {ShardOf[s] : s \in Sids}

ASSUME ShardAssumption ==
  /\ ShardOf \in [Sids -> Nat \ {0}]
  /\ IsFiniteSet(Shards) /\ Shards = 1 .. Cardinality(Shards)
  /\ Positions \subseteq Int /\ Levels \subseteq Nat
  /\ Queries \subseteq [at : Int, k : Nat \ {0}, ef : Nat \ {0}]
  /\ MaxWrites \in Nat /\ MaxRacing \in Nat

VARIABLES
  graphs,   \* shard -> its graph
  query,    \* the search under way: {} or {[at, k, ef]}
  parts,    \* shard -> what it has answered, of the shards that have
  answer,   \* the merged answer: {} or {answer}
  writes,   \* writes made
  vectors,  \* history: what the callers last wrote of each subject
  everHeld,     \* history: the [sid, at] the index held at some moment of the search
  alwaysHeld      \* history: those it has held at every moment of the search

searchVars == <<query, parts, answer>>
shardVars == <<graphs, searchVars, writes, vectors, everHeld, alwaysHeld>>

Held(vs) == {[sid |-> s, at |-> vs[s]] : s \in DOMAIN vs}

ShardInit ==
  /\ graphs = [i \in Shards |-> EmptyGraph]
  /\ query = {} /\ parts = <<>> /\ answer = {}
  /\ writes = 0
  /\ vectors = <<>>
  /\ everHeld = {} /\ alwaysHeld = {}

-----------------------------------------------------------------------------
(* insert, remove *)

MayWrite ==
  /\ writes < (IF query = {} THEN MaxWrites ELSE MaxRacing)
  /\ answer = {}
  /\ writes' = writes + 1

Remembered ==
  /\ everHeld' = IF query = {} THEN {} ELSE everHeld \union Held(vectors')
  /\ alwaysHeld' = alwaysHeld \intersect Held(vectors')

InsertVector(s) ==
  /\ MayWrite
  /\ \E at \in Positions, level \in Levels :
       /\ graphs' = [graphs EXCEPT ![ShardOf[s]] = GraphInsert(@, s, at, level)]
       /\ vectors' = [t \in DOMAIN vectors \union {s} |-> IF t = s THEN at ELSE vectors[t]]
  /\ Remembered
  /\ UNCHANGED searchVars

RemoveVector(s) ==
  /\ MayWrite
  /\ graphs' = [graphs EXCEPT ![ShardOf[s]] = GraphRemove(@, s)]
  /\ vectors' = [t \in DOMAIN vectors \ {s} |-> vectors[t]]
  /\ Remembered
  /\ UNCHANGED searchVars

-----------------------------------------------------------------------------
(* search *)

StartSearch ==
  /\ query = {} /\ writes <= MaxRacing
  /\ \E q \in Queries : query' = {q}
  /\ everHeld' = Held(vectors) /\ alwaysHeld' = Held(vectors)
  /\ UNCHANGED <<graphs, parts, answer, writes, vectors>>

SearchShard(i) ==
  /\ i \notin DOMAIN parts
  /\ \E q \in query :
       parts' = [j \in DOMAIN parts \union {i} |->
                   IF j = i THEN GraphSearch(graphs[i], q.at, q.k, q.ef) ELSE parts[j]]
  /\ UNCHANGED <<graphs, query, answer, writes, vectors, everHeld, alwaysHeld>>

\* The answers are joined and cut, not sorted.
Merged_Unsorted(found, k) == FirstOf(FlattenSeq(found), k)

(* The parts in the order of the shards, sorted by distance (stably), cut at k.  *)
Merged(found, k) ==
  LET all == FlattenSeq(found)
  IN  FirstOf(Sorted(all, [i \in DOMAIN all |-> all[i].dist]), k)

Merge ==
  /\ answer = {}
  /\ DOMAIN parts = Shards
  /\ \E q \in query : answer' = {Merged(parts, q.k)}
  /\ UNCHANGED <<graphs, query, parts, writes, vectors, everHeld, alwaysHeld>>

ReturnAnswer ==
  /\ answer # {}
  /\ query' = {} /\ parts' = <<>> /\ answer' = {}
  /\ everHeld' = {} /\ alwaysHeld' = {}
  /\ UNCHANGED <<graphs, writes, vectors>>

ShardNext ==
  \/ \E s \in Sids : InsertVector(s) \/ RemoveVector(s)
  \/ StartSearch
  \/ \E i \in Shards : SearchShard(i)
  \/ Merge
  \/ ReturnAnswer

ShardSpec == ShardInit /\ [][ShardNext]_shardVars

-----------------------------------------------------------------------------

LinkedProperly(g, n) ==
  \A level \in 0 .. Len(g.nodes[n].links) - 1 :
    LET links == LinksAt(g, n, level)
    IN  /\ Len(links) <= MaxDegree(level)
        /\ IsInjective(links)
        /\ \A b \in ToSet(links) : b # n /\ level < Len(g.nodes[b].links)

(* Each graph stays one a search can walk: the entry is on the top layer, a link    *)
(* joins two nodes of its layer once and in bounded number, even after the prune of *)
(* either end; and its live nodes are the vectors last written to the shard, one    *)
(* for a subject, as len counts them (insert, remove, prune).                   *)
GraphsAreWellFormed ==
  \A i \in Shards :
    LET g == graphs[i]
        mine == {r \in Held(vectors) : ShardOf[r.sid] = i}
    IN  /\ g.entry # 0 => Len(g.nodes[g.entry].links) = g.maxLevel + 1
        /\ \A n \in DOMAIN g.nodes :
             LinkedProperly(g, n) /\ Len(g.nodes[n].links) <= g.maxLevel + 1
        /\ g.live = Cardinality(mine)
        /\ {<<g.nodes[n].sid, g.nodes[n].at>> : n \in Live(g)} = {<<r.sid, r.at>> : r \in mine}
        /\ {g.sidToIdx[s] : s \in DOMAIN g.sidToIdx} = Live(g)

(* The k nearest of the live nodes of R, as a scan of them finds them.          *)
Scan(g, q, k, R) ==
  LET alive == FirstOf(Ascending(g, q, R \intersect Live(g)), k)
  IN  [i \in DOMAIN alive |-> Candidate(g, q, alive[i])]

(* What a shard answers: with a beam that takes in all it can reach, exactly what   *)
(* a scan of the reachable nodes finds, and they are all nodes as long as no list  *)
(* of links was ever cut; with a narrower beam at least as many as the beam's       *)
(* places that the deleted nodes cannot take up (search, search_layer).          *)
AnswersAreNearest ==
  query = {} =>
  \A i \in Shards, q \in Queries :
    LET g == graphs[i]
        R == Reachable(g, q.at)
        found == GraphSearch(g, q.at, q.k, q.ef)
    IN  /\ Len(g.nodes) <= MaxDegree(0) + 1 => R = DOMAIN g.nodes
        /\ Cardinality(R) <= Beam(q.k, q.ef) => found = Scan(g, q.at, q.k, R)
        /\ Len(found) >= Least(q.k, Least(Beam(q.k, q.ef), Cardinality(R))
                                     - Cardinality(R \ Live(g)))

(* Writes fall between the parts of a search, and yet: its answer is in order, has  *)
(* at most k and no subject twice, each of them the index held at some moment; and  *)
(* if no beam or degree was too narrow, a vector that was there all along is missed *)
(* only for k others that are no farther (ShardedHnsw::search).                 *)
StableNeighboursAreFound ==
  \A q \in query, found \in answer :
    /\ Len(found) <= q.k
    /\ \A i, j \in DOMAIN found : i < j =>
         found[i].dist <= found[j].dist /\ found[i].sid # found[j].sid
    /\ \A i \in DOMAIN found :
         \E r \in everHeld : r.sid = found[i].sid /\ found[i].dist = L2Sq(q.at, r.at)
    /\ (\A i \in Shards : Len(graphs[i].nodes) <= Least(Beam(q.k, q.ef), MaxDegree(0) + 1)) =>
         \A r \in alwaysHeld :
           \/ \E i \in DOMAIN found : found[i].sid = r.sid
           \/ Len(found) = q.k /\ found[q.k].dist <= L2Sq(q.at, r.at)

(* A vector once inserted, and not replaced or removed since, is found by a search  *)
(* for it with room for every node (VectorIndex::insert, "Insert or replace the     *)
(* vector for sid").                                                         *)
EveryVectorIsFound ==
  query = {} =>
  \A r \in Held(vectors) :
    LET g == graphs[ShardOf[r.sid]]
        found == GraphSearch(g, r.at, Len(g.nodes), Len(g.nodes))
    IN  \E i \in DOMAIN found : found[i].sid = r.sid

=============================================================================
