-------------------------------- MODULE StagedQuery --------------------------------
(***************************************************************************)
(* Planned and staged queries of the engine (engine.rs, query.rs, planner.rs, *)
(* catalog.rs, disclosure.rs): a query is planned from the category counts,   *)
(* searches the vector index, joins each candidate with the truth as it is    *)
(* then, ranks what passes the filter, and is pinned in the continuation      *)
(* cache (Continuations) for a later drill.  Writers go on meanwhile, and the  *)
(* index lags behind the truth.                                             *)
(*                                                                         *)
(* A commit is its position in `commits`.  The index is the truth as of the    *)
(* first `applied` commits (Materializer shows that for one thread).  A value  *)
(* is its category, what else a filter may look at (a tag: a header byte at      *)
(* another offset), and its distance from the query vector.  The index is the   *)
(* exact one (BruteForceIndex): what a graph misses is statistical.           *)
(***************************************************************************)
EXTENDS Naturals, TLC, SequencesExt

CONSTANTS
  Sids, Cats, Tags,
  Values,       \* the values written: [cat, tag, dist] records
  Tombstone,    \* what a deletion writes
  Recovered,    \* the commits found at opening: [sid, val]
  Puts,         \* the puts made: [sid, val]
  Deletes,      \* the grains deleted
  Asks,         \* the queries: [filter, k]
  AnyCat,
  Reps,         \* how many representatives a summary may have
  Margin,       \* Planner::margin_for the target recall, in tenths
  Writers, Threads, Cap,
  MaxCommits,   \* bound on the number of commits
  MaxPuts,      \* bound on the number of puts since the opening
  MaxQueries    \* bound on the number of queries

(* A filter asks for a category, a tag, or nothing. *)
Filters == Cats \union Tags \union {AnyCat}

ASSUME StagedQueryAssumption ==
  /\ IsFiniteSet(Cats)
  /\ \A v \in Values : v.cat \in Cats /\ v.tag \in Tags /\ v.dist \in Nat
  /\ Tombstone \notin Values /\ AnyCat \notin Cats \union Tags /\ Cats \intersect Tags = {}
  /\ Recovered \in Seq([sid : Sids, val : Values \union {Tombstone}])
  /\ Len(Recovered) <= MaxCommits
  /\ Puts \subseteq [sid : Sids, val : Values] /\ Deletes \subseteq Sids
  /\ Asks \subseteq [filter : Filters, k : Nat] /\ Reps \in Nat
  /\ Margin \in {15, 25, 45, 70, 120}
  /\ MaxCommits \in Nat /\ MaxPuts \in Nat

VARIABLES
  commits,   \* the commits of the truth store, in order
  applied,   \* how many of them the index has seen
  counts,    \* the selectivity catalog: category -> puts observed
  writing,   \* writer -> the put it has observed and not committed yet, or None
  query,     \* thread -> the query it is running
  results,   \* history: query number -> what the query was and what it found
  next, map, storing, queries, handles, inserted, answers  \* see Continuations

Cache == INSTANCE Continuations

ASSUME CacheAssumption == Cache!ContinuationsAssumption

cacheVars == <<next, map, storing, queries, handles, inserted, answers>>
vars == <<commits, applied, counts, writing, query, results, cacheVars>>

Commits == [sid : Sids, val : Values \union {Tombstone}]

None == [sid |-> 0, val |-> Tombstone]

(* A result: the commit found, and the distance of the indexed vector.        *)
Ranked == [commit : 1 .. MaxCommits, dist : Nat]

Idle == [at |-> "idle", filter |-> AnyCat, k |-> 0, since |-> 0, fetch |-> 0,
         indexed |-> 0, todo |-> <<>>, out |-> <<>>]

TypeOK ==
  /\ commits \in Seq(Commits) /\ Len(commits) <= MaxCommits
  /\ applied \in 0 .. Len(commits)
  /\ counts \in [Cats -> Nat]
  /\ writing \in [Writers -> Commits \union {None}]
  /\ query \in [Threads ->
       [at : {"idle", "search", "join"}, filter : Filters,
        k : Nat, since : 0 .. MaxCommits, fetch : Nat,
        indexed : 0 .. MaxCommits, todo : Seq([sid : Sids, dist : Nat]),
        out : Seq(Ranked)]]
  /\ Len(results) = queries
  /\ Cache!TypeOK

(* The store was opened on a log, the index rebuilt; the catalog starts empty. *)
Init ==
  /\ commits = Recovered /\ applied = Len(Recovered)
  /\ counts = [c \in Cats |-> 0]
  /\ writing = [w \in Writers |-> None]
  /\ query = [t \in Threads |-> Idle]
  /\ results = <<>>
  /\ Cache!Init

-----------------------------------------------------------------------------
(* The truth and the index *)

(* The newest of the first n commits of s: one element, or none.              *)
NewestOf(s, n) ==
  LET of == {i \in 1 .. n : commits[i].sid = s}
  IN  {i \in of : \A j \in of : j <= i}

(* What a read finds, or an index of n commits holds: live grains only.        *)
LiveOf(s, n) == {i \in NewestOf(s, n) : commits[i].val # Tombstone}

DistOf(i) == commits[i].val.dist

(* How many puts were counted.                                               *)
Total == SumFunctionOnSet(counts, Cats)

(* put_vector counts the category first.                                     *)
Observe(w) ==
  /\ writing[w] = None
  /\ Len(commits) < MaxCommits /\ Total < MaxPuts
  /\ \E p \in Puts :
       /\ writing' = [writing EXCEPT ![w] = p]
       /\ counts' = [counts EXCEPT ![p.val.cat] = @ + 1]
  /\ UNCHANGED <<commits, applied, query, results, cacheVars>>

Commit(w) ==
  /\ writing[w] # None
  /\ Len(commits) < MaxCommits
  /\ commits' = Append(commits, writing[w])
  /\ writing' = [writing EXCEPT ![w] = None]
  /\ UNCHANGED <<applied, counts, query, results, cacheVars>>

(* A repeated idempotency key or a failed log: nothing is committed, and what  *)
(* was counted stays counted.                                               *)
CommitNothing(w) ==
  /\ writing[w] # None
  /\ writing' = [writing EXCEPT ![w] = None]
  /\ UNCHANGED <<commits, applied, counts, query, results, cacheVars>>

Delete(w) ==
  /\ writing[w] = None
  /\ Len(commits) < MaxCommits
  /\ \E s \in Deletes : commits' = Append(commits, [sid |-> s, val |-> Tombstone])
  /\ UNCHANGED <<applied, counts, writing, query, results, cacheVars>>

Materialize ==
  /\ applied < Len(commits)
  /\ applied' = applied + 1
  /\ UNCHANGED <<commits, counts, writing, query, results, cacheVars>>

-----------------------------------------------------------------------------
(* The planner *)

(* The share of a category in what was counted, as [by, of]: by / of.  One that  *)
(* was never counted is taken for one in 10000.                               *)
Counted(cat) ==
  IF counts[cat] = 0 THEN [by |-> 1, of |-> 10000] ELSE [by |-> counts[cat], of |-> Total]

(* Estimated selectivity of a filter.  With an empty catalog, and for a filter on  *)
(* another byte than the category, it is a half.                              *)
Selectivity(filter) ==
  IF filter = AnyCat THEN [by |-> 1, of |-> 1]
  ELSE IF filter \in Tags \/ Total = 0 THEN [by |-> 1, of |-> 2]
  ELSE Counted(filter)

MaxOverFetch == 4096

(* margin / selectivity rounded up, between 1 and MaxOverFetch.               *)
OverFetch(sel) ==
  Min({MaxOverFetch, (Margin * sel.of + 10 * sel.by - 1) \div (10 * sel.by)})

-----------------------------------------------------------------------------
(* query_planned, near_join_select *)

Plan(t) ==
  /\ query[t].at = "idle" /\ storing[t] = Cache!Free
  /\ queries + Cardinality({u \in Threads : query[u].at # "idle"}) < MaxQueries
  /\ \E q \in Asks :
       query' = [query EXCEPT ![t] =
         [Idle EXCEPT !.at = "search", !.filter = q.filter, !.k = q.k,
                      !.since = Len(commits),
                      !.fetch = q.k * OverFetch(Selectivity(q.filter))]]
  /\ UNCHANGED <<commits, applied, counts, writing, results, cacheVars>>

(* The indexed subjects nearest first; equal distances come in any order.      *)
Rankings ==
  LET indexed == UNION {LiveOf(s, applied) : s \in Sids}
  IN  {r \in [1 .. Cardinality(indexed) -> indexed] :
         \A i, j \in DOMAIN r : i < j => r[i] # r[j] /\ DistOf(r[i]) <= DistOf(r[j])}

(* Only k candidates are asked for: the filter is forgotten.                  *)
Search_NoOverFetch(t) ==
  /\ query[t].at = "search"
  /\ \E r \in Rankings :
       query' = [query EXCEPT
         ![t].at = "join", ![t].indexed = applied,
         ![t].todo = [i \in 1 .. Min({Len(r), query[t].k}) |->
                        [sid |-> commits[r[i]].sid, dist |-> DistOf(r[i])]]]
  /\ UNCHANGED <<commits, applied, counts, writing, results, cacheVars>>

Search(t) ==
  /\ query[t].at = "search"
  /\ \E r \in Rankings :
       query' = [query EXCEPT
         ![t].at = "join", ![t].indexed = applied,
         ![t].todo = [i \in 1 .. Min({Len(r), query[t].fetch}) |->
                        [sid |-> commits[r[i]].sid, dist |-> DistOf(r[i])]]]
  /\ UNCHANGED <<commits, applied, counts, writing, results, cacheVars>>

Passes(filter, i) == filter \in {AnyCat, commits[i].val.cat, commits[i].val.tag}

(* What the index saw is returned without a look at the truth.                *)
Join_FromIndex(t) ==
  /\ query[t].at = "join" /\ query[t].todo # <<>>
  /\ LET c == Head(query[t].todo)
         found == {i \in LiveOf(c.sid, query[t].indexed) : Passes(query[t].filter, i)}
     IN  query' = [query EXCEPT
           ![t].todo = Tail(@),
           ![t].out = @ \o [n \in 1 .. Cardinality(found) |->
                              [commit |-> CHOOSE i \in found : TRUE, dist |-> c.dist]]]
  /\ UNCHANGED <<commits, applied, counts, writing, results, cacheVars>>

(* One candidate: a strong read, then the filter on what was read; a grain     *)
(* that is gone is skipped.                                                 *)
Join(t) ==
  /\ query[t].at = "join" /\ query[t].todo # <<>>
  /\ LET c == Head(query[t].todo)
         found == {i \in LiveOf(c.sid, Len(commits)) : Passes(query[t].filter, i)}
     IN  query' = [query EXCEPT
           ![t].todo = Tail(@),
           ![t].out = @ \o [n \in 1 .. Cardinality(found) |->
                              [commit |-> CHOOSE i \in found : TRUE, dist |-> c.dist]]]
  /\ UNCHANGED <<commits, applied, counts, writing, results, cacheVars>>

(* sort_by: by distance, what is equal stays in the order it came in.          *)
ByDistance(out) ==
  LET before(i) == {j \in DOMAIN out : \/ out[j].dist < out[i].dist
                                       \/ out[j].dist = out[i].dist /\ j < i}
  IN  [n \in DOMAIN out |->
         out[CHOOSE i \in DOMAIN out : Cardinality(before(i)) = n - 1]]

(* ... and no more than k.                                                   *)
TopK(out, k) == SubSeq(ByDistance(out), 1, Min({Len(out), k}))

(* The result is ready and about to be pinned.                               *)
Finish(t) ==
  /\ query[t].at = "join" /\ query[t].todo = <<>>
  /\ results' = Append(results,
       [filter |-> query[t].filter, k |-> query[t].k, since |-> query[t].since,
        upto |-> Len(commits), fetch |-> query[t].fetch, indexed |-> query[t].indexed,
        ranked |-> TopK(query[t].out, query[t].k)])
  /\ query' = [query EXCEPT ![t] = Idle]
  /\ Cache!QueryStaged(t)
  /\ UNCHANGED <<commits, applied, counts, writing>>

-----------------------------------------------------------------------------
(* build_summary *)

(* Bands of at least one result; the last may be shorter.                     *)
BandSize_RoundedDown(total) == total \div Min({Max({Reps, 1}), total})

BandSize(total) ==
  LET bands == Min({Max({Reps, 1}), total})
  IN  (total + bands - 1) \div bands

(* The positions of the representatives: the nearest of each band.            *)
Representatives(ranked) ==
  IF ranked = <<>> THEN {}
  ELSE {i \in DOMAIN ranked : (i - 1) % BandSize(Len(ranked)) = 0}

-----------------------------------------------------------------------------

engineVars == <<commits, applied, counts, writing, query, results>>

Pin(t) == (Cache!TakeId(t) \/ Cache!Store(t)) /\ UNCHANGED engineVars

Drill == Cache!Drill /\ UNCHANGED engineVars

Next ==
  \/ \E w \in Writers : Observe(w) \/ Commit(w) \/ CommitNothing(w) \/ Delete(w)
  \/ Materialize
  \/ \E t \in Threads : Plan(t) \/ Search(t) \/ Join(t) \/ Finish(t) \/ Pin(t)
  \/ Drill

Spec == Init /\ [][Next]_vars

-----------------------------------------------------------------------------
(* Safety *)

(* Every grain returned passes the filter and was the newest of its subject at *)
(* some moment of the query, although the index that proposed it may be older   *)
(* than the query: a write or deletion that was answered before the query began *)
(* is never missed (near_join_select joins with the truth).  There are at most k *)
(* of them, the nearest first.                                               *)
AnswersAreFresh ==
  \A n \in DOMAIN results :
    LET q == results[n]
    IN  /\ Len(q.ranked) <= q.k
        /\ \A i, j \in DOMAIN q.ranked : i < j => q.ranked[i].dist <= q.ranked[j].dist
        /\ \A i \in DOMAIN q.ranked :
             LET c == q.ranked[i].commit
             IN  /\ Passes(q.filter, c)
                 /\ \E now \in q.since .. q.upto : c \in LiveOf(commits[c].sid, now)

(* A matching grain that the index knew and nobody touched during the query is  *)
(* in the answer, unless k results at least as near are, or as many candidates   *)
(* as the plan asked for lie at least as near: concurrent writes to other        *)
(* grains, and candidates that are gone, push nothing out.                      *)
UntouchedMatchesAreFound ==
  \A n \in DOMAIN results :
    LET q == results[n]
        found == {q.ranked[i].commit : i \in DOMAIN q.ranked}
        nearer(c) == {s \in Sids : \E i \in LiveOf(s, q.indexed) :
                        i # c /\ DistOf(i) <= DistOf(c)}
    IN  \A s \in Sids : \A c \in LiveOf(s, q.indexed) :
          c \in NewestOf(s, q.upto) /\ Passes(q.filter, c) /\ c \notin found =>
            \/ /\ Len(q.ranked) = q.k
               /\ \A i \in DOMAIN q.ranked : q.ranked[i].dist <= DistOf(c)
            \/ Cardinality(nearer(c)) >= q.fetch

(* A summary shows the nearest result and at most Reps (but one) of them, for    *)
(* results of any length (build_summary).                                      *)
SummaryIsSmall ==
  \A n \in DOMAIN results :
    LET ranked == results[n].ranked
        reps == Representatives(ranked)
    IN  /\ Cardinality(reps) <= Max({Reps, 1})
        /\ ranked # <<>> => 1 \in reps

(* See Continuations.                                                        *)
DrillReturnsItsOwnResult == Cache!DrillReturnsItsOwnResult

(* See Continuations.                                                        *)
KeepsTheNewest == Cache!KeepsTheNewest

=============================================================================
