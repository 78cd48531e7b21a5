---------------------------------- MODULE Blocks ----------------------------------
(***************************************************************************)
(* The block store (block.rs): grains clustered into blocks by a light k-means,   *)
(* each block with a descriptor that lets a query skip it.  Built once from a     *)
(* sequence of grains, then only read.                                       *)
(*                                                                         *)
(* A vector is a point of the integer line.  Centroids are means of at most         *)
(* MaxRecs vectors; vectors are multiples of a number every such count divides,     *)
(* so the means are integers and distances are exact.                         *)
(***************************************************************************)
EXTENDS Lists

CONSTANTS
  BlockSids,    \* subjects that may be asked for
  BloomBits,    \* subject -> the bits its hashes set in a Bloom filter
  Categories,
  Points,       \* vectors
  MaxRecs,      \* grains of a store
  MaxIters,     \* passes of the k-means
  NearQueries   \* what is searched for: [at, k]

ASSUME BlockAssumption ==
  /\ IsFiniteSet(BlockSids) /\ BlockSids = 1 .. Cardinality(BlockSids)
  /\ MaxRecs \in 1 .. Cardinality(BlockSids) /\ MaxIters \in Nat \ {0}
  /\ BloomBits \in [BlockSids -> SUBSET Nat]
  /\ Points \subseteq Int
  /\ \A x \in Points, n \in 1 .. MaxRecs : x % n = 0
  /\ NearQueries \subseteq [at : Int, k : Nat \ {0}]

VARIABLES
  recs,   \* the grains fed to the builder: [sid, cat, at]
  store   \* {} or {the blocks built from them}

blockVars == <<recs, store>>

L2(x, y) == IF x < y THEN y - x ELSE x - y

Mean(ats) == FoldLeft(LAMBDA sum, x : sum + x, 0, ats) \div Len(ats)

(* A set of numbers in ascending order. *)
InOrder(S) ==
  [n \in 1 .. Cardinality(S) |-> CHOOSE i \in S : Cardinality({j \in S : j <= i}) = n]

-----------------------------------------------------------------------------
(* kmeans_assign: assignments and centroids are numbered from 1 *)

(* The nearest centroid, the first of equals. *)
NearestOf(centroids, at) ==
  CHOOSE c \in DOMAIN centroids :
    \A d \in DOMAIN centroids :
      \/ L2(at, centroids[c]) < L2(at, centroids[d])
      \/ L2(at, centroids[c]) = L2(at, centroids[d]) /\ c <= d

AssignedTo(rs, centroids) == [i \in DOMAIN rs |-> NearestOf(centroids, rs[i].at)]

\* The grains assigned to c, in the order they were fed.
GroupOf(rs, assign, c) ==
  LET own == InOrder({i \in DOMAIN rs : assign[i] = c})
  IN  [n \in DOMAIN own |-> rs[own[n]]]

AtsOf(rs) == [i \in DOMAIN rs |-> rs[i].at]

(* A centroid nobody is assigned to stays where it is. *)
Recomputed(rs, centroids) ==
  [c \in DOMAIN centroids |->
     LET group == GroupOf(rs, AssignedTo(rs, centroids), c)
     IN  IF group = <<>> THEN centroids[c] ELSE Mean(AtsOf(group))]

(* At most as many seeds as grains, evenly picked. *)
Seeds(rs, n) ==
  LET blocks == IF n < Len(rs) THEN n ELSE Len(rs)
  IN  [c \in 1 .. blocks |-> rs[((c - 1) * Len(rs)) \div blocks + 1].at]

(* What the last of the passes assigns. *)
KmeansAssign(rs, n, iters) ==
  LET centroids[p \in 1 .. iters] ==
        IF p = 1 THEN Seeds(rs, n) ELSE Recomputed(rs, centroids[p - 1])
  IN  AssignedTo(rs, centroids[iters])

-----------------------------------------------------------------------------
(* Block::build, build_clustered *)

\* The radius leaves the farthest grain out.
Block_MeanRadius(group) ==
  LET centroid == Mean(AtsOf(group))
      far == [i \in DOMAIN group |-> L2(group[i].at, centroid)]
  IN  [body |-> group, centroid |-> centroid, radius |-> Mean(far),
       bloom |-> UNION {BloomBits[group[i].sid] : i \in DOMAIN group},
       catCounts |-> [c \in Categories |-> Cardinality({i \in DOMAIN group : group[i].cat = c})]]

(* The body of a block and what its descriptor says of it. *)
Block(group) ==
  LET centroid == Mean(AtsOf(group))
      far == {L2(group[i].at, centroid) : i \in DOMAIN group}
  IN  [body |-> group, centroid |-> centroid,
       radius |-> CHOOSE r \in far : \A d \in far : d <= r,
       bloom |-> UNION {BloomBits[group[i].sid] : i \in DOMAIN group},
       catCounts |-> [c \in Categories |-> Cardinality({i \in DOMAIN group : group[i].cat = c})]]

(* A cluster nothing fell into makes no block. *)
BuildClustered(rs, n, iters) ==
  LET assign == KmeansAssign(rs, n, iters)
      filled == InOrder({c \in 1 .. n : GroupOf(rs, assign, c) # <<>>})
  IN  [b \in DOMAIN filled |-> Block(GroupOf(rs, assign, filled[b]))]

-----------------------------------------------------------------------------
(* queries; a found category is {} or {cat} *)

MaybeContains(b, sid) == BloomBits[sid] \subseteq b.bloom

Find(b, sid) == {b.body[i].cat : i \in {j \in DOMAIN b.body : b.body[j].sid = sid}}

Get(blocks, sid) ==
  UNION {Find(blocks[i], sid) : i \in {j \in DOMAIN blocks : MaybeContains(blocks[j], sid)}}

CountCategory(blocks, cat) ==
  LET counts == [b \in DOMAIN blocks |->
                   Cardinality({i \in DOMAIN blocks[b].body : blocks[b].body[i].cat = cat})]
  IN  SumFunctionOnSet(counts, {b \in DOMAIN blocks : blocks[b].catCounts[cat] # 0})

Candidates(q, b) ==
  [i \in DOMAIN b.body |-> [sid |-> b.body[i].sid, dist |-> L2(q, b.body[i].at)]]

(* One block of a search: skipped if no point of it can beat the k-th best.    *)
Visit(q, k, best, b) ==
  LET all == best \o Candidates(q, b)
  IN  IF Len(best) >= k /\ L2(q, b.centroid) - b.radius > best[k].dist
      THEN best
      ELSE FirstOf(Sorted(all, [i \in DOMAIN all |-> all[i].dist]), k)

(* Blocks are visited nearest centroid first. *)
Near(blocks, q, k) ==
  LET order == Sorted(blocks, [b \in DOMAIN blocks |-> L2(q, blocks[b].centroid)])
  IN  FoldLeft(LAMBDA best, b : Visit(q, k, best, b), <<>>, order)

-----------------------------------------------------------------------------

BlockInit == recs = <<>> /\ store = {}

(* The builder is given one more grain. *)
Feed ==
  /\ store = {} /\ Len(recs) < MaxRecs
  /\ \E cat \in Categories, at \in Points :
       recs' = Append(recs, [sid |-> Len(recs) + 1, cat |-> cat, at |-> at])
  /\ UNCHANGED store

Build ==
  /\ store = {} /\ recs # <<>>
  /\ \E n \in 1 .. MaxRecs + 1, iters \in 1 .. MaxIters :
       store' = {BuildClustered(recs, n, iters)}
  /\ UNCHANGED recs

BlockNext == Feed \/ Build

BlockSpec == BlockInit /\ [][BlockNext]_blockVars

(* However the grains fall into blocks, skipping blocks by their descriptors loses  *)
(* nothing: every grain is in one block, a lookup finds what was fed and nothing    *)
(* else, a count is the number fed, and a search has the distances a scan of all     *)
(* grains has, nearest first ("the pruning is exact, not approximate").            *)
BlocksAgreeWithAScan ==
  \A blocks \in store :
    /\ SumFunctionOnSet([b \in DOMAIN blocks |-> Len(blocks[b].body)], DOMAIN blocks) = Len(recs)
    /\ \A s \in BlockSids :
         Get(blocks, s) = {recs[i].cat : i \in {j \in DOMAIN recs : recs[j].sid = s}}
    /\ \A c \in Categories :
         CountCategory(blocks, c) = Cardinality({i \in DOMAIN recs : recs[i].cat = c})
    /\ \A q \in NearQueries :
         LET found == Near(blocks, q.at, q.k)
             dists == [i \in DOMAIN recs |-> L2(q.at, recs[i].at)]
         IN  [i \in DOMAIN found |-> found[i].dist] = FirstOf(Sorted(dists, dists), q.k)

=============================================================================
