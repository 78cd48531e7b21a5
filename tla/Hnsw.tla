----------------------------------- MODULE Hnsw -----------------------------------
(***************************************************************************)
(* The graph of one HNSW index (vector/hnsw.rs, State): layers of links between *)
(* nodes, a greedy descent through the upper ones and a beam at the lowest.     *)
(* Operations are pure operators from a graph to a graph; Hnsw's mutex makes    *)
(* each of them one step of its callers.                                     *)
(*                                                                         *)
(* A vector is a point of the integer line and the level of a new node is the    *)
(* caller's choice: the LCG may draw any.                                     *)
(***************************************************************************)
EXTENDS Lists

CONSTANTS
  M,              \* neighbours of a node on layers > 0
  M0,             \* neighbours of a node on layer 0
  EfConstruction  \* beam width of an insertion

ASSUME HnswAssumption == M \in Nat \ {0} /\ M0 \in Nat \ {0} /\ EfConstruction \in Nat \ {0}

\* links[l + 1]: the neighbours at level l.  entry = 0: no node yet.
EmptyGraph == [nodes |-> <<>>, deleted |-> <<>>, sidToIdx |-> <<>>,
               entry |-> 0, maxLevel |-> 0, live |-> 0]

Node(sid, at, level) ==
  [sid |-> sid, at |-> at, links |-> [l \in 1 .. level + 1 |-> <<>>]]

L2Sq(x, y) == (x - y) * (x - y)
Distance(g, q, n) == L2Sq(q, g.nodes[n].at)

LinksAt(g, n, level) ==
  IF level < Len(g.nodes[n].links) THEN g.nodes[n].links[level + 1] ELSE <<>>

(* The order of DistIdx: by distance, then by node. *)
Closer(g, q, a, b) ==
  LET da == Distance(g, q, a)
      db == Distance(g, q, b)
  IN  da < db \/ (da = db /\ a < b)

Ascending(g, q, S) ==
  [i \in 1 .. Cardinality(S) |->
     CHOOSE a \in S : Cardinality({b \in S : Closer(g, q, b, a)}) = i - 1]

Nearest(g, q, S) == CHOOSE a \in S : \A b \in S \ {a} : Closer(g, q, a, b)
Farthest(g, q, S) == CHOOSE a \in S : \A b \in S \ {a} : Closer(g, q, b, a)

-----------------------------------------------------------------------------
(* search_layer: a beam is [cand, result, visited], all sets of nodes. *)

(* A neighbour n of the node being expanded. *)
Meet(g, q, ef, beam, n) ==
  LET far == Distance(g, q, Farthest(g, q, beam.result))
      grown == beam.result \union {n}
  IN  IF n \in beam.visited THEN beam
      ELSE IF Distance(g, q, n) >= far /\ Cardinality(beam.result) >= ef
           THEN [beam EXCEPT !.visited = @ \union {n}]
      ELSE [cand |-> beam.cand \union {n},
            visited |-> beam.visited \union {n},
            result |-> IF Cardinality(grown) > ef
                       THEN grown \ {Farthest(g, q, grown)} ELSE grown]

(* The nearest candidate is expanded, unless the search is over. *)
Expand(g, q, ef, level, beam) ==
  LET c == Nearest(g, q, beam.cand)
      far == Distance(g, q, Farthest(g, q, beam.result))
  IN  IF beam.cand = {} \/ (Distance(g, q, c) > far /\ Cardinality(beam.result) >= ef)
      THEN beam
      ELSE FoldLeft(LAMBDA b, n : Meet(g, q, ef, b, n),
                    [beam EXCEPT !.cand = @ \ {c}], LinksAt(g, c, level))

(* The nodes found.  A node is a candidate once, so as many rounds as there are    *)
(* nodes bring a search to its end.                                         *)
SearchLayer(g, q, ep, ef, level) ==
  FoldLeft(LAMBDA beam, n : Expand(g, q, ef, level, beam),
           [cand |-> {ep}, result |-> {ep}, visited |-> {ep}], g.nodes).result

Downto(from, to) == [i \in 1 .. from - to + 1 |-> from - i + 1]

(* The node a descent through the layers from .. to ends at. *)
Descend(g, q, ep, from, to) ==
  FoldLeft(LAMBDA e, level : Nearest(g, q, SearchLayer(g, q, e, 1, level)), ep, Downto(from, to))

-----------------------------------------------------------------------------
(* insert, remove, search *)

Linked(g, a, b, level) ==
  IF level < Len(g.nodes[a].links) /\ b \notin ToSet(LinksAt(g, a, level))
  THEN [g EXCEPT !.nodes[a].links[level + 1] = Append(@, b)]
  ELSE g

MaxDegree(level) == IF level = 0 THEN M0 ELSE M

Least(x, y) == IF x < y THEN x ELSE y

(* The nearest neighbours stay, of equally near ones the older nodes. *)
Prune(g, n, level) ==
  IF Len(LinksAt(g, n, level)) <= MaxDegree(level) THEN g
  ELSE [g EXCEPT !.nodes[n].links[level + 1] =
          FirstOf(Ascending(g, g.nodes[n].at, ToSet(@)), MaxDegree(level))]

(* Node n gets its neighbours at one level; s is [g, ep]. *)
Connect(s, n, level) ==
  LET at == s.g.nodes[n].at
      w == SearchLayer(s.g, at, s.ep, EfConstruction, level)
      both == FoldLeft(LAMBDA g, b :
                         Prune(Linked(Linked(g, n, b, level), b, n, level), b, level),
                       s.g, FirstOf(Ascending(s.g, at, w), MaxDegree(level)))
  IN  [g |-> Prune(both, n, level), ep |-> Nearest(s.g, at, w)]

(* The prior version of sid is deleted; nodes are never taken out of the graph. *)
Tombstoned(g, sid) ==
  IF sid \in DOMAIN g.sidToIdx /\ ~ g.deleted[g.sidToIdx[sid]]
  THEN [g EXCEPT !.deleted[g.sidToIdx[sid]] = TRUE, !.live = @ - 1]
  ELSE g

\* The new node is counted and found by its subject.
Added(g, sid, at, level) ==
  [g EXCEPT !.nodes = Append(@, Node(sid, at, level)),
            !.deleted = Append(@, FALSE),
            !.sidToIdx = [s \in DOMAIN @ \union {sid} |->
                            IF s = sid THEN Len(g.nodes) + 1 ELSE @[s]],
            !.live = @ + 1]

(* insert, from its second half on: the new node n of g is tied into the layers. *)
TiedIn(g, n, level) ==
  IF g.entry = 0 THEN [g EXCEPT !.entry = n, !.maxLevel = level]
  ELSE LET ep == Descend(g, g.nodes[n].at, g.entry, g.maxLevel, level + 1)
           h == FoldLeft(LAMBDA s, l : Connect(s, n, l), [g |-> g, ep |-> ep],
                         Downto(Least(level, g.maxLevel), 0)).g
       IN  IF level > g.maxLevel THEN [h EXCEPT !.entry = n, !.maxLevel = level] ELSE h

GraphInsert_KeepOld(g, sid, at, level) ==
  TiedIn(Added(g, sid, at, level), Len(g.nodes) + 1, level)

GraphInsert(g, sid, at, level) ==
  TiedIn(Added(Tombstoned(g, sid), sid, at, level), Len(g.nodes) + 1, level)

GraphRemove(g, sid) ==
  [Tombstoned(g, sid) EXCEPT !.sidToIdx = [s \in DOMAIN @ \ {sid} |-> @[s]]]

(* Where the descent of a search enters the lowest layer. *)
BaseEntry(g, q) == Descend(g, q, g.entry, g.maxLevel, 1)

Beam(k, ef) == IF ef > k THEN ef ELSE k

Candidate(g, q, n) == [sid |-> g.nodes[n].sid, dist |-> Distance(g, q, n)]

\* k nodes are taken first, and then the deleted ones are dropped.
GraphSearch_TakeThenFilter(g, q, k, ef) ==
  IF g.entry = 0 THEN <<>>
  ELSE LET w == SearchLayer(g, q, BaseEntry(g, q), Beam(k, ef), 0)
           first == ToSet(FirstOf(Ascending(g, q, w), k))
           alive == Ascending(g, q, {n \in first : ~ g.deleted[n]})
       IN  [i \in DOMAIN alive |-> Candidate(g, q, alive[i])]

GraphSearch(g, q, k, ef) ==
  IF g.entry = 0 THEN <<>>
  ELSE LET w == SearchLayer(g, q, BaseEntry(g, q), Beam(k, ef), 0)
           alive == FirstOf(Ascending(g, q, {n \in w : ~ g.deleted[n]}), k)
       IN  [i \in DOMAIN alive |-> Candidate(g, q, alive[i])]

-----------------------------------------------------------------------------
(* Reference definitions *)

Closed(g, C, level) == \A n \in C : ToSet(LinksAt(g, n, level)) \subseteq C

(* The nodes a search for q can come to at the lowest layer. *)
Reachable(g, q) ==
  {n \in DOMAIN g.nodes :
     \A C \in SUBSET DOMAIN g.nodes : Closed(g, C, 0) /\ BaseEntry(g, q) \in C => n \in C}

Live(g) == {n \in DOMAIN g.nodes : ~ g.deleted[n]}

=============================================================================
