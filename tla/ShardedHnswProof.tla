------------------------------ MODULE ShardedHnswProof ------------------------------
(***************************************************************************)
(* The vector index is proved: what ShardedHnsw's runs check of its graphs and    *)
(* answers holds for every stream of writes, whatever the degrees and the beam.  *)
(* The proof goes up from the order of distances through the beam search, the     *)
(* rounds of a layer and the descent to what insert and remove keep of a graph,   *)
(* and from there to one shard's answer and to the parts merged.                *)
(***************************************************************************)
EXTENDS ShardedHnsw, Induction


-----------------------------------------------------------------------------
(* The order of the nodes *)

(* The nodes of g have vectors, and their links lead to nodes. *)
Walkable(g) ==
  /\ Len(g.nodes) \in Nat /\ DOMAIN g.nodes = 1 .. Len(g.nodes)
  /\ \A n \in DOMAIN g.nodes : g.nodes[n].at \in Int
  /\ \A n \in DOMAIN g.nodes, l \in Nat : LinksAt(g, n, l) \in Seq(DOMAIN g.nodes)

(* A squared distance is a number. *)
LEMMA SquareIsANumber ==
  ASSUME NEW x \in Int, NEW y \in Int
  PROVE  L2Sq(x, y) \in Int
  BY DEF L2Sq

(* Two nodes are ordered by their distances from q. *)
LEMMA CloserLaws ==
  ASSUME NEW g, Walkable(g), NEW q \in Int
  PROVE  /\ \A a \in DOMAIN g.nodes : Distance(g, q, a) \in Int
         /\ \A a, b \in DOMAIN g.nodes : a # b => Closer(g, q, a, b) \/ Closer(g, q, b, a)
         /\ \A a, b \in DOMAIN g.nodes :
              Closer(g, q, a, b) => /\ ~ Closer(g, q, b, a) /\ a # b
                                    /\ Distance(g, q, a) <= Distance(g, q, b)
         /\ \A a, b, c \in DOMAIN g.nodes :
              Closer(g, q, a, b) /\ Closer(g, q, b, c) => Closer(g, q, a, c)
<1>1. \A a \in DOMAIN g.nodes : Distance(g, q, a) \in Int
  <2> SUFFICES ASSUME NEW a \in DOMAIN g.nodes PROVE Distance(g, q, a) \in Int
    OBVIOUS
  <2>1. g.nodes[a].at \in Int
    BY DEF Walkable
  <2>2. L2Sq(q, g.nodes[a].at) \in Int
    BY <2>1, SquareIsANumber
  <2>3. QED
    BY <2>2 DEF Distance
<1>2. DOMAIN g.nodes \in SUBSET Int
  BY DEF Walkable
<1>3. \A a, b : Closer(g, q, a, b) <=> \/ Distance(g, q, a) < Distance(g, q, b)
                                       \/ Distance(g, q, a) = Distance(g, q, b) /\ a < b
  BY DEF Closer
<1>4. QED
  BY <1>1, <1>2, <1>3

(* A set of nodes, nearest first, has each of them once. *)
LEMMA AscendingLaws ==
  ASSUME NEW g, Walkable(g), NEW q \in Int, NEW S \in SUBSET DOMAIN g.nodes
  PROVE  /\ IsFiniteSet(S) /\ Cardinality(S) \in Nat
         /\ GoesThrough(Ascending(g, q, S), Cardinality(S), S)
         /\ \A i, j \in 1 .. Cardinality(S) :
              i < j => Closer(g, q, Ascending(g, q, S)[i], Ascending(g, q, S)[j])
<1> DEFINE leq == {x \in S \X S : Closer(g, q, x[1], x[2]) \/ x[1] = x[2]}
           below(a) == {b \in S : Closer(g, q, b, a)}
           upTo(a) == {b \in S : Closer(g, q, b, a) \/ b = a}
           n == Cardinality(S)
<1>1. IsFiniteSet(S) /\ n \in Nat
  <2>1. IsFiniteSet(DOMAIN g.nodes)
    BY FS_Interval DEF Walkable
  <2>2. QED
    BY <2>1, FS_Subset, FS_CardinalityType
<1>2. \A a, b \in S : <<a, b>> \in leq <=> Closer(g, q, a, b) \/ a = b
  OBVIOUS
<1>3. OrdersTotally(leq, S)
  <2>1. \A a, b \in S : <<a, b>> \in leq \/ <<b, a>> \in leq
    BY <1>2, CloserLaws
  <2>2. \A a, b \in S : <<a, b>> \in leq /\ <<b, a>> \in leq => a = b
    BY <1>2, CloserLaws
  <2>3. \A a, b, c \in S : <<a, b>> \in leq /\ <<b, c>> \in leq => <<a, c>> \in leq
    BY <1>2, CloserLaws
  <2> HIDE DEF leq
  <2>4. QED
    BY <2>1, <2>2, <2>3 DEF OrdersTotally
<1>4. \A a \in S : Cardinality(below(a)) \in Nat /\ Rank(leq, S, a) = Cardinality(below(a)) + 1
  <2> SUFFICES ASSUME NEW a \in S
               PROVE  Cardinality(below(a)) \in Nat /\ Rank(leq, S, a) = Cardinality(below(a)) + 1
    OBVIOUS
  <2>1. {b \in S : <<b, a>> \in leq} = upTo(a)
    BY <1>2
  <2>2. upTo(a) = below(a) \union {a} /\ a \notin below(a) /\ below(a) \in SUBSET S
    BY CloserLaws
  <2> HIDE DEF upTo, below, leq
  <2>3. IsFiniteSet(below(a)) /\ Cardinality(below(a)) \in Nat
    BY <1>1, <2>2, FS_Subset, FS_CardinalityType
  <2>4. Cardinality(upTo(a)) = Cardinality(below(a)) + 1
    BY <2>2, <2>3, FS_AddElement
  <2>5. QED
    BY <2>1, <2>3, <2>4 DEF Rank
<1> DEFINE c(a) == Cardinality(below(a))
           r(a) == Rank(leq, S, a)
<1>5. Ascending(g, q, S) = Listed(leq, S)
  <2>1. Ascending(g, q, S) = [i \in 1 .. n |-> CHOOSE a \in S : c(a) = i - 1]
    BY DEF Ascending
  <2>2. Listed(leq, S) = [i \in 1 .. n |-> CHOOSE a \in S : r(a) = i]
    BY DEF Listed
  <2>3. \A a \in S : c(a) \in Nat /\ r(a) = c(a) + 1
    BY <1>4
  <2> HIDE DEF c, r, leq, n
  <2>4. \A a \in S, i \in 1 .. n : c(a) = i - 1 <=> r(a) = i
    BY <1>1, <2>3
  <2>5. \A i \in 1 .. n : (CHOOSE a \in S : c(a) = i - 1) = (CHOOSE a \in S : r(a) = i)
    BY <2>4
  <2>6. QED
    BY <2>1, <2>2, <2>5
<1> HIDE DEF leq, below, upTo
<1>6. /\ Listed(leq, S) \in [1 .. n -> S]
      /\ \A i, j \in 1 .. n : i <= j => <<Listed(leq, S)[i], Listed(leq, S)[j]>> \in leq
      /\ \A i, j \in 1 .. n : Listed(leq, S)[i] = Listed(leq, S)[j] => i = j
      /\ \A x \in S : \E i \in 1 .. n : Listed(leq, S)[i] = x
  BY <1>1, <1>3, ListedLaws
<1>7. GoesThrough(Ascending(g, q, S), n, S)
  BY <1>1, <1>5, <1>6 DEF GoesThrough
<1>8. ASSUME NEW i \in 1 .. n, NEW j \in 1 .. n, i < j
      PROVE  Closer(g, q, Ascending(g, q, S)[i], Ascending(g, q, S)[j])
  <2> DEFINE a == Listed(leq, S)[i]
             b == Listed(leq, S)[j]
  <2>1. a \in S /\ b \in S
    BY <1>6
  <2>2. <<a, b>> \in leq
    BY <1>6, <1>8
  <2>3. a # b
    BY <1>6, <1>8
  <2>4. QED
    BY <1>2, <1>5, <2>1, <2>2, <2>3
<1>9. QED
  BY <1>1, <1>7, <1>8

(* As a sequence. *)
LEMMA AscendingIsASequence ==
  ASSUME NEW g, Walkable(g), NEW q \in Int, NEW S \in SUBSET DOMAIN g.nodes
  PROVE  /\ Ascending(g, q, S) \in Seq(S)
         /\ Len(Ascending(g, q, S)) = Cardinality(S)
         /\ DOMAIN Ascending(g, q, S) = 1 .. Cardinality(S)
<1> DEFINE s == Ascending(g, q, S)
           n == Cardinality(S)
<1>1. n \in Nat /\ s \in [1 .. n -> S]
  BY AscendingLaws DEF GoesThrough
<1> HIDE DEF s, n
<1>2. s \in Seq(S) /\ Len(s) = n /\ DOMAIN s = 1 .. n
  BY <1>1
<1>3. QED
  BY <1>2 DEF s, n

(* There is a nearest and a farthest of a set of nodes. *)
LEMMA NearestLaws ==
  ASSUME NEW g, Walkable(g), NEW q \in Int, NEW S \in SUBSET DOMAIN g.nodes, S # {}
  PROVE  /\ Nearest(g, q, S) \in S /\ Farthest(g, q, S) \in S
         /\ \A a \in S : Distance(g, q, Nearest(g, q, S)) <= Distance(g, q, a)
         /\ \A a \in S : Distance(g, q, a) <= Distance(g, q, Farthest(g, q, S))
<1> DEFINE s == Ascending(g, q, S)
           n == Cardinality(S)
<1>1. /\ n \in Nat /\ s \in [1 .. n -> S]
      /\ \A x \in S : \E i \in 1 .. n : s[i] = x
      /\ \A i, j \in 1 .. n : i < j => Closer(g, q, s[i], s[j])
  BY AscendingLaws DEF GoesThrough
<1> HIDE DEF s, n
<1>2. 1 \in 1 .. n /\ n \in 1 .. n
  BY <1>1
<1>3. s[1] \in S /\ s[n] \in S
  BY <1>1, <1>2
<1>4. \A b \in S \ {s[1]} : Closer(g, q, s[1], b)
  <2> SUFFICES ASSUME NEW b \in S, b # s[1] PROVE Closer(g, q, s[1], b)
    OBVIOUS
  <2>1. PICK i \in 1 .. n : s[i] = b
    BY <1>1
  <2>2. 1 < i
    BY <2>1
  <2>3. QED
    BY <1>1, <1>2, <2>1, <2>2
<1>5. \A b \in S \ {s[n]} : Closer(g, q, b, s[n])
  <2> SUFFICES ASSUME NEW b \in S, b # s[n] PROVE Closer(g, q, b, s[n])
    OBVIOUS
  <2>1. PICK i \in 1 .. n : s[i] = b
    BY <1>1
  <2>2. i < n
    BY <1>1, <2>1
  <2>3. QED
    BY <1>1, <1>2, <2>1, <2>2
<1>6. Nearest(g, q, S) \in S /\ \A b \in S \ {Nearest(g, q, S)} : Closer(g, q, Nearest(g, q, S), b)
  BY <1>3, <1>4 DEF Nearest
<1>7. Farthest(g, q, S) \in S /\ \A b \in S \ {Farthest(g, q, S)} : Closer(g, q, b, Farthest(g, q, S))
  BY <1>3, <1>5 DEF Farthest
<1>8. \A a \in S : Distance(g, q, a) \in Int
  BY CloserLaws
<1>9. \A a \in S : Distance(g, q, Nearest(g, q, S)) <= Distance(g, q, a)
  <2> SUFFICES ASSUME NEW a \in S PROVE Distance(g, q, Nearest(g, q, S)) <= Distance(g, q, a)
    OBVIOUS
  <2>1. CASE a = Nearest(g, q, S)
    BY <1>8, <2>1
  <2>2. CASE a # Nearest(g, q, S)
    BY <1>6, <2>2, CloserLaws
  <2>3. QED
    BY <2>1, <2>2
<1>10. \A a \in S : Distance(g, q, a) <= Distance(g, q, Farthest(g, q, S))
  <2> SUFFICES ASSUME NEW a \in S PROVE Distance(g, q, a) <= Distance(g, q, Farthest(g, q, S))
    OBVIOUS
  <2>1. CASE a = Farthest(g, q, S)
    BY <1>8, <2>1
  <2>2. CASE a # Farthest(g, q, S)
    BY <1>7, <2>2, CloserLaws
  <2>3. QED
    BY <2>1, <2>2
<1>11. QED
  BY <1>6, <1>7, <1>9, <1>10

-----------------------------------------------------------------------------
(* The beam *)

(* Beams over a set of nodes. *)
Beams(N) == [cand : SUBSET N, result : SUBSET N, visited : SUBSET N]

(* What was visited and is not a candidate any more. *)
Spent(beam) == beam.visited \ beam.cand

(* The neighbours of the nodes in C were visited. *)
Covers(g, level, beam, C) == \A n \in C : ToSet(LinksAt(g, n, level)) \subseteq beam.visited

(* A beam of a search that entered at ep: it holds as many nodes as fit, or else     *)
(* all it has visited, and then the neighbours of those that are no candidates, c    *)
(* aside, were visited too.                                                  *)
BeamInv(g, ef, level, ep, beam, c) ==
  /\ ep \in beam.visited /\ beam.cand \subseteq beam.visited
  /\ beam.result \subseteq beam.visited /\ beam.result # {}
  /\ Cardinality(beam.result) <= ef
  /\ \/ Cardinality(beam.result) = ef
     \/ beam.result = beam.visited /\ Covers(g, level, beam, Spent(beam) \ c)

(* Meeting a node keeps beams over a set beams over it. *)
LEMMA MeetIsTyped ==
  ASSUME NEW g, NEW q, NEW ef, NEW N, NEW beam \in Beams(N), NEW n \in N
  PROVE  Meet(g, q, ef, beam, n) \in Beams(N)
  BY DEF Meet, Beams

(* Meeting a node visits it and gives nothing up. *)
LEMMA MeetKeeps ==
  ASSUME NEW g, Walkable(g), NEW q \in Int, NEW ef \in Nat \ {0}, NEW level, NEW ep, NEW c,
         NEW beam \in Beams(DOMAIN g.nodes), NEW n \in DOMAIN g.nodes,
         BeamInv(g, ef, level, ep, beam, c)
  PROVE  /\ BeamInv(g, ef, level, ep, Meet(g, q, ef, beam, n), c)
         /\ n \in Meet(g, q, ef, beam, n).visited
         /\ beam.visited \subseteq Meet(g, q, ef, beam, n).visited
         /\ Spent(beam) \subseteq Spent(Meet(g, q, ef, beam, n))
<1> DEFINE met == Meet(g, q, ef, beam, n)
           grown == beam.result \union {n}
           far == Distance(g, q, Farthest(g, q, beam.result))
           kept == IF Cardinality(grown) > ef THEN grown \ {Farthest(g, q, grown)} ELSE grown
<1>1. CASE n \in beam.visited
  BY <1>1 DEF Meet
<1> SUFFICES ASSUME n \notin beam.visited
             PROVE  BeamInv(g, ef, level, ep, met, c) /\ n \in met.visited
                    /\ beam.visited \subseteq met.visited /\ Spent(beam) \subseteq Spent(met)
  BY <1>1
<1>2. beam.result \in SUBSET DOMAIN g.nodes /\ grown \in SUBSET DOMAIN g.nodes
  BY DEF Beams
<1>3. n \notin beam.result
  BY DEF BeamInv
<1>4. IsFiniteSet(beam.result) /\ IsFiniteSet(grown)
      /\ Cardinality(beam.result) \in Nat /\ Cardinality(grown) = Cardinality(beam.result) + 1
  <2>1. IsFiniteSet(beam.result) /\ Cardinality(beam.result) \in Nat
    BY <1>2, AscendingLaws
  <2>2. QED
    BY <1>2, <1>3, <2>1, AscendingLaws, FS_AddElement
<1>5. CASE Distance(g, q, n) >= far /\ Cardinality(beam.result) >= ef
  <2>1. met = [beam EXCEPT !.visited = @ \union {n}]
    BY <1>5 DEF Meet
  <2>2. /\ met.visited = beam.visited \union {n} /\ met.cand = beam.cand
        /\ met.result = beam.result
    BY <2>1 DEF Beams
  <2>3. Cardinality(met.result) = ef
    BY <1>4, <1>5, <2>2 DEF BeamInv
  <2> HIDE DEF met
  <2>4. QED
    BY <2>2, <2>3 DEF BeamInv, Spent
<1>6. CASE ~ (Distance(g, q, n) >= far /\ Cardinality(beam.result) >= ef)
  <2>1. met = [cand |-> beam.cand \union {n}, visited |-> beam.visited \union {n}, result |-> kept]
    BY <1>6 DEF Meet
  <2>2. /\ met.visited = beam.visited \union {n} /\ met.cand = beam.cand \union {n}
        /\ met.result = kept
    BY <2>1
  <2> HIDE DEF met
  <2>3. Spent(met) = Spent(beam)
    BY <2>2 DEF Spent, BeamInv
  <2>4. CASE Cardinality(grown) > ef
    <3>1. Farthest(g, q, grown) \in grown
      BY <1>2, NearestLaws
    <3>2. Cardinality(kept) = Cardinality(grown) - 1
      <4>1. kept = grown \ {Farthest(g, q, grown)}
        BY <2>4
      <4> HIDE DEF kept, grown
      <4>2. QED
        BY <1>4, <3>1, <4>1, FS_RemoveElement
    <3>3. Cardinality(kept) = ef
      BY <1>4, <2>4, <3>2 DEF BeamInv
    <3>4. kept # {}
      BY <3>3, FS_EmptySet
    <3>5. kept \subseteq grown
      OBVIOUS
    <3> HIDE DEF kept
    <3>6. QED
      BY <2>2, <2>3, <3>3, <3>4, <3>5 DEF BeamInv
  <2>5. CASE ~ (Cardinality(grown) > ef)
    <3>1. kept = grown /\ Cardinality(grown) <= ef /\ Cardinality(beam.result) < ef
      BY <1>4, <2>5
    <3> HIDE DEF kept
    <3>2. beam.result = beam.visited /\ Covers(g, level, beam, Spent(beam) \ c)
      BY <1>4, <3>1 DEF BeamInv
    <3>3. Covers(g, level, met, Spent(met) \ c)
      BY <2>2, <2>3, <3>2 DEF Covers
    <3>4. QED
      BY <2>2, <2>3, <3>1, <3>2, <3>3 DEF BeamInv
  <2>6. QED
    BY <2>4, <2>5
<1>7. QED
  BY <1>5, <1>6

(* r is the beam after each of the neighbours met. *)
Meets(g, q, ef, beam, links, r) ==
  /\ r \in [0 .. Len(links) -> Beams(DOMAIN g.nodes)]
  /\ r[0] = beam
  /\ \A i \in 1 .. Len(links) : r[i] = Meet(g, q, ef, r[i - 1], links[i])
  /\ FoldLeft(LAMBDA b, n : Meet(g, q, ef, b, n), beam, links) = r[Len(links)]

(* Neighbours are met one after another. *)
LEMMA MeetingIsAFold ==
  ASSUME NEW g, NEW q, NEW ef, NEW beam \in Beams(DOMAIN g.nodes),
         NEW links \in Seq(DOMAIN g.nodes)
  PROVE  \E r : Meets(g, q, ef, beam, links, r)
<1> DEFINE T == Beams(DOMAIN g.nodes)
           m == Len(links)
           Body(it) == [U \in SUBSET DOMAIN links |->
                          IF U = {} THEN beam
                          ELSE Meet(g, q, ef, it[U \ {Max(U)}], links[Max(U)])]
           Iter == CHOOSE it : it = Body(it)
           step == [x \in (1 .. m) \X T |-> Meet(g, q, ef, x[2], links[x[1]])]
           r == [i \in 0 .. m |-> Iter[1 .. i]]
           fold == FoldLeft(LAMBDA b, n : Meet(g, q, ef, b, n), beam, links)
<1>1. m \in Nat /\ DOMAIN links = 1 .. m /\ \A i \in 1 .. m : links[i] \in DOMAIN g.nodes
  OBVIOUS
<1>2. fold = Iter[1 .. m]
  BY <1>1 DEF FoldLeft, MapThenFoldSet
<1>3. step \in [(1 .. m) \X T -> T]
  BY <1>1, MeetIsTyped
<1> HIDE DEF T
<1>4. PICK f : f \in [SUBSET (1 .. m) -> T] /\ FoldsLeft(f, m, beam, step)
  <2>1. beam \in T
    BY DEF T
  <2> HIDE DEF step
  <2>2. QED
    BY <1>1, <1>3, <2>1, FoldExists, Zenon
<1>5. f = Body(f)
  <2>1. \A U \in SUBSET (1 .. m) :
          U # {} => Max(U) \in 1 .. m /\ U \ {Max(U)} \in SUBSET (1 .. m)
    BY MaxIsGreatest, <1>1
  <2>2. \A U \in SUBSET (1 .. m) :
          f[U] = IF U = {} THEN beam ELSE Meet(g, q, ef, f[U \ {Max(U)}], links[Max(U)])
    BY <1>4, <2>1 DEF FoldsLeft
  <2>3. QED
    BY <1>1, <1>4, <2>2
<1>6. Iter = Body(Iter)
  <2> HIDE DEF Body
  <2>1. QED
    BY <1>5
<1> HIDE DEF Iter
<1>7. r[0] = beam
  <2>1. Iter[{}] = Body(Iter)[{}] /\ 1 .. 0 = {}
    BY <1>6
  <2>2. QED
    BY <1>1, <2>1
<1>8. ASSUME NEW i \in 1 .. m PROVE r[i] = Meet(g, q, ef, r[i - 1], links[i])
  <2>1. i - 1 \in Nat /\ i - 1 \in 0 .. m /\ i \in 0 .. m /\ i - 1 + 1 = i
    OBVIOUS
  <2>2. 1 .. i # {} /\ Max(1 .. i) = i /\ (1 .. i) \ {i} = 1 .. i - 1
    BY <2>1, LastPosition
  <2>3. 1 .. i \in SUBSET DOMAIN links
    BY <1>1
  <2>4. Iter[1 .. i] = Body(Iter)[1 .. i]
    BY <1>6
  <2>5. Iter[1 .. i] = Meet(g, q, ef, Iter[1 .. i - 1], links[i])
    BY <2>2, <2>3, <2>4
  <2>6. QED
    BY <2>1, <2>5
<1> HIDE DEF r, m, fold
<1>9. \A i \in 0 .. m : r[i] \in T
  <2> DEFINE G == {i \in Nat : i <= m => r[i] \in T}
  <2>1. 0 \in G
    BY <1>7 DEF T
  <2>2. ASSUME NEW i \in Nat, i \in G PROVE i + 1 \in G
    <3> SUFFICES ASSUME i + 1 <= m PROVE r[i + 1] \in T
      OBVIOUS
    <3>1. i + 1 \in 1 .. m /\ i + 1 - 1 = i /\ r[i] \in T
      BY <1>1, <2>2
    <3>2. r[i + 1] = Meet(g, q, ef, r[i], links[i + 1])
      BY <1>8, <3>1
    <3>3. QED
      BY <1>1, <3>1, <3>2, MeetIsTyped DEF T
  <2> HIDE DEF G
  <2>3. \A i \in Nat : i \in G
    BY <2>1, <2>2, NumbersInduction
  <2>4. QED
    BY <2>3 DEF G
<1>10. fold = r[m]
  BY <1>1, <1>2 DEF r
<1>11. r \in [0 .. m -> T]
  BY <1>9 DEF r
<1>12. Meets(g, q, ef, beam, links, r)
  BY <1>7, <1>8, <1>10, <1>11 DEF Meets, T, m, fold
<1>13. QED
  BY <1>12

(* A search is over when no candidate is left, or the nearest cannot help. *)
Over(g, q, ef, beam) ==
  \/ beam.cand = {}
  \/ /\ Distance(g, q, Nearest(g, q, beam.cand)) > Distance(g, q, Farthest(g, q, beam.result))
     /\ Cardinality(beam.result) >= ef

(* A round leads from beam to next: if the search is not over a candidate is spent. *)
RoundMakes(g, q, ef, level, ep, C, beam, next) ==
  /\ next \in Beams(DOMAIN g.nodes)
  /\ BeamInv(g, ef, level, ep, next, {}) /\ next.visited \subseteq C
  /\ Over(g, q, ef, beam) => next = beam
  /\ ~ Over(g, q, ef, beam) =>
       \E c \in beam.cand : Spent(beam) \union {c} \subseteq Spent(next)

(* A round does so, and stays in a closed set. *)
LEMMA ExpandKeeps ==
  ASSUME NEW g, Walkable(g), NEW q \in Int, NEW ef \in Nat \ {0}, NEW level \in Nat, NEW ep,
         NEW C \in SUBSET DOMAIN g.nodes, Closed(g, C, level),
         NEW beam \in Beams(DOMAIN g.nodes), BeamInv(g, ef, level, ep, beam, {}),
         beam.visited \subseteq C
  PROVE  RoundMakes(g, q, ef, level, ep, C, beam, Expand(g, q, ef, level, beam))
<1> DEFINE c == Nearest(g, q, beam.cand)
           links == LinksAt(g, c, level)
           first == [beam EXCEPT !.cand = @ \ {c}]
           next == Expand(g, q, ef, level, beam)
           m == Len(links)
           fold == FoldLeft(LAMBDA b, n : Meet(g, q, ef, b, n), first, links)
<1>1. next = IF Over(g, q, ef, beam) THEN beam ELSE fold
  BY DEF Expand, Over
<1> HIDE DEF next
<1>2. CASE Over(g, q, ef, beam)
  BY <1>1, <1>2 DEF RoundMakes, next
<1> SUFFICES ASSUME ~ Over(g, q, ef, beam) PROVE RoundMakes(g, q, ef, level, ep, C, beam, next)
  BY <1>2 DEF next
<1>3. c \in beam.cand /\ c \in DOMAIN g.nodes /\ c \in C
  <2>1. beam.cand \in SUBSET DOMAIN g.nodes /\ beam.cand # {} /\ beam.cand \subseteq C
    BY DEF Over, Beams, BeamInv
  <2>2. QED
    BY <2>1, NearestLaws
<1> HIDE DEF c
<1>4. /\ links \in Seq(DOMAIN g.nodes) /\ ToSet(links) \subseteq C
      /\ m \in Nat /\ DOMAIN links = 1 .. m
      /\ ToSet(links) = {links[i] : i \in 1 .. m}
  <2>1. links \in Seq(DOMAIN g.nodes)
    BY <1>3 DEF Walkable
  <2>2. ToSet(links) \subseteq C
    BY <1>3 DEF Closed
  <2> HIDE DEF links
  <2>3. QED
    BY <2>1, <2>2 DEF ToSet
<1> HIDE DEF links, m
<1>5. /\ first \in Beams(DOMAIN g.nodes) /\ first.cand = beam.cand \ {c}
      /\ first.result = beam.result /\ first.visited = beam.visited
  BY DEF Beams
<1> HIDE DEF first
<1>6. Spent(first) = Spent(beam) \union {c} /\ c \notin Spent(beam)
  BY <1>3, <1>5 DEF Spent, BeamInv
<1>7. BeamInv(g, ef, level, ep, first, {c})
  <2>1. Covers(g, level, beam, Spent(beam) \ {}) => Covers(g, level, first, Spent(first) \ {c})
    BY <1>5, <1>6 DEF Covers
  <2>2. first.cand \subseteq first.visited
    BY <1>5 DEF BeamInv
  <2>3. QED
    BY <1>5, <2>1, <2>2 DEF BeamInv
<1>8. PICK r : Meets(g, q, ef, first, links, r)
  BY <1>4, <1>5, MeetingIsAFold
<1>9. /\ r \in [0 .. m -> Beams(DOMAIN g.nodes)] /\ r[0] = first
      /\ \A i \in 1 .. m : r[i] = Meet(g, q, ef, r[i - 1], links[i])
      /\ fold = r[m]
  BY <1>8 DEF Meets, m
<1> HIDE DEF fold
<1> DEFINE Good(i) == /\ BeamInv(g, ef, level, ep, r[i], {c})
                      /\ Spent(first) \subseteq Spent(r[i])
                      /\ \A j \in 1 .. i : links[j] \in r[i].visited
                      /\ r[i].visited \subseteq C
           G == {i \in Nat : i <= m => Good(i)}
<1>10. 0 \in G
  BY <1>5, <1>7, <1>9
<1>11. ASSUME NEW i \in Nat, i \in G PROVE i + 1 \in G
  <2> SUFFICES ASSUME i + 1 <= m PROVE Good(i + 1)
    OBVIOUS
  <2>1. i + 1 \in 1 .. m /\ i + 1 - 1 = i /\ i \in 0 .. m /\ i <= m
    BY <1>4
  <2>2. Good(i)
    BY <1>11, <2>1
  <2> DEFINE n == links[i + 1]
             b == r[i]
  <2>3. r[i + 1] = Meet(g, q, ef, b, n) /\ b \in Beams(DOMAIN g.nodes)
    BY <1>9, <2>1
  <2>4. n \in DOMAIN g.nodes /\ n \in C
    BY <1>4, <2>1
  <2>5. BeamInv(g, ef, level, ep, b, {c})
    BY <2>2
  <2> HIDE DEF n, b
  <2>6. /\ BeamInv(g, ef, level, ep, r[i + 1], {c}) /\ n \in r[i + 1].visited
        /\ b.visited \subseteq r[i + 1].visited /\ Spent(b) \subseteq Spent(r[i + 1])
    BY <2>3, <2>4, <2>5, MeetKeeps
  <2>7. r[i + 1].visited \subseteq b.visited \union {n}
    BY <2>3 DEF Meet, Beams
  <2>8. \A j \in 1 .. i + 1 : j \in 1 .. i \/ j = i + 1
    OBVIOUS
  <2>9. QED
    BY <2>2, <2>4, <2>6, <2>7, <2>8 DEF n, b
<1>12. Good(m)
  <2> HIDE DEF Good
  <2>1. \A i \in Nat : i \in G
    <3> HIDE DEF G
    <3>1. QED
      BY <1>10, <1>11, NumbersInduction
  <2>2. QED
    BY <1>4, <2>1
<1>13. next = r[m] /\ next \in Beams(DOMAIN g.nodes)
  <2>1. m \in 0 .. m
    BY <1>4
  <2>2. QED
    BY <1>1, <1>9, <2>1
<1>14. BeamInv(g, ef, level, ep, next, {})
  <2>1. BeamInv(g, ef, level, ep, next, {c})
    BY <1>12, <1>13
  <2>2. ToSet(LinksAt(g, c, level)) \subseteq next.visited
    BY <1>4, <1>12, <1>13 DEF links
  <2>3. Covers(g, level, next, Spent(next) \ {c}) => Covers(g, level, next, Spent(next) \ {})
    BY <2>2 DEF Covers
  <2>4. QED
    BY <2>1, <2>3 DEF BeamInv
<1>15. Spent(beam) \union {c} \subseteq Spent(next) /\ next.visited \subseteq C
  BY <1>6, <1>12, <1>13
<1>16. QED
  BY <1>3, <1>13, <1>14, <1>15 DEF RoundMakes

(* A round takes beams to beams, whatever they are. *)
LEMMA ExpandIsTyped ==
  ASSUME NEW g, Walkable(g), NEW q \in Int, NEW ef, NEW level \in Nat,
         NEW beam \in Beams(DOMAIN g.nodes)
  PROVE  Expand(g, q, ef, level, beam) \in Beams(DOMAIN g.nodes)
<1> DEFINE c == Nearest(g, q, beam.cand)
           links == LinksAt(g, c, level)
           first == [beam EXCEPT !.cand = @ \ {c}]
           fold == FoldLeft(LAMBDA b, n : Meet(g, q, ef, b, n), first, links)
<1>1. Expand(g, q, ef, level, beam) = IF Over(g, q, ef, beam) THEN beam ELSE fold
  BY DEF Expand, Over
<1>2. CASE Over(g, q, ef, beam)
  BY <1>1, <1>2
<1>3. CASE ~ Over(g, q, ef, beam)
  <2>1. c \in DOMAIN g.nodes
    <3>1. beam.cand \in SUBSET DOMAIN g.nodes /\ beam.cand # {}
      BY <1>3 DEF Over, Beams
    <3>2. QED
      BY <3>1, NearestLaws
  <2> HIDE DEF c
  <2>2. links \in Seq(DOMAIN g.nodes) /\ first \in Beams(DOMAIN g.nodes)
    BY <2>1 DEF Walkable, Beams
  <2>3. PICK r : Meets(g, q, ef, first, links, r)
    BY <2>2, MeetingIsAFold
  <2>4. Len(links) \in 0 .. Len(links)
    BY <2>2
  <2> HIDE DEF first, links
  <2>5. fold = r[Len(links)] /\ r \in [0 .. Len(links) -> Beams(DOMAIN g.nodes)]
    BY <2>3 DEF Meets
  <2> HIDE DEF fold
  <2>6. QED
    BY <1>1, <1>3, <2>4, <2>5
<1>4. QED
  BY <1>2, <1>3

(* r is the beam after each round of a search that enters at ep. *)
Rounds(g, q, ep, ef, level, r) ==
  /\ r \in [0 .. Len(g.nodes) -> Beams(DOMAIN g.nodes)]
  /\ r[0] = [cand |-> {ep}, result |-> {ep}, visited |-> {ep}]
  /\ \A i \in 1 .. Len(g.nodes) : r[i] = Expand(g, q, ef, level, r[i - 1])
  /\ SearchLayer(g, q, ep, ef, level) = r[Len(g.nodes)].result

(* A search is a fold. *)
LEMMA SearchIsAFold ==
  ASSUME NEW g, Walkable(g), NEW q \in Int, NEW ep \in DOMAIN g.nodes, NEW ef, NEW level \in Nat
  PROVE  \E r : Rounds(g, q, ep, ef, level, r)
<1> DEFINE T == Beams(DOMAIN g.nodes)
           m == Len(g.nodes)
           beam == [cand |-> {ep}, result |-> {ep}, visited |-> {ep}]
           Body(it) == [U \in SUBSET DOMAIN g.nodes |->
                          IF U = {} THEN beam
                          ELSE Expand(g, q, ef, level, it[U \ {Max(U)}])]
           Iter == CHOOSE it : it = Body(it)
           step == [x \in (1 .. m) \X T |-> Expand(g, q, ef, level, x[2])]
           r == [i \in 0 .. m |-> Iter[1 .. i]]
<1>1. m \in Nat /\ DOMAIN g.nodes = 1 .. m
  BY DEF Walkable
<1>2. SearchLayer(g, q, ep, ef, level) = Iter[1 .. m].result
  BY <1>1 DEF SearchLayer, FoldLeft, MapThenFoldSet
<1>3. step \in [(1 .. m) \X T -> T]
  BY ExpandIsTyped
<1>4. beam \in T
  BY DEF Beams
<1> HIDE DEF T, m, beam
<1>5. PICK f : f \in [SUBSET (1 .. m) -> T] /\ FoldsLeft(f, m, beam, step)
  <2> HIDE DEF step
  <2>1. QED
    BY <1>1, <1>3, <1>4, FoldExists, Zenon
<1>6. f = Body(f)
  <2>1. \A U \in SUBSET (1 .. m) :
          U # {} => Max(U) \in 1 .. m /\ U \ {Max(U)} \in SUBSET (1 .. m)
    BY MaxIsGreatest, <1>1
  <2>2. \A U \in SUBSET (1 .. m) :
          f[U] = IF U = {} THEN beam ELSE Expand(g, q, ef, level, f[U \ {Max(U)}])
    BY <1>5, <2>1 DEF FoldsLeft
  <2>3. QED
    BY <1>1, <1>5, <2>2
<1>7. Iter = Body(Iter)
  <2> HIDE DEF Body
  <2>1. QED
    BY <1>6
<1> HIDE DEF Iter
<1>8. r[0] = beam
  <2>1. Iter[{}] = Body(Iter)[{}] /\ 1 .. 0 = {}
    BY <1>7
  <2>2. QED
    BY <1>1, <2>1
<1>9. ASSUME NEW i \in 1 .. m PROVE r[i] = Expand(g, q, ef, level, r[i - 1])
  <2>1. i - 1 \in Nat /\ i - 1 \in 0 .. m /\ i \in 0 .. m /\ i - 1 + 1 = i
    BY <1>1
  <2>2. 1 .. i # {} /\ Max(1 .. i) = i /\ (1 .. i) \ {i} = 1 .. i - 1
    BY <2>1, LastPosition
  <2>3. 1 .. i \in SUBSET DOMAIN g.nodes
    BY <1>1
  <2>4. Iter[1 .. i] = Body(Iter)[1 .. i]
    BY <1>7
  <2>5. Iter[1 .. i] = Expand(g, q, ef, level, Iter[1 .. i - 1])
    BY <2>2, <2>3, <2>4
  <2>6. QED
    BY <2>1, <2>5
<1> HIDE DEF r
<1>10. \A i \in 0 .. m : r[i] \in T
  <2> DEFINE G == {i \in Nat : i <= m => r[i] \in T}
  <2>1. 0 \in G
    BY <1>4, <1>8
  <2>2. ASSUME NEW i \in Nat, i \in G PROVE i + 1 \in G
    <3> SUFFICES ASSUME i + 1 <= m PROVE r[i + 1] \in T
      OBVIOUS
    <3>1. i + 1 \in 1 .. m /\ i + 1 - 1 = i /\ r[i] \in T
      BY <1>1, <2>2
    <3>2. r[i + 1] = Expand(g, q, ef, level, r[i])
      BY <1>9, <3>1
    <3>3. QED
      BY <3>1, <3>2, ExpandIsTyped DEF T
  <2> HIDE DEF G
  <2>3. \A i \in Nat : i \in G
    BY <2>1, <2>2, NumbersInduction
  <2>4. QED
    BY <2>3 DEF G
<1>11. SearchLayer(g, q, ep, ef, level) = r[m].result
  BY <1>1, <1>2 DEF r
<1>12. r \in [0 .. m -> T]
  BY <1>10 DEF r
<1>13. Rounds(g, q, ep, ef, level, r)
  BY <1>8, <1>9, <1>11, <1>12 DEF Rounds, T, m, beam
<1>14. QED
  BY <1>13

(* What a search finds lies where its entry can lead: as many nodes as it asks for,  *)
(* or else all nodes the entry leads to.                                      *)
LEMMA SearchEnds ==
  ASSUME NEW g, Walkable(g), NEW q \in Int, NEW ef \in Nat \ {0}, NEW level \in Nat,
         NEW C \in SUBSET DOMAIN g.nodes, Closed(g, C, level), NEW ep \in C
  PROVE  LET w == SearchLayer(g, q, ep, ef, level)
         IN  /\ w \in SUBSET C /\ w # {}
             /\ IsFiniteSet(w) /\ Cardinality(w) \in Nat /\ Cardinality(w) <= ef
             /\ Cardinality(w) = ef \/ (ep \in w /\ Closed(g, w, level))
<1> DEFINE w == SearchLayer(g, q, ep, ef, level)
           m == Len(g.nodes)
           N == DOMAIN g.nodes
<1>1. m \in Nat /\ N = 1 .. m /\ IsFiniteSet(N) /\ Cardinality(N) = m
  <2>1. m \in Nat /\ N = 1 .. m
    BY DEF Walkable
  <2>2. IsFiniteSet(1 .. m) /\ Cardinality(1 .. m) = m
    BY <2>1, FS_Interval
  <2> HIDE DEF m, N
  <2>3. QED
    BY <2>1, <2>2
<1>2. PICK r : Rounds(g, q, ep, ef, level, r)
  BY SearchIsAFold
<1>3. /\ \A i \in 0 .. m : r[i] \in Beams(N)
      /\ r[0] = [cand |-> {ep}, result |-> {ep}, visited |-> {ep}]
      /\ \A i \in 1 .. m : r[i] = Expand(g, q, ef, level, r[i - 1])
      /\ w = r[m].result
  BY <1>2 DEF Rounds
<1> HIDE DEF w, m, N
<1> DEFINE Good(b) == BeamInv(g, ef, level, ep, b, {}) /\ b.visited \subseteq C
           Far(i, b) == Over(g, q, ef, b) \/ Cardinality(Spent(b)) >= i
           G == {i \in Nat : i <= m => Good(r[i]) /\ Far(i, r[i])}
<1>4. \A b \in Beams(N) : IsFiniteSet(Spent(b)) /\ Spent(b) \in SUBSET N /\ Cardinality(Spent(b)) \in Nat
  <2> SUFFICES ASSUME NEW b \in Beams(N)
               PROVE  IsFiniteSet(Spent(b)) /\ Spent(b) \in SUBSET N /\ Cardinality(Spent(b)) \in Nat
    OBVIOUS
  <2>1. Spent(b) \in SUBSET N
    BY DEF Beams, Spent
  <2>2. QED
    BY <1>1, <2>1, FS_Subset, FS_CardinalityType
<1>5. 0 \in G
  <2> DEFINE b == r[0]
  <2>1. b.cand = {ep} /\ b.result = {ep} /\ b.visited = {ep} /\ b \in Beams(N)
    BY <1>1, <1>3
  <2>2. Spent(b) = {} /\ Cardinality(Spent(b)) = 0 /\ Cardinality(b.result) = 1
    BY <2>1, FS_EmptySet, FS_Singleton DEF Spent
  <2> HIDE DEF b
  <2>3. Good(b)
    BY <2>1, <2>2 DEF BeamInv, Covers
  <2>4. Far(0, b)
    BY <2>2
  <2> HIDE DEF Good, Far
  <2>5. QED
    BY <2>3, <2>4 DEF b
<1>6. ASSUME NEW i \in Nat, i \in G PROVE i + 1 \in G
  <2> SUFFICES ASSUME i + 1 <= m PROVE Good(r[i + 1]) /\ Far(i + 1, r[i + 1])
    OBVIOUS
  <2>1. i + 1 \in 1 .. m /\ i + 1 - 1 = i /\ i <= m /\ i \in 0 .. m
    BY <1>1
  <2> DEFINE b == r[i]
             next == r[i + 1]
  <2>2. next = Expand(g, q, ef, level, b) /\ b \in Beams(N) /\ Good(b) /\ Far(i, b)
    BY <1>3, <1>6, <2>1
  <2> HIDE DEF next, b
  <2>3. RoundMakes(g, q, ef, level, ep, C, b, next)
    BY <2>2, ExpandKeeps DEF N
  <2>4. next \in Beams(N) /\ Good(next)
    BY <2>3 DEF RoundMakes, N
  <2>5. Far(i + 1, next)
    <3>1. CASE Over(g, q, ef, b)
      BY <2>3, <3>1 DEF RoundMakes
    <3>2. CASE ~ Over(g, q, ef, b)
      <4>1. PICK c \in b.cand : Spent(b) \union {c} \subseteq Spent(next)
        BY <2>3, <3>2 DEF RoundMakes
      <4>2. IsFiniteSet(Spent(b)) /\ c \notin Spent(b) /\ Cardinality(Spent(b)) >= i
        BY <1>4, <2>2, <3>2 DEF Spent
      <4>3. Cardinality(Spent(b) \union {c}) = Cardinality(Spent(b)) + 1
        BY <4>2, FS_AddElement
      <4>4. Cardinality(Spent(b) \union {c}) <= Cardinality(Spent(next))
        <5>1. IsFiniteSet(Spent(next))
          BY <1>4, <2>4
        <5>2. QED
          BY <4>1, <5>1, FS_Subset
      <4>5. Cardinality(Spent(b)) \in Nat /\ Cardinality(Spent(next)) \in Nat
        BY <1>4, <2>2, <2>4
      <4>6. Cardinality(Spent(next)) >= i + 1
        BY <4>2, <4>3, <4>4, <4>5
      <4>7. QED
        BY <4>6
    <3>3. QED
      BY <3>1, <3>2
  <2>6. QED
    BY <2>4, <2>5 DEF next
<1> DEFINE b == r[m]
<1>7. b \in Beams(N) /\ Good(b) /\ Far(m, b)
  <2> HIDE DEF Good, Far
  <2>1. \A i \in Nat : i \in G
    <3> HIDE DEF G
    <3>1. QED
      BY <1>5, <1>6, NumbersInduction
  <2>2. m \in 0 .. m /\ m \in G
    BY <1>1, <2>1
  <2>3. QED
    BY <1>1, <1>3, <2>2
<1>8. w = b.result
  BY <1>3
<1> HIDE DEF b
<1>9. Cardinality(w) = ef \/ b.cand = {}
  <2>1. CASE b.cand = {}
    BY <2>1
  <2>2. CASE Over(g, q, ef, b) /\ b.cand # {}
    <3>1. Cardinality(b.result) >= ef /\ Cardinality(b.result) <= ef
      BY <1>7, <2>2 DEF Over, BeamInv
    <3>2. Cardinality(b.result) \in Nat
      <4>1. b.result \in SUBSET DOMAIN g.nodes
        BY <1>7 DEF Beams, N
      <4>2. QED
        BY <4>1, AscendingLaws
    <3>3. QED
      BY <1>8, <3>1, <3>2
  <2>3. CASE Cardinality(Spent(b)) >= m
    <3>1. Spent(b) \in SUBSET N /\ Cardinality(Spent(b)) \in Nat /\ Cardinality(Spent(b)) <= m
      BY <1>1, <1>4, <1>7, FS_Subset
    <3>2. Cardinality(Spent(b)) = Cardinality(N)
      BY <1>1, <2>3, <3>1
    <3>3. Spent(b) = N
      BY <1>1, <3>1, <3>2, FS_Subset
    <3>4. b.cand \subseteq N
      BY <1>7 DEF Beams
    <3>5. QED
      BY <3>3, <3>4 DEF Spent
  <2>4. QED
    BY <1>7, <2>1, <2>2, <2>3
<1>10. w \in SUBSET C /\ w # {} /\ Cardinality(w) <= ef
  BY <1>7, <1>8 DEF BeamInv
<1>11. IsFiniteSet(w) /\ Cardinality(w) \in Nat
  <2>1. w \in SUBSET DOMAIN g.nodes
    BY <1>10
  <2>2. QED
    BY <2>1, AscendingLaws
<1>12. Cardinality(w) = ef \/ (ep \in w /\ Closed(g, w, level))
  <2> SUFFICES ASSUME Cardinality(w) # ef PROVE ep \in w /\ Closed(g, w, level)
    OBVIOUS
  <2>1. w = b.visited /\ Covers(g, level, b, Spent(b) \ {}) /\ ep \in b.visited
    BY <1>7, <1>8 DEF BeamInv
  <2>2. Spent(b) = b.visited
    BY <1>9 DEF Spent
  <2>3. QED
    BY <2>1, <2>2 DEF Covers, Closed
<1>13. QED
  BY <1>10, <1>11, <1>12 DEF w

(* The nodes a search can come to are the least closed set with its entry.        *)
LEMMA ReachableLaws ==
  ASSUME NEW g, Walkable(g), NEW q \in Int, BaseEntry(g, q) \in DOMAIN g.nodes
  PROVE  /\ Reachable(g, q) \in SUBSET DOMAIN g.nodes /\ BaseEntry(g, q) \in Reachable(g, q)
         /\ Closed(g, Reachable(g, q), 0)
         /\ \A C \in SUBSET DOMAIN g.nodes :
              Closed(g, C, 0) /\ BaseEntry(g, q) \in C => Reachable(g, q) \subseteq C
<1> DEFINE R == Reachable(g, q)
           e == BaseEntry(g, q)
<1>1. R = {n \in DOMAIN g.nodes :
             \A C \in SUBSET DOMAIN g.nodes : Closed(g, C, 0) /\ e \in C => n \in C}
  BY DEF Reachable
<1> HIDE DEF R, e
<1>2. \A n \in DOMAIN g.nodes : ToSet(LinksAt(g, n, 0)) \subseteq DOMAIN g.nodes
  <2> SUFFICES ASSUME NEW n \in DOMAIN g.nodes
               PROVE  ToSet(LinksAt(g, n, 0)) \subseteq DOMAIN g.nodes
    OBVIOUS
  <2>1. LinksAt(g, n, 0) \in Seq(DOMAIN g.nodes)
    BY DEF Walkable
  <2>2. QED
    BY <2>1 DEF ToSet
<1>3. Closed(g, R, 0)
  <2> SUFFICES ASSUME NEW n \in R, NEW b \in ToSet(LinksAt(g, n, 0)) PROVE b \in R
    BY DEF Closed
  <2>1. b \in DOMAIN g.nodes
    BY <1>1, <1>2
  <2>2. \A C \in SUBSET DOMAIN g.nodes : Closed(g, C, 0) /\ e \in C => b \in C
    BY <1>1 DEF Closed
  <2>3. QED
    BY <1>1, <2>1, <2>2
<1>4. R \in SUBSET DOMAIN g.nodes /\ e \in R
  BY <1>1 DEF e
<1>5. \A C \in SUBSET DOMAIN g.nodes : Closed(g, C, 0) /\ e \in C => R \subseteq C
  BY <1>1
<1>6. QED
  BY <1>3, <1>4, <1>5 DEF R, e

(* At the lowest layer a search finds as many of them as fit into its beam.       *)
LEMMA SearchFindsReachable ==
  ASSUME NEW g, Walkable(g), NEW q \in Int, BaseEntry(g, q) \in DOMAIN g.nodes,
         NEW ef \in Nat \ {0}
  PROVE  LET w == SearchLayer(g, q, BaseEntry(g, q), ef, 0)
             R == Reachable(g, q)
         IN  /\ w \in SUBSET R /\ Cardinality(w) <= ef
             /\ Cardinality(w) \in Nat /\ Cardinality(R) \in Nat
             /\ Cardinality(w) = ef \/ w = R
             /\ Cardinality(R) <= ef => w = R
             /\ Cardinality(w) = Least(ef, Cardinality(R))
<1> DEFINE R == Reachable(g, q)
           w == SearchLayer(g, q, BaseEntry(g, q), ef, 0)
<1>1. /\ R \in SUBSET DOMAIN g.nodes /\ BaseEntry(g, q) \in R /\ Closed(g, R, 0)
      /\ \A C \in SUBSET DOMAIN g.nodes : Closed(g, C, 0) /\ BaseEntry(g, q) \in C => R \subseteq C
  BY ReachableLaws
<1> HIDE DEF R
<1>2. /\ w \in SUBSET R /\ IsFiniteSet(w) /\ Cardinality(w) \in Nat /\ Cardinality(w) <= ef
      /\ Cardinality(w) = ef \/ (BaseEntry(g, q) \in w /\ Closed(g, w, 0))
  BY <1>1, SearchEnds, 0 \in Nat
<1> HIDE DEF w
<1>3. IsFiniteSet(R) /\ Cardinality(R) \in Nat
  BY <1>1, AscendingLaws
<1>4. Cardinality(w) = ef \/ w = R
  <2>1. w \in SUBSET DOMAIN g.nodes
    BY <1>1, <1>2
  <2>2. QED
    BY <1>1, <1>2, <2>1
<1>5. Cardinality(w) <= Cardinality(R) /\ (Cardinality(w) = Cardinality(R) => w = R)
  BY <1>2, <1>3, FS_Subset
<1>6. QED
  BY <1>2, <1>3, <1>4, <1>5 DEF R, w, Least

(* The node a search of one layer with a beam of one is left with.               *)
LEMMA HopStays ==
  ASSUME NEW g, Walkable(g), NEW q \in Int, NEW ef \in Nat \ {0}, NEW level \in Nat,
         NEW C \in SUBSET DOMAIN g.nodes, Closed(g, C, level), NEW e \in C
  PROVE  Nearest(g, q, SearchLayer(g, q, e, ef, level)) \in C
<1> DEFINE w == SearchLayer(g, q, e, ef, level)
<1>1. w \in SUBSET C /\ w # {}
  BY SearchEnds
<1> HIDE DEF w
<1>2. w \in SUBSET DOMAIN g.nodes
  BY <1>1
<1>3. Nearest(g, q, w) \in w
  BY <1>1, <1>2, NearestLaws
<1>4. QED
  BY <1>1, <1>3 DEF w

(* All nodes are a closed set. *)
LEMMA AllAreClosed ==
  ASSUME NEW g, Walkable(g), NEW level \in Nat
  PROVE  Closed(g, DOMAIN g.nodes, level)
<1> SUFFICES ASSUME NEW n \in DOMAIN g.nodes
             PROVE  ToSet(LinksAt(g, n, level)) \subseteq DOMAIN g.nodes
  BY DEF Closed
<1>1. LinksAt(g, n, level) \in Seq(DOMAIN g.nodes)
  BY DEF Walkable
<1>2. QED
  BY <1>1 DEF ToSet

(* How many levels a loop from .. down to .. goes through. *)
LoopLength(from, to) == IF from >= to THEN from - to + 1 ELSE 0

(* The levels of such a loop. *)
LEMMA DowntoLaws ==
  ASSUME NEW from \in Nat, NEW to \in Nat
  PROVE  /\ LoopLength(from, to) \in Nat
         /\ DOMAIN Downto(from, to) = 1 .. LoopLength(from, to)
         /\ \A i \in 1 .. LoopLength(from, to) :
              /\ Downto(from, to)[i] = from - i + 1
              /\ from - i + 1 \in Nat /\ from - i + 1 >= to /\ from - i + 1 <= from
  BY DEF LoopLength, Downto

(* r is where a descent is after each level. *)
Descends(g, q, ep, from, to, r) ==
  /\ r \in [0 .. LoopLength(from, to) -> DOMAIN g.nodes]
  /\ r[0] = ep
  /\ \A i \in 1 .. LoopLength(from, to) :
       r[i] = Nearest(g, q, SearchLayer(g, q, r[i - 1], 1, from - i + 1))
  /\ Descend(g, q, ep, from, to) = r[LoopLength(from, to)]

(* A descent is a fold. *)
LEMMA DescentIsAFold ==
  ASSUME NEW g, Walkable(g), NEW q \in Int, NEW from \in Nat, NEW to \in Nat,
         NEW ep \in DOMAIN g.nodes
  PROVE  \E r : Descends(g, q, ep, from, to, r)
<1> DEFINE T == DOMAIN g.nodes
           m == LoopLength(from, to)
           seq == Downto(from, to)
           hop(e, level) == Nearest(g, q, SearchLayer(g, q, e, 1, level))
           Body(it) == [U \in SUBSET DOMAIN seq |->
                          IF U = {} THEN ep ELSE hop(it[U \ {Max(U)}], seq[Max(U)])]
           Iter == CHOOSE it : it = Body(it)
           step == [x \in (1 .. m) \X T |-> hop(x[2], seq[x[1]])]
           r == [i \in 0 .. m |-> Iter[1 .. i]]
<1>1. /\ m \in Nat /\ DOMAIN seq = 1 .. m
      /\ \A i \in 1 .. m : seq[i] = from - i + 1 /\ seq[i] \in Nat
  BY DowntoLaws
<1>2. Descend(g, q, ep, from, to) = Iter[DOMAIN seq]
  BY DEF Descend, FoldLeft, MapThenFoldSet
<1>3. \A e \in T, level \in Nat : hop(e, level) \in T
  <2> SUFFICES ASSUME NEW e \in T, NEW level \in Nat PROVE hop(e, level) \in T
    OBVIOUS
  <2>1. Closed(g, T, level) /\ 1 \in Nat \ {0}
    BY AllAreClosed
  <2>2. QED
    BY <2>1, HopStays
<1> HIDE DEF T, m, seq, hop
<1>4. step \in [(1 .. m) \X T -> T]
  BY <1>1, <1>3
<1>5. PICK f : f \in [SUBSET (1 .. m) -> T] /\ FoldsLeft(f, m, ep, step)
  <2>1. ep \in T
    BY DEF T
  <2> HIDE DEF step
  <2>2. QED
    BY <1>1, <1>4, <2>1, FoldExists, Zenon
<1>6. f = Body(f)
  <2>1. \A U \in SUBSET (1 .. m) :
          U # {} => Max(U) \in 1 .. m /\ U \ {Max(U)} \in SUBSET (1 .. m)
    BY MaxIsGreatest, <1>1
  <2>2. \A U \in SUBSET (1 .. m) :
          f[U] = IF U = {} THEN ep ELSE hop(f[U \ {Max(U)}], seq[Max(U)])
    BY <1>5, <2>1 DEF FoldsLeft
  <2>3. QED
    BY <1>1, <1>5, <2>2
<1>7. Iter = Body(Iter)
  <2> HIDE DEF Body
  <2>1. QED
    BY <1>6
<1> HIDE DEF Iter
<1>8. r[0] = ep
  <2>1. Iter[{}] = Body(Iter)[{}] /\ 1 .. 0 = {}
    BY <1>7
  <2>2. QED
    BY <1>1, <2>1
<1>9. ASSUME NEW i \in 1 .. m PROVE r[i] = hop(r[i - 1], from - i + 1)
  <2>1. i - 1 \in Nat /\ i - 1 \in 0 .. m /\ i \in 0 .. m /\ i - 1 + 1 = i
    BY <1>1
  <2>2. 1 .. i # {} /\ Max(1 .. i) = i /\ (1 .. i) \ {i} = 1 .. i - 1
    BY <2>1, LastPosition
  <2>3. 1 .. i \in SUBSET DOMAIN seq
    BY <1>1
  <2>4. Iter[1 .. i] = Body(Iter)[1 .. i]
    BY <1>7
  <2>5. Iter[1 .. i] = hop(Iter[1 .. i - 1], seq[i])
    BY <2>2, <2>3, <2>4
  <2>6. QED
    BY <1>1, <2>1, <2>5
<1> HIDE DEF r
<1>10. \A i \in 0 .. m : r[i] \in T
  <2> DEFINE G == {i \in Nat : i <= m => r[i] \in T}
  <2>1. 0 \in G
    BY <1>8 DEF T
  <2>2. ASSUME NEW i \in Nat, i \in G PROVE i + 1 \in G
    <3> SUFFICES ASSUME i + 1 <= m PROVE r[i + 1] \in T
      OBVIOUS
    <3>1. i + 1 \in 1 .. m /\ i + 1 - 1 = i /\ r[i] \in T
      BY <1>1, <2>2
    <3>2. r[i + 1] = hop(r[i], from - (i + 1) + 1) /\ from - (i + 1) + 1 \in Nat
      BY <1>1, <1>9, <3>1
    <3>3. QED
      BY <1>3, <3>1, <3>2
  <2> HIDE DEF G
  <2>3. \A i \in Nat : i \in G
    BY <2>1, <2>2, NumbersInduction
  <2>4. QED
    BY <2>3 DEF G
<1>11. Descend(g, q, ep, from, to) = r[m]
  BY <1>1, <1>2 DEF r
<1>12. r \in [0 .. m -> T]
  BY <1>10 DEF r
<1>13. Descends(g, q, ep, from, to, r)
  BY <1>8, <1>9, <1>11, <1>12 DEF Descends, T, m, hop
<1>14. QED
  BY <1>13

(* Sets of nodes, each closed at its level, the higher in the lower. *)
Layers(g, lay, from, to) ==
  /\ \A l \in to .. from : lay[l] \in SUBSET DOMAIN g.nodes /\ Closed(g, lay[l], l)
  /\ \A l \in to .. from : l + 1 \in to .. from => lay[l + 1] \subseteq lay[l]

(* A descent ends in the lowest of its layers. *)
LEMMA DescentStays ==
  ASSUME NEW g, Walkable(g), NEW q \in Int, NEW from \in Nat, NEW to \in Nat,
         NEW ep \in DOMAIN g.nodes, NEW lay, Layers(g, lay, from, to),
         from >= to => ep \in lay[from]
  PROVE  /\ Descend(g, q, ep, from, to) \in DOMAIN g.nodes
         /\ from >= to => Descend(g, q, ep, from, to) \in lay[to]
         /\ from < to => Descend(g, q, ep, from, to) = ep
<1> DEFINE m == LoopLength(from, to)
<1>1. PICK r : Descends(g, q, ep, from, to, r)
  BY DescentIsAFold
<1>2. /\ m \in Nat /\ r \in [0 .. m -> DOMAIN g.nodes] /\ r[0] = ep
      /\ \A i \in 1 .. m : r[i] = Nearest(g, q, SearchLayer(g, q, r[i - 1], 1, from - i + 1))
      /\ Descend(g, q, ep, from, to) = r[m]
  BY <1>1, DowntoLaws DEF Descends
<1>3. CASE from < to
  <2>1. m = 0
    BY <1>3 DEF LoopLength
  <2>2. QED
    BY <1>2, <1>3, <2>1
<1>4. CASE from >= to
  <2>1. m = from - to + 1
    BY <1>4 DEF LoopLength
  <2> HIDE DEF m
  <2> DEFINE G == {i \in Nat : i >= 1 /\ i <= m => r[i] \in lay[from - i + 1]}
  <2>2. ASSUME NEW i \in Nat, i + 1 <= m, i >= 1 => r[i] \in lay[from - i + 1]
        PROVE  r[i + 1] \in lay[from - i]
    <3> DEFINE l == from - i
    <3>1. l \in Nat /\ l \in to .. from /\ i + 1 \in 1 .. m /\ i + 1 - 1 = i /\ from - (i + 1) + 1 = l
      BY <1>2, <2>1, <2>2
    <3>2. r[i] \in lay[l]
      <4>1. CASE i = 0
        BY <1>2, <1>4, <4>1
      <4>2. CASE i >= 1
        <5>1. l + 1 \in to .. from /\ from - i + 1 = l + 1
          BY <3>1, <4>2
        <5>2. QED
          BY <2>2, <3>1, <4>2, <5>1 DEF Layers
      <4>3. QED
        BY <4>1, <4>2
    <3>3. r[i + 1] = Nearest(g, q, SearchLayer(g, q, r[i], 1, l))
      BY <1>2, <3>1
    <3> HIDE DEF l
    <3>4. lay[l] \in SUBSET DOMAIN g.nodes /\ Closed(g, lay[l], l) /\ 1 \in Nat \ {0}
      BY <3>1 DEF Layers
    <3>5. r[i + 1] \in lay[l]
      BY <3>1, <3>2, <3>3, <3>4, HopStays
    <3>6. QED
      BY <3>5 DEF l
  <2>3. 0 \in G
    OBVIOUS
  <2>4. ASSUME NEW i \in Nat, i \in G PROVE i + 1 \in G
    <3> SUFFICES ASSUME i + 1 <= m PROVE r[i + 1] \in lay[from - (i + 1) + 1]
      OBVIOUS
    <3>1. i <= m /\ from - (i + 1) + 1 = from - i
      BY <1>2
    <3>2. QED
      BY <2>2, <2>4, <3>1
  <2>5. m \in G
    <3> HIDE DEF G
    <3>1. QED
      BY <1>2, <2>3, <2>4, NumbersInduction
  <2>6. r[m] \in lay[to] /\ r[m] \in DOMAIN g.nodes
    <3>1. m >= 1 /\ m <= m /\ from - m + 1 = to /\ m \in 0 .. m
      BY <1>2, <1>4, <2>1
    <3>2. QED
      BY <1>2, <2>5, <3>1
  <2>7. QED
    BY <1>2, <1>4, <2>6
<1>5. QED
  BY <1>3, <1>4

-----------------------------------------------------------------------------
(* Links *)

(* A node with links among the nodes N. *)
NodeOver(N) == [sid : Sids, at : Int, links : Seq(Seq(N))]

(* The graphs that differ from g in links only. *)
Relinked(g) ==
  {h \in [nodes : Seq(NodeOver(DOMAIN g.nodes)), deleted : {g.deleted},
          sidToIdx : {g.sidToIdx}, entry : {g.entry}, maxLevel : {g.maxLevel}, live : {g.live}] :
     /\ Len(h.nodes) = Len(g.nodes)
     /\ \A n \in DOMAIN g.nodes : /\ h.nodes[n].sid = g.nodes[n].sid
                                  /\ h.nodes[n].at = g.nodes[n].at
                                  /\ Len(h.nodes[n].links) = Len(g.nodes[n].links)}

(* Such a graph has the nodes, vectors and levels of g, and can be searched.      *)
LEMMA RelinkedLaws ==
  ASSUME NEW g, NEW h \in Relinked(g), DOMAIN g.nodes = 1 .. Len(g.nodes)
  PROVE  /\ Walkable(h) /\ DOMAIN h.nodes = DOMAIN g.nodes /\ Len(h.nodes) = Len(g.nodes)
         /\ \A n \in DOMAIN g.nodes :
              /\ h.nodes[n].sid = g.nodes[n].sid /\ h.nodes[n].sid \in Sids
              /\ h.nodes[n].at = g.nodes[n].at /\ h.nodes[n].at \in Int
              /\ Len(h.nodes[n].links) = Len(g.nodes[n].links) /\ Len(h.nodes[n].links) \in Nat
              /\ h.nodes[n] \in NodeOver(DOMAIN g.nodes)
         /\ \A n \in DOMAIN g.nodes, l \in Nat : LinksAt(h, n, l) \in Seq(DOMAIN g.nodes)
         /\ h.nodes \in Seq(NodeOver(DOMAIN g.nodes))
         /\ h.deleted = g.deleted /\ h.sidToIdx = g.sidToIdx /\ h.entry = g.entry
         /\ h.maxLevel = g.maxLevel /\ h.live = g.live
<1> DEFINE N == DOMAIN g.nodes
<1>1. /\ h.nodes \in Seq(NodeOver(N)) /\ Len(h.nodes) = Len(g.nodes)
      /\ h.deleted = g.deleted /\ h.sidToIdx = g.sidToIdx /\ h.entry = g.entry
      /\ h.maxLevel = g.maxLevel /\ h.live = g.live
      /\ \A n \in N : /\ h.nodes[n].sid = g.nodes[n].sid
                      /\ h.nodes[n].at = g.nodes[n].at
                      /\ Len(h.nodes[n].links) = Len(g.nodes[n].links)
  BY DEF Relinked
<1>2. Len(h.nodes) \in Nat /\ DOMAIN h.nodes = 1 .. Len(h.nodes) /\ DOMAIN h.nodes = N
  BY <1>1
<1>3. \A n \in N : h.nodes[n] \in NodeOver(N)
  BY <1>1, <1>2
<1> HIDE DEF N
<1>4. \A n \in N : /\ h.nodes[n].sid \in Sids /\ h.nodes[n].at \in Int
                   /\ h.nodes[n].links \in Seq(Seq(N)) /\ Len(h.nodes[n].links) \in Nat
  BY <1>3 DEF NodeOver
<1>5. ASSUME NEW n \in N, NEW l \in Nat PROVE LinksAt(h, n, l) \in Seq(N)
  <2>1. CASE l < Len(h.nodes[n].links)
    <3>1. l + 1 \in 1 .. Len(h.nodes[n].links)
      BY <1>4, <2>1
    <3>2. h.nodes[n].links[l + 1] \in Seq(N)
      BY <1>4, <3>1
    <3>3. QED
      BY <2>1, <3>2 DEF LinksAt
  <2>2. CASE ~ (l < Len(h.nodes[n].links))
    BY <2>2 DEF LinksAt
  <2>3. QED
    BY <2>1, <2>2
<1>6. Walkable(h)
  BY <1>2, <1>4, <1>5 DEF Walkable
<1>7. QED
  BY <1>1, <1>2, <1>3, <1>4, <1>5, <1>6 DEF N

(* r is h with the links of n at one level replaced. *)
Replaces(g, h, n, l, links, r) ==
  /\ r \in Relinked(g)
  /\ \A v \in DOMAIN g.nodes, k \in Nat :
       LinksAt(r, v, k) = IF v = n /\ k = l THEN links ELSE LinksAt(h, v, k)

(* Links can be replaced at a level the node has. *)
LEMMA ReplaceLaws ==
  ASSUME NEW g, NEW h \in Relinked(g), DOMAIN g.nodes = 1 .. Len(g.nodes),
         NEW n \in DOMAIN g.nodes, NEW l \in Nat, l < Len(h.nodes[n].links),
         NEW links \in Seq(DOMAIN g.nodes)
  PROVE  Replaces(g, h, n, l, links, [h EXCEPT !.nodes[n].links[l + 1] = links])
<1> DEFINE N == DOMAIN g.nodes
           r == [h EXCEPT !.nodes[n].links[l + 1] = links]
           old == h.nodes[n].links
           new == [old EXCEPT ![l + 1] = links]
           node == [h.nodes[n] EXCEPT !.links = new]
<1>1. /\ DOMAIN h.nodes = N /\ h.nodes \in Seq(NodeOver(N)) /\ Len(h.nodes) = Len(g.nodes)
      /\ h.nodes[n] \in NodeOver(N)
  BY RelinkedLaws
<1>2. old \in Seq(Seq(N)) /\ l + 1 \in 1 .. Len(old)
  BY <1>1 DEF NodeOver
<1>3. new \in Seq(Seq(N)) /\ Len(new) = Len(old)
      /\ \A k \in 1 .. Len(old) : new[k] = IF k = l + 1 THEN links ELSE old[k]
  BY <1>2
<1> HIDE DEF new
<1>4. node \in NodeOver(N) /\ node.sid = h.nodes[n].sid /\ node.at = h.nodes[n].at /\ node.links = new
  BY <1>1, <1>3 DEF NodeOver
<1> HIDE DEF node
<1>5. r = [h EXCEPT !.nodes = [h.nodes EXCEPT ![n] = node]]
  <2>1. r = [h EXCEPT !.nodes = [h.nodes EXCEPT ![n] = [h.nodes[n] EXCEPT !.links = [h.nodes[n].links EXCEPT ![l + 1] = links]]]]
    OBVIOUS
  <2>2. QED
    BY <2>1 DEF node, new
<1> DEFINE nodes == [h.nodes EXCEPT ![n] = node]
<1>6. /\ nodes \in Seq(NodeOver(N)) /\ Len(nodes) = Len(h.nodes)
      /\ \A v \in N : nodes[v] = IF v = n THEN node ELSE h.nodes[v]
  BY <1>1, <1>4
<1> HIDE DEF nodes
<1>7. /\ r \in [nodes : Seq(NodeOver(N)), deleted : {g.deleted}, sidToIdx : {g.sidToIdx},
                entry : {g.entry}, maxLevel : {g.maxLevel}, live : {g.live}]
      /\ r.nodes = nodes
  BY <1>5, <1>6 DEF Relinked, nodes
<1> HIDE DEF r
<1>8. r \in Relinked(g)
  <2>1. \A v \in N : /\ h.nodes[v].sid = g.nodes[v].sid /\ h.nodes[v].at = g.nodes[v].at
                     /\ Len(h.nodes[v].links) = Len(g.nodes[v].links)
    BY RelinkedLaws
  <2>2. \A v \in N : /\ nodes[v].sid = g.nodes[v].sid /\ nodes[v].at = g.nodes[v].at
                     /\ Len(nodes[v].links) = Len(g.nodes[v].links)
    BY <1>3, <1>4, <1>6, <2>1
  <2>3. QED
    BY <1>1, <1>6, <1>7, <2>2 DEF Relinked
<1>9. ASSUME NEW v \in N, NEW k \in Nat
      PROVE  LinksAt(r, v, k) = IF v = n /\ k = l THEN links ELSE LinksAt(h, v, k)
  <2>1. CASE v # n
    <3>1. r.nodes[v] = h.nodes[v]
      BY <1>6, <1>7, <2>1
    <3>2. QED
      BY <2>1, <3>1 DEF LinksAt
  <2>2. CASE v = n
    <3>1. r.nodes[v].links = new
      BY <1>4, <1>6, <1>7, <2>2
    <3>2. Len(new) = Len(old) /\ Len(old) \in Nat
      BY <1>2, <1>3
    <3>3. CASE k < Len(old)
      <4>1. k + 1 \in 1 .. Len(old)
        BY <3>2, <3>3
      <4>2. new[k + 1] = IF k + 1 = l + 1 THEN links ELSE old[k + 1]
        BY <1>3, <4>1
      <4>3. QED
        BY <2>2, <3>1, <3>2, <3>3, <4>2 DEF LinksAt
    <3>4. CASE ~ (k < Len(old))
      BY <2>2, <3>1, <3>2, <3>4 DEF LinksAt
    <3>5. QED
      BY <3>3, <3>4
  <2>3. QED
    BY <2>1, <2>2
<1>10. QED
  BY <1>8, <1>9 DEF Replaces, r

(* The elements of a sequence. *)
LEMMA ElementsLaws ==
  ASSUME NEW N, NEW s \in Seq(N)
  PROVE  /\ Len(s) \in Nat /\ DOMAIN s = 1 .. Len(s) /\ ToSet(s) \in SUBSET N
         /\ \A i \in 1 .. Len(s) : s[i] \in ToSet(s)
         /\ \A x \in ToSet(s) : \E i \in 1 .. Len(s) : s[i] = x
  BY DEF ToSet

(* What appending one more link does. *)
LEMMA AppendLaws ==
  ASSUME NEW N, NEW s \in Seq(N), NEW b \in N
  PROVE  /\ Append(s, b) \in Seq(N) /\ ToSet(Append(s, b)) = ToSet(s) \union {b}
         /\ Len(Append(s, b)) = Len(s) + 1
         /\ IsInjective(s) /\ b \notin ToSet(s) => IsInjective(Append(s, b))
<1> DEFINE t == Append(s, b)
<1>1. /\ t \in Seq(N) /\ Len(t) = Len(s) + 1 /\ Len(s) \in Nat
      /\ DOMAIN s = 1 .. Len(s) /\ DOMAIN t = 1 .. Len(s) + 1
      /\ \A i \in 1 .. Len(s) : t[i] = s[i]
      /\ t[Len(s) + 1] = b
  OBVIOUS
<1> HIDE DEF t
<1>2. \A i \in 1 .. Len(s) + 1 : i \in 1 .. Len(s) \/ i = Len(s) + 1
  BY <1>1
<1>3. \A i \in 1 .. Len(s) : i \in 1 .. Len(s) + 1
  BY <1>1
<1>4. Len(s) + 1 \in 1 .. Len(s) + 1
  BY <1>1
<1>5. ToSet(t) = ToSet(s) \union {b}
  <2>1. ToSet(t) = {t[i] : i \in 1 .. Len(s) + 1} /\ ToSet(s) = {s[i] : i \in 1 .. Len(s)}
    BY <1>1 DEF ToSet
  <2>2. ASSUME NEW x \in ToSet(t) PROVE x \in ToSet(s) \union {b}
    BY <1>1, <1>2, <2>1
  <2>3. ASSUME NEW x \in ToSet(s) \union {b} PROVE x \in ToSet(t)
    BY <1>1, <1>3, <1>4, <2>1
  <2>4. QED
    BY <2>2, <2>3
<1>6. ASSUME IsInjective(s), b \notin ToSet(s) PROVE IsInjective(t)
  <2>1. \A i \in 1 .. Len(s) : s[i] # b
    BY <1>1, <1>6 DEF ToSet
  <2>2. \A i, j \in 1 .. Len(s) : s[i] = s[j] => i = j
    BY <1>1, <1>6 DEF IsInjective
  <2>3. \A i, j \in 1 .. Len(s) + 1 : t[i] = t[j] => i = j
    BY <1>1, <1>2, <2>1, <2>2
  <2>4. QED
    BY <1>1, <2>3 DEF IsInjective
<1>7. QED
  BY <1>1, <1>5, <1>6 DEF t

(* A list without duplicates is no longer than the set its elements are from.     *)
LEMMA InjectiveSize ==
  ASSUME NEW N, NEW s \in Seq(N), IsInjective(s), NEW S, IsFiniteSet(S), ToSet(s) \subseteq S
  PROVE  Len(s) <= Cardinality(S)
<1>1. Len(s) \in Nat /\ DOMAIN s = 1 .. Len(s) /\ \A i \in 1 .. Len(s) : s[i] \in S
  BY ElementsLaws
<1>2. s \in [1 .. Len(s) -> S]
  BY <1>1
<1>3. s \in Injection(1 .. Len(s), S)
  BY <1>2 DEF Injection
<1>4. IsFiniteSet(1 .. Len(s)) /\ Cardinality(1 .. Len(s)) = Len(s)
  BY <1>1, FS_Interval
<1>5. Cardinality(1 .. Len(s)) <= Cardinality(S)
  BY <1>3, <1>4, FS_Injection
<1>6. QED
  BY <1>4, <1>5

(* r is h with b linked from a at one level, if a has it and b is not linked yet.  *)
Links(g, h, a, b, l, r) ==
  /\ r \in Relinked(g)
  /\ \A v \in DOMAIN g.nodes, k \in Nat : v # a \/ k # l => LinksAt(r, v, k) = LinksAt(h, v, k)
  /\ ToSet(LinksAt(r, a, l)) = ToSet(LinksAt(h, a, l)) \union {b}
  /\ Len(LinksAt(r, a, l)) <= Len(LinksAt(h, a, l)) + 1
  /\ IsInjective(LinksAt(h, a, l)) => IsInjective(LinksAt(r, a, l))

(* link links a level the node has. *)
LEMMA LinkedLaws ==
  ASSUME NEW g, NEW h \in Relinked(g), DOMAIN g.nodes = 1 .. Len(g.nodes),
         NEW a \in DOMAIN g.nodes, NEW b \in DOMAIN g.nodes,
         NEW l \in Nat, l < Len(h.nodes[a].links)
  PROVE  Links(g, h, a, b, l, Linked(h, a, b, l))
<1> DEFINE s == LinksAt(h, a, l)
           r == Linked(h, a, b, l)
<1>1. s \in Seq(DOMAIN g.nodes) /\ s = h.nodes[a].links[l + 1]
  BY RelinkedLaws DEF LinksAt
<1>2. Len(s) \in Nat
  BY <1>1
<1>3. CASE b \in ToSet(s)
  <2>1. r = h
    BY <1>3 DEF Linked
  <2>2. ToSet(s) = ToSet(s) \union {b} /\ Len(s) <= Len(s) + 1
    BY <1>2, <1>3
  <2> HIDE DEF s
  <2>3. QED
    BY <2>1, <2>2 DEF Links, s
<1>4. CASE b \notin ToSet(s)
  <2> DEFINE t == Append(s, b)
  <2>1. r = [h EXCEPT !.nodes[a].links[l + 1] = t]
    BY <1>1, <1>4 DEF Linked
  <2>2. /\ t \in Seq(DOMAIN g.nodes) /\ ToSet(t) = ToSet(s) \union {b}
        /\ Len(t) = Len(s) + 1
        /\ IsInjective(s) => IsInjective(t)
    BY <1>1, <1>4, AppendLaws
  <2> HIDE DEF t, s, r
  <2>3. Replaces(g, h, a, l, t, r)
    BY <2>1, <2>2, ReplaceLaws
  <2>4. LinksAt(r, a, l) = t
    BY <2>3 DEF Replaces
  <2>5. Len(t) <= Len(s) + 1
    BY <1>2, <2>2
  <2>6. QED
    BY <2>2, <2>3, <2>4, <2>5 DEF Links, Replaces, s, r
<1>5. QED
  BY <1>3, <1>4

(* r is h with the links of n at one level cut. *)
Prunes(g, h, n, l, r) ==
  /\ r \in Relinked(g)
  /\ \A v \in DOMAIN g.nodes, k \in Nat : v # n \/ k # l => LinksAt(r, v, k) = LinksAt(h, v, k)
  /\ ToSet(LinksAt(r, n, l)) \subseteq ToSet(LinksAt(h, n, l))
  /\ Len(LinksAt(r, n, l)) <= MaxDegree(l)
  /\ IsInjective(LinksAt(h, n, l)) => IsInjective(LinksAt(r, n, l))
  /\ Len(LinksAt(h, n, l)) <= MaxDegree(l) => r = h

(* prune bounds the degree, and adds nothing. *)
LEMMA PruneLaws ==
  ASSUME NEW g, NEW h \in Relinked(g), DOMAIN g.nodes = 1 .. Len(g.nodes),
         NEW n \in DOMAIN g.nodes, NEW l \in Nat
  PROVE  Prunes(g, h, n, l, Prune(h, n, l))
<1> DEFINE s == LinksAt(h, n, l)
           d == MaxDegree(l)
           S == ToSet(s)
           all == Ascending(h, h.nodes[n].at, S)
           t == FirstOf(all, d)
           r == Prune(h, n, l)
<1>1. s \in Seq(DOMAIN g.nodes) /\ d \in Nat
  BY RelinkedLaws, HnswAssumption DEF MaxDegree
<1>2. Len(s) \in Nat /\ S \in SUBSET DOMAIN g.nodes
  BY <1>1, ElementsLaws
<1>3. CASE Len(s) <= d
  <2>1. r = h
    BY <1>3 DEF Prune
  <2> HIDE DEF r, d
  <2>2. QED
    BY <1>3, <2>1 DEF Prunes, r, d
<1>4. CASE ~ (Len(s) <= d)
  <2>1. l < Len(h.nodes[n].links) /\ s = h.nodes[n].links[l + 1]
    <3>1. l < Len(h.nodes[n].links)
      <4> SUFFICES ASSUME ~ (l < Len(h.nodes[n].links)) PROVE FALSE
        OBVIOUS
      <4>1. s = <<>> /\ Len(<<>>) = 0
        BY DEF LinksAt
      <4> HIDE DEF s, d
      <4>2. QED
        BY <1>1, <1>4, <4>1
    <3>2. QED
      BY <3>1 DEF LinksAt
  <2>2. r = [h EXCEPT !.nodes[n].links[l + 1] = t]
    BY <1>4, <2>1 DEF Prune
  <2>3. Walkable(h) /\ DOMAIN h.nodes = DOMAIN g.nodes /\ h.nodes[n].at \in Int
    BY RelinkedLaws
  <2>4. /\ Cardinality(S) \in Nat /\ all \in Seq(S)
        /\ DOMAIN all = 1 .. Cardinality(S) /\ Len(all) = Cardinality(S)
        /\ \A i, j \in 1 .. Cardinality(S) : all[i] = all[j] => i = j
    <3> HIDE DEF S
    <3>1. GoesThrough(all, Cardinality(S), S) /\ Cardinality(S) \in Nat
      BY <1>2, <2>3, AscendingLaws
    <3>2. all \in Seq(S) /\ DOMAIN all = 1 .. Cardinality(S) /\ Len(all) = Cardinality(S)
      BY <1>2, <2>3, AscendingIsASequence
    <3> HIDE DEF all
    <3>3. QED
      BY <3>1, <3>2 DEF GoesThrough
  <2> HIDE DEF all, S, d
  <2>5. PICK m : IsFirst(t, m, all, d, S)
    BY <1>1, <2>4, FirstOfLaws
  <2>6. /\ m \in Nat /\ m <= d /\ m <= Cardinality(S) /\ t \in Seq(S) /\ Len(t) = m
        /\ DOMAIN t = 1 .. m /\ \A i \in 1 .. m : t[i] = all[i]
    BY <2>4, <2>5 DEF IsFirst
  <2> HIDE DEF t, s, r
  <2>7. IsInjective(t)
    BY <2>4, <2>6 DEF IsInjective
  <2>8. t \in Seq(DOMAIN g.nodes) /\ ToSet(t) \subseteq S
    <3>1. ToSet(t) \in SUBSET S
      BY <2>6, ElementsLaws
    <3>2. \A i \in 1 .. m : t[i] \in S
      BY <2>6
    <3>3. QED
      BY <1>2, <2>6, <3>1, <3>2
  <2>9. Replaces(g, h, n, l, t, r)
    BY <2>1, <2>2, <2>8, ReplaceLaws
  <2>10. LinksAt(r, n, l) = t
    BY <2>9 DEF Replaces
  <2>11. QED
    BY <1>4, <2>6, <2>7, <2>8, <2>9, <2>10 DEF Prunes, Replaces, s, S, d, r
<1>5. QED
  BY <1>3, <1>4

(* A list of links has no duplicate, and leads to other nodes of its layer.       *)
LinksFine(h, v, l) ==
  /\ IsInjective(LinksAt(h, v, l))
  /\ \A b \in ToSet(LinksAt(h, v, l)) : b # v /\ l < Len(h.nodes[b].links)

(* No list of links at this level is ever cut. *)
Small(g, l) == Len(g.nodes) <= MaxDegree(l) + 1

(* h is made from g0 by tying node n to others of one level: only n may have too     *)
(* many links there, and where no list is ever cut no link is lost.                *)
TyingInv(g, g0, n, l, h) ==
  /\ h \in Relinked(g)
  /\ \A v \in DOMAIN g.nodes, k \in Nat : LinksFine(h, v, k)
  /\ \A v \in DOMAIN g.nodes, k \in Nat :
       (v = n /\ k = l) \/ Len(LinksAt(h, v, k)) <= MaxDegree(k)
  /\ \A v \in DOMAIN g.nodes, k \in Nat : k # l => LinksAt(h, v, k) = LinksAt(g0, v, k)
  /\ Small(g, l) =>
       \A v \in DOMAIN g.nodes : ToSet(LinksAt(g0, v, l)) \subseteq ToSet(LinksAt(h, v, l))

Tie(h, n, b, l) == Prune(Linked(Linked(h, n, b, l), b, n, l), b, l)

(* n and b are linked both ways. *)
Tied(h, n, b, l) == b \in ToSet(LinksAt(h, n, l)) /\ n \in ToSet(LinksAt(h, b, l))

(* link changes links only. *)
LEMMA LinkedIsTyped ==
  ASSUME NEW g, NEW h \in Relinked(g), DOMAIN g.nodes = 1 .. Len(g.nodes),
         NEW a \in DOMAIN g.nodes, NEW b \in DOMAIN g.nodes, NEW l \in Nat
  PROVE  Linked(h, a, b, l) \in Relinked(g)
<1>1. CASE l < Len(h.nodes[a].links)
  BY <1>1, LinkedLaws DEF Links
<1>2. CASE ~ (l < Len(h.nodes[a].links))
  BY <1>2 DEF Linked
<1>3. QED
  BY <1>1, <1>2

(* Tying two nodes changes links only. *)
LEMMA TieIsTyped ==
  ASSUME NEW g, NEW h \in Relinked(g), DOMAIN g.nodes = 1 .. Len(g.nodes),
         NEW n \in DOMAIN g.nodes, NEW b \in DOMAIN g.nodes, NEW l \in Nat
  PROVE  Tie(h, n, b, l) \in Relinked(g)
<1>1. Linked(h, n, b, l) \in Relinked(g)
  BY LinkedIsTyped
<1>2. Linked(Linked(h, n, b, l), b, n, l) \in Relinked(g)
  BY <1>1, LinkedIsTyped
<1>3. QED
  BY <1>2, PruneLaws DEF Prunes, Tie

(* A list of links that leads to other nodes only is no longer than their number. *)
LEMMA FineSize ==
  ASSUME NEW g, NEW h \in Relinked(g), DOMAIN g.nodes = 1 .. Len(g.nodes),
         NEW v \in DOMAIN g.nodes, NEW l \in Nat, IsInjective(LinksAt(h, v, l)),
         v \notin ToSet(LinksAt(h, v, l)), Small(g, l)
  PROVE  Len(LinksAt(h, v, l)) <= MaxDegree(l)
<1> DEFINE N == DOMAIN g.nodes
           s == LinksAt(h, v, l)
<1>1. s \in Seq(N) /\ Len(s) \in Nat /\ ToSet(s) \subseteq N \ {v}
  <2>1. s \in Seq(N)
    BY RelinkedLaws
  <2> HIDE DEF N
  <2>2. Len(s) \in Nat /\ ToSet(s) \subseteq N
    BY <2>1, ElementsLaws
  <2>3. QED
    BY <2>1, <2>2
<1>2. Len(g.nodes) \in Nat
  BY RelinkedLaws
<1>3. IsFiniteSet(N) /\ Cardinality(N) = Len(g.nodes)
  BY <1>2, FS_Interval
<1>4. v \in N
  OBVIOUS
<1> HIDE DEF N, s
<1>5. IsFiniteSet(N \ {v}) /\ Cardinality(N \ {v}) = Len(g.nodes) - 1
  BY <1>3, <1>4, FS_RemoveElement
<1>6. Len(s) <= Len(g.nodes) - 1
  BY <1>1, <1>5, InjectiveSize DEF s
<1>7. MaxDegree(l) \in Nat
  BY HnswAssumption DEF MaxDegree
<1>8. QED
  BY <1>1, <1>2, <1>6, <1>7 DEF Small, s

(* Tying n to one more node keeps the invariant, and ties it. *)
LEMMA TieKeeps ==
  ASSUME NEW g, NEW g0, NEW h, DOMAIN g.nodes = 1 .. Len(g.nodes),
         NEW n \in DOMAIN g.nodes, NEW b \in DOMAIN g.nodes, b # n, NEW l \in Nat,
         l < Len(g.nodes[n].links), l < Len(g.nodes[b].links), TyingInv(g, g0, n, l, h)
  PROVE  /\ TyingInv(g, g0, n, l, Tie(h, n, b, l))
         /\ Small(g, l) =>
              /\ Tied(Tie(h, n, b, l), n, b, l)
              /\ \A c \in DOMAIN g.nodes : Tied(h, n, c, l) => Tied(Tie(h, n, b, l), n, c, l)
<1> DEFINE N == DOMAIN g.nodes
           h1 == Linked(h, n, b, l)
           h2 == Linked(h1, b, n, l)
           r == Prune(h2, b, l)
<1>0. r = Tie(h, n, b, l)
  BY DEF Tie
<1>1. /\ h \in Relinked(g)
      /\ \A v \in N, k \in Nat : LinksFine(h, v, k)
      /\ \A v \in N, k \in Nat : (v = n /\ k = l) \/ Len(LinksAt(h, v, k)) <= MaxDegree(k)
      /\ \A v \in N, k \in Nat : k # l => LinksAt(h, v, k) = LinksAt(g0, v, k)
      /\ Small(g, l) => \A v \in N : ToSet(LinksAt(g0, v, l)) \subseteq ToSet(LinksAt(h, v, l))
  BY DEF TyingInv
<1>2. Links(g, h, n, b, l, h1)
  <2>1. l < Len(h.nodes[n].links)
    BY <1>1, RelinkedLaws
  <2>2. QED
    BY <1>1, <2>1, LinkedLaws
<1> HIDE DEF h1
<1>3. Links(g, h1, b, n, l, h2)
  <2>1. h1 \in Relinked(g)
    BY <1>2 DEF Links
  <2>2. l < Len(h1.nodes[b].links)
    BY <2>1, RelinkedLaws
  <2>3. QED
    BY <2>1, <2>2, LinkedLaws
<1> HIDE DEF h2
<1>4. Prunes(g, h2, b, l, r)
  BY <1>3, PruneLaws DEF Links
<1> HIDE DEF r
<1>5. r \in Relinked(g) /\ h2 \in Relinked(g) /\ h1 \in Relinked(g)
  BY <1>2, <1>3, <1>4 DEF Links, Prunes
<1>6. \A v \in N : Len(r.nodes[v].links) = Len(g.nodes[v].links)
                   /\ Len(h.nodes[v].links) = Len(g.nodes[v].links)
  BY <1>1, <1>5, RelinkedLaws
<1>7. \A v \in N, k \in Nat : k # l \/ (v # n /\ v # b) => LinksAt(r, v, k) = LinksAt(h, v, k)
  BY <1>2, <1>3, <1>4 DEF Links, Prunes
<1>8. /\ LinksAt(r, n, l) = LinksAt(h1, n, l)
      /\ ToSet(LinksAt(r, n, l)) = ToSet(LinksAt(h, n, l)) \union {b}
      /\ IsInjective(LinksAt(h, n, l)) => IsInjective(LinksAt(r, n, l))
  BY <1>2, <1>3, <1>4 DEF Links, Prunes
<1>9. /\ ToSet(LinksAt(h2, b, l)) = ToSet(LinksAt(h, b, l)) \union {n}
      /\ IsInjective(LinksAt(h, b, l)) => IsInjective(LinksAt(h2, b, l))
  BY <1>2, <1>3 DEF Links
<1>10. /\ ToSet(LinksAt(r, b, l)) \subseteq ToSet(LinksAt(h, b, l)) \union {n}
       /\ IsInjective(LinksAt(h, b, l)) => IsInjective(LinksAt(r, b, l))
       /\ Len(LinksAt(r, b, l)) <= MaxDegree(l)
  BY <1>4, <1>9 DEF Prunes
<1>11. \A v \in N, k \in Nat : ToSet(LinksAt(h, v, k)) \subseteq N
  <2> SUFFICES ASSUME NEW v \in N, NEW k \in Nat PROVE ToSet(LinksAt(h, v, k)) \subseteq N
    OBVIOUS
  <2>1. LinksAt(h, v, k) \in Seq(N)
    BY <1>1, RelinkedLaws
  <2>2. QED
    BY <2>1 DEF ToSet
<1>12. ASSUME NEW v \in N, NEW k \in Nat PROVE LinksFine(r, v, k)
  <2>1. LinksFine(h, v, k) /\ ToSet(LinksAt(h, v, k)) \subseteq N
    BY <1>1, <1>11
  <2>2. CASE k # l \/ (v # n /\ v # b)
    <3>1. LinksAt(r, v, k) = LinksAt(h, v, k)
      BY <1>7, <2>2
    <3>2. QED
      BY <1>6, <2>1, <3>1 DEF LinksFine
  <2>3. CASE k = l /\ v = n
    BY <1>6, <1>8, <2>1, <2>3 DEF LinksFine
  <2>4. CASE k = l /\ v = b
    BY <1>6, <1>10, <2>1, <2>4 DEF LinksFine
  <2>5. QED
    BY <2>2, <2>3, <2>4
<1>13. \A v \in N, k \in Nat : (v = n /\ k = l) \/ Len(LinksAt(r, v, k)) <= MaxDegree(k)
  BY <1>1, <1>7, <1>10
<1>14. \A v \in N, k \in Nat : k # l => LinksAt(r, v, k) = LinksAt(g0, v, k)
  BY <1>1, <1>7
<1>15. ASSUME Small(g, l) PROVE r = h2
  <2>1. LinksFine(h, b, l)
    BY <1>1
  <2>2. IsInjective(LinksAt(h2, b, l)) /\ b \notin ToSet(LinksAt(h2, b, l))
    BY <1>9, <2>1 DEF LinksFine
  <2>3. Len(LinksAt(h2, b, l)) <= MaxDegree(l)
    BY <1>5, <1>15, <2>2, FineSize
  <2>4. QED
    BY <1>4, <2>3 DEF Prunes
<1>16. ASSUME Small(g, l), NEW v \in N
       PROVE  ToSet(LinksAt(h, v, l)) \subseteq ToSet(LinksAt(r, v, l))
  BY <1>7, <1>8, <1>9, <1>15, <1>16
<1>17. TyingInv(g, g0, n, l, r)
  BY <1>1, <1>5, <1>12, <1>13, <1>14, <1>16 DEF TyingInv
<1>18. ASSUME Small(g, l)
       PROVE  Tied(r, n, b, l) /\ \A c \in N : Tied(h, n, c, l) => Tied(r, n, c, l)
  <2>1. Tied(r, n, b, l)
    BY <1>8, <1>9, <1>15, <1>18 DEF Tied
  <2>2. QED
    BY <1>16, <1>18, <2>1 DEF Tied
<1>19. QED
  BY <1>0, <1>17, <1>18

(* r is the graph after n was tied to each of the nodes near. *)
Ties(g, h, n, l, near, r) ==
  /\ r \in [0 .. Len(near) -> Relinked(g)]
  /\ r[0] = h
  /\ \A i \in 1 .. Len(near) : r[i] = Tie(r[i - 1], n, near[i], l)
  /\ FoldLeft(LAMBDA s, b : Prune(Linked(Linked(s, n, b, l), b, n, l), b, l), h, near)
       = r[Len(near)]

(* Nodes are tied one after another. *)
LEMMA TyingIsAFold ==
  ASSUME NEW g, NEW h \in Relinked(g), DOMAIN g.nodes = 1 .. Len(g.nodes),
         NEW n \in DOMAIN g.nodes, NEW l \in Nat, NEW near \in Seq(DOMAIN g.nodes)
  PROVE  \E r : Ties(g, h, n, l, near, r)
<1> DEFINE T == Relinked(g)
           m == Len(near)
           Body(it) == [U \in SUBSET DOMAIN near |->
                          IF U = {} THEN h
                          ELSE Tie(it[U \ {Max(U)}], n, near[Max(U)], l)]
           Iter == CHOOSE it : it = Body(it)
           step == [x \in (1 .. m) \X T |-> Tie(x[2], n, near[x[1]], l)]
           r == [i \in 0 .. m |-> Iter[1 .. i]]
           fold == FoldLeft(LAMBDA s, b : Prune(Linked(Linked(s, n, b, l), b, n, l), b, l), h, near)
<1>1. m \in Nat /\ DOMAIN near = 1 .. m /\ \A i \in 1 .. m : near[i] \in DOMAIN g.nodes
  OBVIOUS
<1>2. fold = Iter[1 .. m]
  BY <1>1 DEF FoldLeft, MapThenFoldSet, Tie
<1>3. step \in [(1 .. m) \X T -> T]
  BY <1>1, TieIsTyped
<1>4. h \in T
  OBVIOUS
<1> HIDE DEF T
<1>5. PICK f : f \in [SUBSET (1 .. m) -> T] /\ FoldsLeft(f, m, h, step)
  <2> HIDE DEF step, m
  <2>1. QED
    BY <1>1, <1>3, <1>4, FoldExists, Zenon
<1> HIDE DEF m
<1>6. f = Body(f)
  <2>1. \A U \in SUBSET (1 .. m) :
          U # {} => Max(U) \in 1 .. m /\ U \ {Max(U)} \in SUBSET (1 .. m)
    BY MaxIsGreatest, <1>1
  <2>2. \A U \in SUBSET (1 .. m) :
          f[U] = IF U = {} THEN h ELSE Tie(f[U \ {Max(U)}], n, near[Max(U)], l)
    BY <1>5, <2>1 DEF FoldsLeft
  <2>3. QED
    BY <1>1, <1>5, <2>2
<1>7. Iter = Body(Iter)
  <2> HIDE DEF Body
  <2>1. QED
    BY <1>6
<1> HIDE DEF Iter, fold
<1>8. r[0] = h
  <2>1. Iter[{}] = Body(Iter)[{}] /\ 1 .. 0 = {}
    BY <1>7
  <2>2. QED
    BY <1>1, <2>1
<1>9. ASSUME NEW i \in 1 .. m PROVE r[i] = Tie(r[i - 1], n, near[i], l)
  <2>1. i - 1 \in Nat /\ i - 1 \in 0 .. m /\ i \in 0 .. m /\ i - 1 + 1 = i
    BY <1>1
  <2>2. 1 .. i # {} /\ Max(1 .. i) = i /\ (1 .. i) \ {i} = 1 .. i - 1
    BY <2>1, LastPosition
  <2>3. 1 .. i \in SUBSET DOMAIN near
    BY <1>1
  <2>4. Iter[1 .. i] = Body(Iter)[1 .. i]
    BY <1>7
  <2>5. Iter[1 .. i] = Tie(Iter[1 .. i - 1], n, near[i], l)
    BY <2>2, <2>3, <2>4
  <2>6. QED
    BY <2>1, <2>5
<1>10. fold = r[m]
  BY <1>1, <1>2
<1> HIDE DEF r
<1>11. \A i \in 0 .. m : r[i] \in T
  <2> DEFINE G == {i \in Nat : i <= m => r[i] \in T}
  <2>1. 0 \in G
    BY <1>4, <1>8
  <2>2. ASSUME NEW i \in Nat, i \in G PROVE i + 1 \in G
    <3> SUFFICES ASSUME i + 1 <= m PROVE r[i + 1] \in T
      OBVIOUS
    <3>1. i + 1 \in 1 .. m /\ i + 1 - 1 = i /\ r[i] \in T
      BY <1>1, <2>2
    <3>2. r[i + 1] = Tie(r[i], n, near[i + 1], l)
      BY <1>9, <3>1
    <3>3. QED
      BY <1>1, <3>1, <3>2, TieIsTyped DEF T
  <2> HIDE DEF G
  <2>3. \A i \in Nat : i \in G
    BY <2>1, <2>2, NumbersInduction
  <2>4. QED
    BY <2>3 DEF G
<1>12. r \in [0 .. m -> T]
  BY <1>11 DEF r
<1>13. Ties(g, h, n, l, near, r)
  BY <1>8, <1>9, <1>10, <1>12 DEF Ties, T, m, fold
<1>14. QED
  BY <1>13

(* The other nodes of a layer. *)
Hosts(g, n, l) == {v \in DOMAIN g.nodes : v # n /\ l < Len(g.nodes[v].links)}

(* Every list of links is in order, and none is too long. *)
Neat(g, h) ==
  \A v \in DOMAIN g.nodes, k \in Nat :
    LinksFine(h, v, k) /\ Len(LinksAt(h, v, k)) <= MaxDegree(k)

(* h is made from g by tying n at the levels from l up. *)
TiedDown(g, n, l, h) ==
  /\ h \in Relinked(g) /\ Neat(g, h)
  /\ \A v \in DOMAIN g.nodes, k \in Nat : k < l => LinksAt(h, v, k) = LinksAt(g, v, k)

(* n is tied at this level, and where no list is ever cut no link is lost.         *)
TiedAt(g, n, l, h) ==
  Small(g, l) =>
    /\ \A v \in DOMAIN g.nodes : ToSet(LinksAt(g, v, l)) \subseteq ToSet(LinksAt(h, v, l))
    /\ \E b \in Hosts(g, n, l) : Tied(h, n, b, l)

(* n is a node of g that is linked nowhere yet. *)
Fresh(g, n) ==
  /\ n \in DOMAIN g.nodes /\ DOMAIN g.nodes = 1 .. Len(g.nodes) /\ g \in Relinked(g)
  /\ Neat(g, g)
  /\ \A v \in DOMAIN g.nodes, k \in Nat : n \notin ToSet(LinksAt(g, v, k))

(* The hosts of a fresh node lead to hosts only. *)
LEMMA HostsAreClosed ==
  ASSUME NEW g, NEW n, Fresh(g, n), NEW l \in Nat, NEW h \in Relinked(g), Neat(g, h),
         \A v \in DOMAIN g.nodes : LinksAt(h, v, l) = LinksAt(g, v, l)
  PROVE  Closed(h, Hosts(g, n, l), l)
<1> SUFFICES ASSUME NEW v \in Hosts(g, n, l), NEW b \in ToSet(LinksAt(h, v, l))
             PROVE  b \in Hosts(g, n, l)
  BY DEF Closed
<1>1. v \in DOMAIN g.nodes
  BY DEF Hosts
<1>2. b # n
  BY <1>1 DEF Fresh
<1>3. l < Len(h.nodes[b].links)
  BY <1>1 DEF Neat, LinksFine
<1>4. b \in DOMAIN g.nodes
  <2>1. LinksAt(h, v, l) \in Seq(DOMAIN g.nodes)
    BY <1>1, RelinkedLaws DEF Fresh
  <2>2. QED
    BY <2>1, ElementsLaws
<1>5. l < Len(g.nodes[b].links)
  BY <1>3, <1>4, RelinkedLaws DEF Fresh
<1>6. QED
  BY <1>2, <1>4, <1>5 DEF Hosts

(* The neighbours of a new node are nodes a search found, and there is one.       *)
LEMMA NearLaws ==
  ASSUME NEW g, Walkable(g), NEW q \in Int, NEW w \in SUBSET DOMAIN g.nodes, w # {}, NEW l \in Nat
  PROVE  LET near == FirstOf(Ascending(g, q, w), MaxDegree(l))
         IN  near \in Seq(w) /\ Len(near) \in Nat /\ Len(near) >= 1
<1> DEFINE all == Ascending(g, q, w)
           d == MaxDegree(l)
           c == Cardinality(w)
<1>1. d \in Nat /\ d >= 1
  BY HnswAssumption DEF MaxDegree
<1>2. all \in Seq(w) /\ Len(all) = c
  BY AscendingIsASequence
<1>3. IsFiniteSet(w) /\ c \in Nat
  BY AscendingLaws
<1>4. c # 0
  BY <1>3, FS_EmptySet
<1> HIDE DEF all, d, c
<1>5. PICK m : IsFirst(FirstOf(all, d), m, all, d, w)
  BY <1>1, <1>2, FirstOfLaws
<1> DEFINE near == FirstOf(all, d)
<1>6. /\ m \in Nat /\ (m = d \/ m = Len(all)) /\ near \in Seq(w) /\ Len(near) = m
  BY <1>5 DEF IsFirst
<1> HIDE DEF near
<1>7. QED
  BY <1>1, <1>2, <1>3, <1>4, <1>6 DEF near, all, d

(* Connect ties n at one level, and moves to a node of that layer. *)
LEMMA ConnectLaws ==
  ASSUME NEW g, NEW n, Fresh(g, n), NEW l \in Nat, l < Len(g.nodes[n].links),
         NEW h, TiedDown(g, n, l + 1, h), NEW e \in Hosts(g, n, l)
  PROVE  /\ TiedDown(g, n, l, Connect([g |-> h, ep |-> e], n, l).g)
         /\ TiedAt(g, n, l, Connect([g |-> h, ep |-> e], n, l).g)
         /\ Connect([g |-> h, ep |-> e], n, l).ep \in Hosts(g, n, l)
<1> DEFINE N == DOMAIN g.nodes
           C == Hosts(g, n, l)
           at == h.nodes[n].at
           w == SearchLayer(h, at, e, EfConstruction, l)
           near == FirstOf(Ascending(h, at, w), MaxDegree(l))
           both == FoldLeft(LAMBDA s, b : Prune(Linked(Linked(s, n, b, l), b, n, l), b, l), h, near)
           k == Len(near)
           res == Prune(both, n, l)
<1>1. /\ n \in N /\ DOMAIN g.nodes = 1 .. Len(g.nodes) /\ N = DOMAIN g.nodes
      /\ h \in Relinked(g) /\ Neat(g, h)
      /\ \A v \in N, j \in Nat : j < l + 1 => LinksAt(h, v, j) = LinksAt(g, v, j)
  BY DEF Fresh, TiedDown
<1>2. \A v \in N, j \in Nat : j <= l => LinksAt(h, v, j) = LinksAt(g, v, j)
  BY <1>1
<1>3. Walkable(h) /\ DOMAIN h.nodes = N /\ at \in Int
      /\ \A v \in N : Len(h.nodes[v].links) = Len(g.nodes[v].links)
  BY <1>1, RelinkedLaws
<1>4. Connect([g |-> h, ep |-> e], n, l) = [g |-> res, ep |-> Nearest(h, at, w)]
  BY DEF Connect
<1>5. C \in SUBSET N /\ Closed(h, C, l) /\ EfConstruction \in Nat \ {0}
  <2>1. Closed(h, C, l)
    <3>1. \A v \in DOMAIN g.nodes : LinksAt(h, v, l) = LinksAt(g, v, l)
      BY <1>2
    <3>2. h \in Relinked(g) /\ Neat(g, h)
      BY <1>1
    <3>3. QED
      BY <3>1, <3>2, HostsAreClosed
  <2>2. QED
    BY <2>1, HnswAssumption DEF Hosts
<1> HIDE DEF at, C, N
<1>6. w \in SUBSET C /\ w # {} /\ w \in SUBSET N
  <2>1. C \in SUBSET DOMAIN h.nodes /\ e \in C
    BY <1>3, <1>5 DEF C
  <2>2. w \in SUBSET C /\ w # {}
    BY <1>3, <1>5, <2>1, SearchEnds
  <2> HIDE DEF w
  <2>3. QED
    BY <1>5, <2>2
<1> HIDE DEF w
<1>7. Nearest(h, at, w) \in C
  <2>1. Nearest(h, at, w) \in w
    BY <1>3, <1>6, NearestLaws
  <2>2. QED
    BY <1>6, <2>1
<1>8. near \in Seq(w) /\ k \in Nat /\ k >= 1
  BY <1>3, <1>6, NearLaws
<1> HIDE DEF near
<1>9. /\ \A i \in 1 .. k : near[i] \in C /\ near[i] \in N
      /\ near \in Seq(N)
  <2>1. \A i \in 1 .. k : near[i] \in w
    BY <1>8
  <2>2. near \in Seq(N)
    BY <1>6, <1>8
  <2>3. QED
    BY <1>6, <2>1, <2>2
<1>10. PICK r : Ties(g, h, n, l, near, r)
  BY <1>1, <1>9, TyingIsAFold DEF N
<1>11. /\ r \in [0 .. k -> Relinked(g)] /\ r[0] = h
       /\ \A i \in 1 .. k : r[i] = Tie(r[i - 1], n, near[i], l)
       /\ both = r[k]
  BY <1>10 DEF Ties
<1> HIDE DEF both, k, res
<1> DEFINE Good(i) == /\ TyingInv(g, h, n, l, r[i])
                      /\ Small(g, l) => \A j \in 1 .. i : Tied(r[i], n, near[j], l)
           G == {i \in Nat : i <= k => Good(i)}
<1>12. 0 \in G
  <2>1. TyingInv(g, h, n, l, h)
    BY <1>1 DEF TyingInv, Neat, N
  <2>2. QED
    BY <1>11, <2>1
<1>13. ASSUME NEW i \in Nat, i \in G PROVE i + 1 \in G
  <2> SUFFICES ASSUME i + 1 <= k PROVE Good(i + 1)
    OBVIOUS
  <2>1. i + 1 \in 1 .. k /\ i + 1 - 1 = i /\ i <= k
    BY <1>8
  <2>2. Good(i) /\ r[i + 1] = Tie(r[i], n, near[i + 1], l)
    BY <1>11, <1>13, <2>1
  <2> DEFINE b == near[i + 1]
  <2>3. b \in N /\ b # n /\ l < Len(g.nodes[b].links)
    BY <1>9, <2>1 DEF C, Hosts
  <2> HIDE DEF b
  <2>4. /\ TyingInv(g, h, n, l, Tie(r[i], n, b, l))
        /\ Small(g, l) =>
             /\ Tied(Tie(r[i], n, b, l), n, b, l)
             /\ \A c \in N : Tied(r[i], n, c, l) => Tied(Tie(r[i], n, b, l), n, c, l)
    BY <1>1, <2>2, <2>3, TieKeeps DEF N
  <2>5. \A j \in 1 .. i + 1 : j \in 1 .. i \/ j = i + 1
    OBVIOUS
  <2>6. \A j \in 1 .. i : near[j] \in N
    <3>1. \A j \in 1 .. i : j \in 1 .. k
      BY <1>8, <2>1
    <3>2. QED
      BY <1>9, <3>1
  <2>7. QED
    BY <2>2, <2>4, <2>5, <2>6 DEF b
<1>14. Good(k)
  <2> HIDE DEF Good
  <2>1. \A i \in Nat : i \in G
    <3> HIDE DEF G
    <3>1. QED
      BY <1>12, <1>13, NumbersInduction
  <2>2. QED
    BY <1>8, <2>1
<1>15. TyingInv(g, h, n, l, both) /\ (Small(g, l) => Tied(both, n, near[1], l))
  BY <1>8, <1>11, <1>14
<1>16. /\ both \in Relinked(g)
       /\ \A v \in N, j \in Nat : LinksFine(both, v, j)
       /\ \A v \in N, j \in Nat : (v = n /\ j = l) \/ Len(LinksAt(both, v, j)) <= MaxDegree(j)
       /\ \A v \in N, j \in Nat : j # l => LinksAt(both, v, j) = LinksAt(h, v, j)
       /\ Small(g, l) => \A v \in N : ToSet(LinksAt(h, v, l)) \subseteq ToSet(LinksAt(both, v, l))
  BY <1>15 DEF TyingInv, N
<1>17. Prunes(g, both, n, l, res)
  BY <1>1, <1>16, PruneLaws DEF res, N
<1>18. /\ res \in Relinked(g)
       /\ \A v \in N, j \in Nat : v # n \/ j # l => LinksAt(res, v, j) = LinksAt(both, v, j)
       /\ ToSet(LinksAt(res, n, l)) \subseteq ToSet(LinksAt(both, n, l))
       /\ Len(LinksAt(res, n, l)) <= MaxDegree(l)
       /\ IsInjective(LinksAt(both, n, l)) => IsInjective(LinksAt(res, n, l))
       /\ Len(LinksAt(both, n, l)) <= MaxDegree(l) => res = both
  BY <1>17 DEF Prunes, N
<1>19. \A v \in N : Len(res.nodes[v].links) = Len(both.nodes[v].links)
  <2>1. \A v \in DOMAIN g.nodes : Len(both.nodes[v].links) = Len(g.nodes[v].links)
    BY <1>1, <1>16, RelinkedLaws
  <2>2. \A v \in DOMAIN g.nodes : Len(res.nodes[v].links) = Len(g.nodes[v].links)
    BY <1>1, <1>18, RelinkedLaws
  <2>3. QED
    BY <2>1, <2>2 DEF N
<1>20. ASSUME NEW v \in N, NEW j \in Nat
       PROVE  LinksFine(res, v, j) /\ Len(LinksAt(res, v, j)) <= MaxDegree(j)
  <2>1. LinksFine(both, v, j) /\ ToSet(LinksAt(both, v, j)) \subseteq N
    <3>1. LinksAt(both, v, j) \in Seq(DOMAIN g.nodes)
      BY <1>1, <1>16, <1>20, RelinkedLaws DEF N
    <3>2. QED
      BY <1>16, <1>20, <3>1, ElementsLaws DEF N
  <2>2. CASE v # n \/ j # l
    <3>1. LinksAt(res, v, j) = LinksAt(both, v, j)
      BY <1>18, <1>20, <2>2
    <3>2. Len(LinksAt(both, v, j)) <= MaxDegree(j)
      BY <1>16, <1>20, <2>2
    <3>3. QED
      BY <1>19, <2>1, <3>1, <3>2 DEF LinksFine
  <2>3. CASE v = n /\ j = l
    BY <1>18, <1>19, <2>1, <2>3 DEF LinksFine
  <2>4. QED
    BY <2>2, <2>3
<1>21. TiedDown(g, n, l, res)
  <2>1. ASSUME NEW v \in N, NEW j \in Nat, j < l PROVE LinksAt(res, v, j) = LinksAt(g, v, j)
    <3>1. j # l /\ j <= l
      BY <2>1
    <3>2. QED
      BY <1>2, <1>16, <1>18, <2>1, <3>1
  <2>2. QED
    BY <1>18, <1>20, <2>1 DEF TiedDown, Neat, N
<1>22. TiedAt(g, n, l, res)
  <2> SUFFICES ASSUME Small(g, l)
               PROVE  /\ \A v \in N : ToSet(LinksAt(g, v, l)) \subseteq ToSet(LinksAt(res, v, l))
                      /\ \E b \in C : Tied(res, n, b, l)
    BY DEF TiedAt, N, C
  <2>1. LinksFine(both, n, l)
    BY <1>1, <1>16
  <2>2. Len(LinksAt(both, n, l)) <= MaxDegree(l)
    BY <1>1, <1>16, <2>1, FineSize DEF LinksFine, N
  <2>3. res = both
    BY <1>18, <2>2
  <2>4. near[1] \in C
    BY <1>8, <1>9
  <2>5. \A v \in N : LinksAt(h, v, l) = LinksAt(g, v, l)
    BY <1>2
  <2>6. QED
    BY <1>15, <1>16, <2>3, <2>4, <2>5
<1>23. QED
  BY <1>4, <1>7, <1>21, <1>22 DEF C, res

(* A graph and a node of it. *)
Places(g) == [g : Relinked(g), ep : DOMAIN g.nodes]

(* Connect changes links only, wherever it starts. *)
LEMMA ConnectIsTyped ==
  ASSUME NEW g, DOMAIN g.nodes = 1 .. Len(g.nodes), NEW n \in DOMAIN g.nodes, NEW l \in Nat,
         NEW s \in Places(g)
  PROVE  Connect(s, n, l) \in Places(g)
<1> DEFINE N == DOMAIN g.nodes
           at == s.g.nodes[n].at
           w == SearchLayer(s.g, at, s.ep, EfConstruction, l)
           near == FirstOf(Ascending(s.g, at, w), MaxDegree(l))
           both == FoldLeft(LAMBDA h, b : Prune(Linked(Linked(h, n, b, l), b, n, l), b, l), s.g, near)
<1>1. s.g \in Relinked(g) /\ s.ep \in N
  BY DEF Places
<1>2. Walkable(s.g) /\ DOMAIN s.g.nodes = N /\ at \in Int
  BY <1>1, RelinkedLaws
<1>3. Connect(s, n, l) = [g |-> Prune(both, n, l), ep |-> Nearest(s.g, at, w)]
  BY DEF Connect
<1> HIDE DEF at
<1>4. w \in SUBSET N /\ w # {}
  <2>1. Closed(s.g, DOMAIN s.g.nodes, l) /\ s.ep \in DOMAIN s.g.nodes
    BY <1>1, <1>2, AllAreClosed
  <2>2. EfConstruction \in Nat \ {0}
    BY HnswAssumption
  <2>3. w \in SUBSET DOMAIN s.g.nodes /\ w # {}
    BY <1>2, <2>1, <2>2, SearchEnds
  <2>4. QED
    BY <1>2, <2>3
<1> HIDE DEF w
<1>5. Nearest(s.g, at, w) \in N
  <2>1. Nearest(s.g, at, w) \in w
    BY <1>2, <1>4, NearestLaws
  <2>2. QED
    BY <1>4, <2>1
<1>6. near \in Seq(N) /\ Len(near) \in Nat
  <2>1. near \in Seq(w) /\ Len(near) \in Nat
    BY <1>2, <1>4, NearLaws
  <2> HIDE DEF near
  <2>2. QED
    BY <1>4, <2>1
<1> HIDE DEF near
<1>7. PICK r : Ties(g, s.g, n, l, near, r)
  BY <1>1, <1>6, TyingIsAFold
<1> HIDE DEF both
<1>8. r[Len(near)] = both /\ r \in [0 .. Len(near) -> Relinked(g)]
  BY <1>7 DEF Ties, both
<1>9. both \in Relinked(g)
  <2>1. Len(near) \in 0 .. Len(near)
    BY <1>6
  <2>2. QED
    BY <1>8, <2>1
<1>10. Prune(both, n, l) \in Relinked(g)
  BY <1>9, PruneLaws DEF Prunes
<1>11. QED
  BY <1>3, <1>5, <1>10 DEF Places

(* r is where the tying of n is after each level. *)
Connects(g, n, e, top, r) ==
  /\ r \in [0 .. top + 1 -> Places(g)]
  /\ r[0] = [g |-> g, ep |-> e]
  /\ \A i \in 1 .. top + 1 : r[i] = Connect(r[i - 1], n, top - i + 1)
  /\ FoldLeft(LAMBDA s, l : Connect(s, n, l), [g |-> g, ep |-> e], Downto(top, 0)) = r[top + 1]

(* A node is tied level after level. *)
LEMMA ConnectingIsAFold ==
  ASSUME NEW g, DOMAIN g.nodes = 1 .. Len(g.nodes), g \in Relinked(g),
         NEW n \in DOMAIN g.nodes, NEW e \in DOMAIN g.nodes, NEW top \in Nat
  PROVE  \E r : Connects(g, n, e, top, r)
<1> DEFINE T == Places(g)
           m == top + 1
           start == [g |-> g, ep |-> e]
           seq == Downto(top, 0)
           Body(it) == [U \in SUBSET DOMAIN seq |->
                          IF U = {} THEN start ELSE Connect(it[U \ {Max(U)}], n, seq[Max(U)])]
           Iter == CHOOSE it : it = Body(it)
           step == [x \in (1 .. m) \X T |-> Connect(x[2], n, seq[x[1]])]
           r == [i \in 0 .. m |-> Iter[1 .. i]]
           fold == FoldLeft(LAMBDA s, l : Connect(s, n, l), start, seq)
<1>1. /\ m \in Nat /\ DOMAIN seq = 1 .. m
      /\ \A i \in 1 .. m : seq[i] = top - i + 1 /\ seq[i] \in Nat
  <2>1. LoopLength(top, 0) = m
    BY DEF LoopLength
  <2>2. 0 \in Nat
    OBVIOUS
  <2> HIDE DEF m, seq
  <2>3. QED
    BY <2>1, <2>2, DowntoLaws DEF m, seq
<1>2. fold = Iter[DOMAIN seq]
  BY DEF FoldLeft, MapThenFoldSet
<1> HIDE DEF m, seq
<1>3. step \in [(1 .. m) \X T -> T]
  BY <1>1, ConnectIsTyped
<1>4. start \in T
  BY DEF Places
<1> HIDE DEF T, start
<1>5. PICK f : f \in [SUBSET (1 .. m) -> T] /\ FoldsLeft(f, m, start, step)
  <2> HIDE DEF step
  <2>1. QED
    BY <1>1, <1>3, <1>4, FoldExists, Zenon
<1>6. f = Body(f)
  <2>1. \A U \in SUBSET (1 .. m) :
          U # {} => Max(U) \in 1 .. m /\ U \ {Max(U)} \in SUBSET (1 .. m)
    BY MaxIsGreatest, <1>1
  <2>2. \A U \in SUBSET (1 .. m) :
          f[U] = IF U = {} THEN start ELSE Connect(f[U \ {Max(U)}], n, seq[Max(U)])
    BY <1>5, <2>1 DEF FoldsLeft
  <2>3. QED
    BY <1>1, <1>5, <2>2
<1>7. Iter = Body(Iter)
  <2> HIDE DEF Body
  <2>1. QED
    BY <1>6
<1> HIDE DEF Iter, fold
<1>8. r[0] = start
  <2>1. Iter[{}] = Body(Iter)[{}] /\ 1 .. 0 = {}
    BY <1>7
  <2>2. QED
    BY <1>1, <2>1
<1>9. ASSUME NEW i \in 1 .. m PROVE r[i] = Connect(r[i - 1], n, top - i + 1)
  <2>1. i - 1 \in Nat /\ i - 1 \in 0 .. m /\ i \in 0 .. m /\ i - 1 + 1 = i
    BY <1>1
  <2>2. 1 .. i # {} /\ Max(1 .. i) = i /\ (1 .. i) \ {i} = 1 .. i - 1
    BY <2>1, LastPosition
  <2>3. 1 .. i \in SUBSET DOMAIN seq
    BY <1>1
  <2>4. Iter[1 .. i] = Body(Iter)[1 .. i]
    BY <1>7
  <2>5. Iter[1 .. i] = Connect(Iter[1 .. i - 1], n, seq[i])
    BY <2>2, <2>3, <2>4
  <2>6. QED
    BY <1>1, <2>1, <2>5
<1>10. fold = r[m]
  BY <1>1, <1>2
<1> HIDE DEF r
<1>11. \A i \in 0 .. m : r[i] \in T
  <2> DEFINE G == {i \in Nat : i <= m => r[i] \in T}
  <2>1. 0 \in G
    BY <1>4, <1>8
  <2>2. ASSUME NEW i \in Nat, i \in G PROVE i + 1 \in G
    <3> SUFFICES ASSUME i + 1 <= m PROVE r[i + 1] \in T
      OBVIOUS
    <3>1. i + 1 \in 1 .. m /\ i + 1 - 1 = i /\ r[i] \in T
      BY <1>1, <2>2
    <3>2. r[i + 1] = Connect(r[i], n, top - (i + 1) + 1) /\ top - (i + 1) + 1 \in Nat
      BY <1>1, <1>9, <3>1
    <3>3. QED
      BY <3>1, <3>2, ConnectIsTyped DEF T
  <2> HIDE DEF G
  <2>3. \A i \in Nat : i \in G
    BY <2>1, <2>2, NumbersInduction
  <2>4. QED
    BY <2>3 DEF G
<1>12. r \in [0 .. m -> T]
  BY <1>11 DEF r
<1>13. Connects(g, n, e, top, r)
  BY <1>8, <1>9, <1>10, <1>12 DEF Connects, T, m, start, seq, fold
<1>14. QED
  BY <1>13

(* The loop of insert over the levels from top down. *)
Connected(g, n, e, top) ==
  FoldLeft(LAMBDA s, l : Connect(s, n, l), [g |-> g, ep |-> e], Downto(top, 0))

(* A fresh node is tied at all its levels. *)
LEMMA TyingLaws ==
  ASSUME NEW g, NEW n, Fresh(g, n), NEW top \in Nat, top < Len(g.nodes[n].links),
         NEW e \in Hosts(g, n, top)
  PROVE  LET h == Connected(g, n, e, top).g
         IN  h \in Relinked(g) /\ Neat(g, h) /\ TiedAt(g, n, 0, h)
<1> DEFINE m == top + 1
           end == Connected(g, n, e, top)
<1>1. /\ n \in DOMAIN g.nodes /\ DOMAIN g.nodes = 1 .. Len(g.nodes) /\ g \in Relinked(g)
      /\ Neat(g, g) /\ e \in DOMAIN g.nodes /\ m \in Nat
  BY DEF Fresh, Hosts
<1>2. PICK r : Connects(g, n, e, top, r)
  BY <1>1, ConnectingIsAFold
<1>3. /\ r \in [0 .. m -> Places(g)] /\ r[0] = [g |-> g, ep |-> e]
      /\ \A i \in 1 .. m : r[i] = Connect(r[i - 1], n, top - i + 1)
      /\ end = r[m]
  BY <1>2 DEF Connects, Connected
<1> HIDE DEF end
<1>4. \A l \in Nat : Hosts(g, n, l + 1) \subseteq Hosts(g, n, l)
  <2>1. \A v \in DOMAIN g.nodes : Len(g.nodes[v].links) \in Nat
    BY <1>1, RelinkedLaws
  <2>2. QED
    BY <2>1 DEF Hosts
<1> DEFINE Good(i) == /\ TiedDown(g, n, m - i, r[i].g)
                      /\ i < m => r[i].ep \in Hosts(g, n, top - i)
                      /\ i = m => TiedAt(g, n, 0, r[i].g)
           G == {i \in Nat : i <= m => Good(i)}
<1>5. 0 \in G
  <2>1. TiedDown(g, n, m, g)
    BY <1>1 DEF TiedDown
  <2>2. 0 # m /\ m - 0 = m /\ top - 0 = top
    OBVIOUS
  <2>3. QED
    BY <1>3, <2>1, <2>2
<1>6. ASSUME NEW i \in Nat, i \in G PROVE i + 1 \in G
  <2> SUFFICES ASSUME i + 1 <= m PROVE Good(i + 1)
    OBVIOUS
  <2> DEFINE l == top - i
             h == r[i].g
             c == r[i].ep
  <2>1. /\ i + 1 \in 1 .. m /\ i + 1 - 1 = i /\ i <= m /\ i < m /\ i \in 0 .. m
        /\ l \in Nat /\ m - i = l + 1 /\ top - (i + 1) + 1 = l /\ l <= top
    OBVIOUS
  <2>2. Good(i) /\ r[i + 1] = Connect(r[i], n, l) /\ r[i] \in Places(g)
    <3>1. r[i + 1] = Connect(r[i + 1 - 1], n, top - (i + 1) + 1)
      BY <1>3, <2>1
    <3>2. r[i + 1] = Connect(r[i], n, l)
      BY <2>1, <3>1
    <3>3. Good(i)
      <4> HIDE DEF Good
      <4>1. QED
        BY <1>6, <2>1
    <3>4. QED
      BY <1>3, <2>1, <3>2, <3>3
  <2>3. r[i] = [g |-> h, ep |-> c]
    BY <2>2 DEF Places
  <2>4. TiedDown(g, n, l + 1, h) /\ c \in Hosts(g, n, l)
    BY <2>1, <2>2
  <2>5. l < Len(g.nodes[n].links)
    <3>1. Len(g.nodes[n].links) \in Nat
      BY <1>1, RelinkedLaws
    <3>2. QED
      BY <2>1, <3>1
  <2> HIDE DEF l, h, c
  <2>6. /\ TiedDown(g, n, l, r[i + 1].g) /\ TiedAt(g, n, l, r[i + 1].g)
        /\ r[i + 1].ep \in Hosts(g, n, l)
    BY <2>1, <2>2, <2>3, <2>4, <2>5, ConnectLaws
  <2>7. m - (i + 1) = l
    BY DEF l
  <2>8. ASSUME i + 1 < m PROVE r[i + 1].ep \in Hosts(g, n, top - (i + 1))
    <3>1. top - (i + 1) \in Nat /\ top - (i + 1) + 1 = l
      BY <2>8 DEF l
    <3>2. Hosts(g, n, top - (i + 1) + 1) \subseteq Hosts(g, n, top - (i + 1))
      BY <1>4, <3>1
    <3>3. QED
      BY <2>6, <3>1, <3>2
  <2>9. ASSUME i + 1 = m PROVE TiedAt(g, n, 0, r[i + 1].g)
    <3>1. l = 0
      BY <2>9 DEF l
    <3>2. QED
      BY <2>6, <3>1
  <2>10. QED
    BY <2>6, <2>7, <2>8, <2>9
<1>7. Good(m)
  <2> HIDE DEF Good
  <2>1. \A i \in Nat : i \in G
    <3> HIDE DEF G
    <3>1. QED
      BY <1>5, <1>6, NumbersInduction
  <2>2. QED
    BY <1>1, <2>1
<1>8. end.g \in Relinked(g) /\ Neat(g, end.g) /\ TiedAt(g, n, 0, end.g)
  BY <1>3, <1>7 DEF TiedDown
<1>9. QED
  BY <1>8 DEF end

(* The tied graph r is a, its links aside; but n is the new entry if it is higher.  *)
TiesIn(a, n, level, h, r) ==
  /\ h \in Relinked(a) /\ Neat(a, h)
  /\ a.entry # 0 => TiedAt(a, n, 0, h)
  /\ r = IF a.entry = 0 \/ level > a.maxLevel
         THEN [h EXCEPT !.entry = n, !.maxLevel = level] ELSE h

(* The entry is a node of the top layer. *)
Entered(a, n) ==
  /\ a.maxLevel \in Nat
  /\ a.entry # 0 => /\ a.entry \in DOMAIN a.nodes /\ a.entry # n
                    /\ Len(a.nodes[a.entry].links) = a.maxLevel + 1

(* insert ties a node in from the top layer it shares with the others down.       *)
LEMMA TiedInLaws ==
  ASSUME NEW a, NEW n, Fresh(a, n), Entered(a, n), NEW level \in Nat,
         Len(a.nodes[n].links) = level + 1
  PROVE  \E h : TiesIn(a, n, level, h, TiedIn(a, n, level))
<1> DEFINE N == DOMAIN a.nodes
           at == a.nodes[n].at
           ep == Descend(a, at, a.entry, a.maxLevel, level + 1)
           top == Least(level, a.maxLevel)
           h == Connected(a, n, ep, top).g
<1>1. /\ n \in N /\ N = 1 .. Len(a.nodes) /\ a \in Relinked(a) /\ Neat(a, a)
      /\ a.maxLevel \in Nat /\ n # 0 
  BY DEF Fresh, Entered
<1>2. CASE a.entry = 0
  BY <1>1, <1>2 DEF TiesIn, TiedIn
<1>3. CASE a.entry # 0
  <2>1. TiedIn(a, n, level) = IF level > a.maxLevel
                              THEN [h EXCEPT !.entry = n, !.maxLevel = level] ELSE h
    BY <1>3 DEF TiedIn, Connected
  <2>2. a.entry \in N /\ a.entry # n /\ Len(a.nodes[a.entry].links) = a.maxLevel + 1
    BY <1>3 DEF Entered
  <2>3. Walkable(a) /\ at \in Int /\ \A v \in N : Len(a.nodes[v].links) \in Nat
    BY <1>1, RelinkedLaws
  <2> DEFINE lay == [l \in Nat |-> Hosts(a, n, l)]
  <2>4. \A l \in Nat : lay[l] \in SUBSET N /\ Closed(a, lay[l], l) /\ lay[l + 1] \subseteq lay[l]
    <3> SUFFICES ASSUME NEW l \in Nat
                 PROVE  lay[l] \in SUBSET N /\ Closed(a, lay[l], l) /\ lay[l + 1] \subseteq lay[l]
      OBVIOUS
    <3>1. Closed(a, Hosts(a, n, l), l)
      BY <1>1, HostsAreClosed
    <3>2. Hosts(a, n, l + 1) \subseteq Hosts(a, n, l)
      BY <2>3 DEF Hosts
    <3>3. Hosts(a, n, l) \in SUBSET N
      BY DEF Hosts
    <3>4. QED
      BY <3>1, <3>2, <3>3
  <2>5. Layers(a, lay, a.maxLevel, level + 1)
    <3>1. \A l \in level + 1 .. a.maxLevel : l \in Nat
      BY <1>1
    <3> HIDE DEF lay
    <3>2. QED
      BY <2>4, <3>1 DEF Layers
  <2>6. a.entry \in lay[a.maxLevel] /\ a.maxLevel < Len(a.nodes[a.entry].links)
    BY <1>1, <2>2 DEF Hosts
  <2>7. lay[level + 1] = Hosts(a, n, level + 1) /\ lay[a.maxLevel] = Hosts(a, n, a.maxLevel)
        /\ lay[level + 1] \subseteq Hosts(a, n, level)
    BY <1>1, <2>4
  <2> HIDE DEF lay, at
  <2>8. /\ a.maxLevel >= level + 1 => ep \in lay[level + 1]
        /\ a.maxLevel < level + 1 => ep = a.entry
    <3>1. level + 1 \in Nat
      OBVIOUS
    <3>2. QED
      BY <1>1, <2>2, <2>3, <2>5, <2>6, <3>1, DescentStays
  <2> HIDE DEF ep
  <2>9. ep \in Hosts(a, n, top) /\ top \in Nat /\ top < level + 1
    <3>1. CASE a.maxLevel >= level + 1
      BY <1>1, <2>7, <2>8, <3>1 DEF Least
    <3>2. CASE a.maxLevel < level + 1
      <4>1. top = a.maxLevel
        BY <1>1, <3>2 DEF Least
      <4>2. QED
        BY <1>1, <2>6, <2>7, <2>8, <3>2, <4>1
    <3>3. QED
      BY <1>1, <3>1, <3>2
  <2> HIDE DEF top
  <2>10. h \in Relinked(a) /\ Neat(a, h) /\ TiedAt(a, n, 0, h)
    <3>1. top < Len(a.nodes[n].links)
      BY <2>9
    <3> HIDE DEF N
    <3>2. QED
      BY <2>9, <3>1, TyingLaws
  <2> HIDE DEF h
  <2>11. TiesIn(a, n, level, h, TiedIn(a, n, level))
    BY <1>3, <2>1, <2>10 DEF TiesIn
  <2>12. QED
    BY <2>11
<1>4. QED
  BY <1>2, <1>3

-----------------------------------------------------------------------------
(* What holds of every graph *)

(* A graph has these fields and no others. *)
Whole(g) ==
  g = [nodes |-> g.nodes, deleted |-> g.deleted, sidToIdx |-> g.sidToIdx,
       entry |-> g.entry, maxLevel |-> g.maxLevel, live |-> g.live]

(* The links of a graph are in order. *)
Laid(g) == DOMAIN g.nodes = 1 .. Len(g.nodes) /\ g \in Relinked(g) /\ Neat(g, g)

(* The entry is on the top layer, and there is one as soon as there is a node.     *)
Topped(g) ==
  /\ g.maxLevel \in Nat
  /\ g.entry = 0 <=> Len(g.nodes) = 0
  /\ g.entry # 0 => g.entry \in DOMAIN g.nodes /\ Len(g.nodes[g.entry].links) = g.maxLevel + 1
  /\ \A n \in DOMAIN g.nodes : Len(g.nodes[n].links) <= g.maxLevel + 1

(* As long as no list is ever cut, each node leads to all others on the lowest layer. *)
Joined(g) ==
  Small(g, 0) =>
    \A C \in SUBSET DOMAIN g.nodes : C # {} /\ Closed(g, C, 0) => C = DOMAIN g.nodes

(* A node is deleted or not. *)
Marked(g) == g.deleted \in [DOMAIN g.nodes -> BOOLEAN] /\ g.deleted \in Seq(BOOLEAN)

(* The live nodes are those found by their subjects, and counted. *)
Indexed(g) ==
  /\ DOMAIN g.sidToIdx \subseteq Sids /\ IsFiniteSet(DOMAIN g.sidToIdx)
  /\ g.live = Cardinality(DOMAIN g.sidToIdx)
  /\ \A s \in DOMAIN g.sidToIdx :
       /\ g.sidToIdx[s] \in DOMAIN g.nodes /\ ~ g.deleted[g.sidToIdx[s]]
       /\ g.nodes[g.sidToIdx[s]].sid = s
  /\ \A n \in DOMAIN g.nodes :
       ~ g.deleted[n] => /\ g.nodes[n].sid \in DOMAIN g.sidToIdx
                         /\ g.sidToIdx[g.nodes[n].sid] = n

(* Only the links matter to the order of the links. *)
LEMMA LaidLaws ==
  ASSUME NEW a, NEW h \in Relinked(a), DOMAIN a.nodes = 1 .. Len(a.nodes), Neat(a, h),
         NEW r, Whole(r), r.nodes = h.nodes
  PROVE  /\ Laid(r) /\ DOMAIN r.nodes = DOMAIN a.nodes /\ Len(r.nodes) = Len(a.nodes)
         /\ \A v, k : LinksAt(r, v, k) = LinksAt(h, v, k)
<1>1. /\ DOMAIN h.nodes = DOMAIN a.nodes /\ Len(h.nodes) = Len(a.nodes)
      /\ h.nodes \in Seq(NodeOver(DOMAIN a.nodes))
  BY RelinkedLaws
<1>2. DOMAIN r.nodes = DOMAIN a.nodes /\ Len(r.nodes) = Len(a.nodes)
  BY <1>1
<1>3. r \in Relinked(r)
  <2>1. r \in [nodes : Seq(NodeOver(DOMAIN r.nodes)), deleted : {r.deleted},
               sidToIdx : {r.sidToIdx}, entry : {r.entry}, maxLevel : {r.maxLevel}, live : {r.live}]
    BY <1>1, <1>2 DEF Whole
  <2>2. QED
    BY <2>1 DEF Relinked
<1>4. \A v, k : LinksAt(r, v, k) = LinksAt(h, v, k)
  BY DEF LinksAt
<1>5. Neat(r, r)
  <2> SUFFICES ASSUME NEW v \in DOMAIN r.nodes, NEW k \in Nat
               PROVE  LinksFine(r, v, k) /\ Len(LinksAt(r, v, k)) <= MaxDegree(k)
    BY DEF Neat
  <2>1. LinksFine(h, v, k) /\ Len(LinksAt(h, v, k)) <= MaxDegree(k)
    BY <1>2 DEF Neat
  <2>2. QED
    BY <1>4, <2>1 DEF LinksFine
<1>6. QED
  BY <1>2, <1>3, <1>4, <1>5 DEF Laid

(* A graph with the same nodes and entry is in the same order. *)
LEMMA SameNodes ==
  ASSUME NEW g, Laid(g), Topped(g), Joined(g), NEW r, Whole(r), r.nodes = g.nodes,
         r.entry = g.entry, r.maxLevel = g.maxLevel
  PROVE  Laid(r) /\ Topped(r) /\ Joined(r)
<1>1. /\ Laid(r) /\ DOMAIN r.nodes = DOMAIN g.nodes /\ Len(r.nodes) = Len(g.nodes)
      /\ \A v, k : LinksAt(r, v, k) = LinksAt(g, v, k)
  BY LaidLaws DEF Laid
<1>2. Topped(r)
  BY DEF Topped
<1>3. Joined(r)
  BY <1>1 DEF Joined, Small, Closed
<1>4. QED
  BY <1>1, <1>2, <1>3

(* t is g without its node for sid. *)
Vacates(g, sid, t) ==
  /\ Whole(t) /\ t.nodes = g.nodes /\ t.entry = g.entry /\ t.maxLevel = g.maxLevel
  /\ t.sidToIdx = g.sidToIdx /\ Marked(t)
  /\ t.live = Cardinality(DOMAIN g.sidToIdx \ {sid})
  /\ \A n \in DOMAIN g.nodes : ~ t.deleted[n] <=> ~ g.deleted[n] /\ g.nodes[n].sid # sid

(* The prior version of a subject is deleted, and counted out. *)
LEMMA TombstonedLaws ==
  ASSUME NEW g, Whole(g), Laid(g), Marked(g), Indexed(g), NEW sid \in Sids
  PROVE  Vacates(g, sid, Tombstoned(g, sid))
<1> DEFINE t == Tombstoned(g, sid)
           D == DOMAIN g.sidToIdx
           p == g.sidToIdx[sid]
<1>1. IsFiniteSet(D) /\ g.live = Cardinality(D) /\ Cardinality(D) \in Nat
  BY FS_CardinalityType DEF Indexed
<1>2. CASE sid \notin D
  <2>1. t = g
    BY <1>2 DEF Tombstoned
  <2>2. D \ {sid} = D
    BY <1>2
  <2>3. \A n \in DOMAIN g.nodes : ~ g.deleted[n] => g.nodes[n].sid # sid
    BY <1>2 DEF Indexed
  <2> HIDE DEF t
  <2>4. QED
    BY <1>1, <2>1, <2>2, <2>3 DEF Vacates, t
<1>3. CASE sid \in D
  <2>1. p \in DOMAIN g.nodes /\ ~ g.deleted[p] /\ g.nodes[p].sid = sid
    BY <1>3 DEF Indexed
  <2> DEFINE deleted == [g.deleted EXCEPT ![p] = TRUE]
  <2>2. t = [g EXCEPT !.deleted = deleted, !.live = g.live - 1]
    BY <1>3, <2>1 DEF Tombstoned
  <2>3. /\ deleted \in [DOMAIN g.nodes -> BOOLEAN] /\ deleted \in Seq(BOOLEAN)
        /\ deleted[p] = TRUE
        /\ \A n \in DOMAIN g.nodes : n # p => deleted[n] = g.deleted[n]
    BY <2>1 DEF Marked
  <2> HIDE DEF deleted, p
  <2>4. /\ Whole(t) /\ t.nodes = g.nodes /\ t.entry = g.entry /\ t.maxLevel = g.maxLevel
        /\ t.sidToIdx = g.sidToIdx /\ t.deleted = deleted /\ t.live = g.live - 1
    BY <2>2 DEF Whole
  <2> HIDE DEF t
  <2>5. Marked(t)
    BY <2>3, <2>4 DEF Marked
  <2>6. t.live = Cardinality(D \ {sid})
    BY <1>1, <1>3, <2>4, FS_RemoveElement
  <2>7. ASSUME NEW n \in DOMAIN g.nodes
        PROVE  ~ t.deleted[n] <=> ~ g.deleted[n] /\ g.nodes[n].sid # sid
    <3>1. CASE n = p
      BY <2>1, <2>3, <2>4, <3>1, Zenon
    <3>2. CASE n # p
      <4>1. t.deleted[n] = g.deleted[n]
        BY <2>3, <2>4, <3>2
      <4>2. ~ g.deleted[n] => g.nodes[n].sid # sid
        BY <3>2 DEF Indexed, p
      <4>3. QED
        BY <4>1, <4>2, Zenon
    <3>3. QED
      BY <3>1, <3>2
  <2>8. QED
    BY <2>4, <2>5, <2>6, <2>7 DEF Vacates, t
<1>4. QED
  BY <1>2, <1>3

(* A graph that forgets a subject. *)
LEMMA RemoveLaws ==
  ASSUME NEW g, Whole(g), Laid(g), Topped(g), Joined(g), Marked(g), Indexed(g), NEW sid \in Sids
  PROVE  LET r == GraphRemove(g, sid)
         IN  /\ Whole(r) /\ Laid(r) /\ Topped(r) /\ Joined(r) /\ Marked(r) /\ Indexed(r)
             /\ r.nodes = g.nodes
             /\ r.sidToIdx = [s \in DOMAIN g.sidToIdx \ {sid} |-> g.sidToIdx[s]]
<1> DEFINE t == Tombstoned(g, sid)
           r == GraphRemove(g, sid)
           idx == [s \in DOMAIN g.sidToIdx \ {sid} |-> g.sidToIdx[s]]
<1>1. /\ Whole(t) /\ t.nodes = g.nodes /\ t.entry = g.entry /\ t.maxLevel = g.maxLevel
      /\ t.sidToIdx = g.sidToIdx /\ Marked(t)
      /\ t.live = Cardinality(DOMAIN g.sidToIdx \ {sid})
      /\ \A n \in DOMAIN g.nodes : ~ t.deleted[n] <=> ~ g.deleted[n] /\ g.nodes[n].sid # sid
  <2>1. Vacates(g, sid, t)
    BY TombstonedLaws
  <2> HIDE DEF t
  <2>2. QED
    BY <2>1 DEF Vacates
<1>2. r = [t EXCEPT !.sidToIdx = idx]
  BY <1>1 DEF GraphRemove
<1> HIDE DEF t
<1>3. /\ Whole(r) /\ r.nodes = g.nodes /\ r.entry = g.entry /\ r.maxLevel = g.maxLevel
      /\ r.sidToIdx = idx /\ r.deleted = t.deleted /\ r.live = t.live
  <2> HIDE DEF idx, r
  <2>1. QED
    BY <1>1, <1>2 DEF Whole
<1> HIDE DEF r
<1>4. Laid(r) /\ Topped(r) /\ Joined(r)
  <2> HIDE DEF idx
  <2>1. QED
    BY <1>3, SameNodes
<1>5. Marked(r)
  BY <1>1, <1>3, Zenon DEF Marked
<1>6. Indexed(r)
  <2>1. DOMAIN idx = DOMAIN g.sidToIdx \ {sid} /\ \A s \in DOMAIN idx : idx[s] = g.sidToIdx[s]
    OBVIOUS
  <2> HIDE DEF idx
  <2>2. DOMAIN idx \subseteq Sids /\ IsFiniteSet(DOMAIN idx)
    BY <2>1, FS_Subset DEF Indexed
  <2>3. r.live = Cardinality(DOMAIN idx)
    BY <1>1, <1>3, <2>1
  <2>4. ASSUME NEW s \in DOMAIN idx
        PROVE  idx[s] \in DOMAIN g.nodes /\ ~ r.deleted[idx[s]] /\ g.nodes[idx[s]].sid = s
    <3>1. /\ idx[s] = g.sidToIdx[s] /\ s # sid /\ g.sidToIdx[s] \in DOMAIN g.nodes
          /\ ~ g.deleted[g.sidToIdx[s]] /\ g.nodes[g.sidToIdx[s]].sid = s
      BY <2>1 DEF Indexed
    <3>2. ~ t.deleted[g.sidToIdx[s]]
      BY <1>1, <3>1, Zenon
    <3>3. QED
      BY <1>3, <3>1, <3>2
  <2>5. ASSUME NEW n \in DOMAIN g.nodes, ~ r.deleted[n]
        PROVE  g.nodes[n].sid \in DOMAIN idx /\ idx[g.nodes[n].sid] = n
    <3>1. ~ t.deleted[n]
      BY <1>3, <2>5
    <3>2. ~ g.deleted[n] /\ g.nodes[n].sid # sid
      BY <1>1, <3>1, Zenon
    <3>3. g.nodes[n].sid \in DOMAIN g.sidToIdx /\ g.sidToIdx[g.nodes[n].sid] = n
      BY <3>2 DEF Indexed
    <3>4. QED
      BY <2>1, <3>2, <3>3
  <2>6. QED
    BY <1>3, <2>2, <2>3, <2>4, <2>5 DEF Indexed
<1>7. QED
  BY <1>3, <1>4, <1>5, <1>6 DEF r

(* a is t with one more node, linked nowhere. *)
Appends(t, sid, at, level, a) ==
  LET n == Len(t.nodes) + 1
  IN  /\ Whole(a) /\ Fresh(a, n) /\ n \in Nat /\ Len(a.nodes) = n /\ DOMAIN a.nodes = 1 .. n
      /\ DOMAIN t.nodes = 1 .. n - 1
      /\ a.nodes[n].sid = sid /\ a.nodes[n].at = at /\ Len(a.nodes[n].links) = level + 1
      /\ \A v \in 1 .. n - 1 : a.nodes[v] = t.nodes[v]
      /\ \A v \in 1 .. n - 1, k \in Nat : LinksAt(a, v, k) = LinksAt(t, v, k)
      /\ Marked(a) /\ ~ a.deleted[n] /\ \A v \in 1 .. n - 1 : (a.deleted[v] <=> t.deleted[v])
      /\ a.entry = t.entry /\ a.maxLevel = t.maxLevel /\ a.live = t.live + 1
      /\ a.sidToIdx = [s \in DOMAIN t.sidToIdx \union {sid} |->
                         IF s = sid THEN n ELSE t.sidToIdx[s]]

(* The links of a fresh node are empty. *)
LEMMA NodeLaws ==
  ASSUME NEW N, NEW sid \in Sids, NEW at \in Int, NEW level \in Nat
  PROVE  /\ Node(sid, at, level) \in NodeOver(N)
         /\ Node(sid, at, level).sid = sid /\ Node(sid, at, level).at = at
         /\ Len(Node(sid, at, level).links) = level + 1
         /\ \A k \in 1 .. level + 1 : Node(sid, at, level).links[k] = <<>>
<1> DEFINE links == [l \in 1 .. level + 1 |-> <<>>]
<1>1. links \in Seq(Seq(N)) /\ Len(links) = level + 1 /\ \A k \in 1 .. level + 1 : links[k] = <<>>
  <2>1. <<>> \in Seq(N) /\ level + 1 \in Nat
    OBVIOUS
  <2>2. links \in [1 .. level + 1 -> Seq(N)]
    BY <2>1
  <2>3. QED
    BY <2>1, <2>2
<1>2. Node(sid, at, level) = [sid |-> sid, at |-> at, links |-> links]
  BY DEF Node
<1> HIDE DEF links
<1>3. QED
  BY <1>1, <1>2 DEF NodeOver

(* A node over some nodes is a node over more. *)
LEMMA NodeOverMore ==
  ASSUME NEW N, NEW K, N \subseteq K, NEW s \in Seq(NodeOver(N))
  PROVE  s \in Seq(NodeOver(K))
<1>1. NodeOver(N) \subseteq NodeOver(K)
  <2>1. Seq(N) \subseteq Seq(K)
    OBVIOUS
  <2>2. Seq(Seq(N)) \subseteq Seq(Seq(K))
    BY <2>1
  <2>3. QED
    BY <2>2 DEF NodeOver
<1>2. QED
  BY <1>1

(* Appending keeps what was there. *)
LEMMA AppendKeeps ==
  ASSUME NEW N, NEW s \in Seq(N), NEW b \in N
  PROVE  /\ Append(s, b) \in Seq(N) /\ Len(Append(s, b)) = Len(s) + 1
         /\ Append(s, b)[Len(s) + 1] = b
         /\ \A i \in 1 .. Len(s) : Append(s, b)[i] = s[i]
OBVIOUS

(* insert appends a node. *)
LEMMA AddedLaws ==
  ASSUME NEW t, Whole(t), Laid(t), Marked(t), NEW sid \in Sids, NEW at \in Int, NEW level \in Nat
  PROVE  Appends(t, sid, at, level, Added(t, sid, at, level))
<1> DEFINE n == Len(t.nodes) + 1
           node == Node(sid, at, level)
           nodes == Append(t.nodes, node)
           deleted == Append(t.deleted, FALSE)
           idx == [s \in DOMAIN t.sidToIdx \union {sid} |-> IF s = sid THEN n ELSE t.sidToIdx[s]]
           a == Added(t, sid, at, level)
           K == 1 .. n
<1>1. /\ DOMAIN t.nodes = 1 .. Len(t.nodes) /\ Len(t.nodes) \in Nat
      /\ t.nodes \in Seq(NodeOver(DOMAIN t.nodes)) /\ t \in Relinked(t)
      /\ \A v \in DOMAIN t.nodes, l \in Nat : LinksAt(t, v, l) \in Seq(DOMAIN t.nodes)
  <2>1. DOMAIN t.nodes = 1 .. Len(t.nodes) /\ t \in Relinked(t)
    BY DEF Laid
  <2>2. QED
    BY <2>1, RelinkedLaws DEF Walkable
<1>2. n \in Nat /\ DOMAIN t.nodes = 1 .. n - 1 /\ n \in K /\ 1 .. n - 1 \subseteq K
      /\ \A v \in K : v = n \/ v \in 1 .. n - 1
  BY <1>1
<1>3. a = [nodes |-> nodes, deleted |-> deleted, sidToIdx |-> idx,
           entry |-> t.entry, maxLevel |-> t.maxLevel, live |-> t.live + 1]
  <2>1. a = [t EXCEPT !.nodes = nodes, !.deleted = deleted, !.sidToIdx = idx, !.live = t.live + 1]
    BY DEF Added
  <2> HIDE DEF nodes, deleted, idx, a
  <2>2. QED
    BY <2>1 DEF Whole
<1>4. /\ node \in NodeOver(K) /\ node.sid = sid /\ node.at = at /\ Len(node.links) = level + 1
      /\ \A k \in 1 .. level + 1 : node.links[k] = <<>>
  <2> HIDE DEF K
  <2>1. node \in NodeOver(K)
    BY NodeLaws
  <2>2. node.sid = sid /\ node.at = at
    BY NodeLaws
  <2>3. Len(node.links) = level + 1
    BY NodeLaws
  <2>4. \A k \in 1 .. level + 1 : node.links[k] = <<>>
    BY NodeLaws
  <2>5. QED
    BY <2>1, <2>2, <2>3, <2>4
<1> HIDE DEF node
<1>5. /\ nodes \in Seq(NodeOver(K)) /\ Len(nodes) = n /\ DOMAIN nodes = K /\ nodes[n] = node
      /\ \A v \in 1 .. n - 1 : nodes[v] = t.nodes[v]
  <2>1. t.nodes \in Seq(NodeOver(K))
    BY <1>1, <1>2, NodeOverMore
  <2>2. QED
    BY <1>4, <2>1
<1>6. /\ deleted \in Seq(BOOLEAN) /\ deleted \in [K -> BOOLEAN] /\ deleted[n] = FALSE
      /\ \A v \in 1 .. n - 1 : (deleted[v] <=> t.deleted[v])
  <2>1. t.deleted \in Seq(BOOLEAN) /\ DOMAIN t.deleted = 1 .. n - 1
    BY <1>2 DEF Marked
  <2>2. Len(t.deleted) = n - 1
    BY <1>2, <2>1
  <2>3. /\ deleted \in Seq(BOOLEAN) /\ Len(deleted) = n - 1 + 1
        /\ deleted[n - 1 + 1] = FALSE
        /\ \A v \in 1 .. n - 1 : (deleted[v] <=> t.deleted[v])
    <3>1. FALSE \in BOOLEAN
      OBVIOUS
    <3>2. /\ deleted \in Seq(BOOLEAN) /\ Len(deleted) = Len(t.deleted) + 1
          /\ deleted[Len(t.deleted) + 1] = FALSE
          /\ \A v \in 1 .. Len(t.deleted) : (deleted[v] <=> t.deleted[v])
      <4>1. deleted \in Seq(BOOLEAN)
        BY <2>1
      <4>2. Len(deleted) = Len(t.deleted) + 1
        BY <2>1
      <4>3. deleted[Len(t.deleted) + 1] = FALSE
        BY <2>1
      <4>4. \A v \in 1 .. Len(t.deleted) : (deleted[v] <=> t.deleted[v])
        BY <2>1
      <4>5. QED
        BY <4>1, <4>2, <4>3, <4>4
    <3> HIDE DEF deleted, n
    <3>3. QED
      BY <2>2, <3>2, Zenon
  <2>4. n - 1 + 1 = n
    BY <1>2
  <2> HIDE DEF deleted, n, K
  <2>5. deleted \in Seq(BOOLEAN) /\ Len(deleted) = n /\ deleted[n] = FALSE
    BY <2>3, <2>4
  <2>6. deleted \in [1 .. n -> BOOLEAN]
    BY <2>5
  <2>7. QED
    BY <2>3, <2>5, <2>6 DEF K
<1> HIDE DEF n, nodes, deleted, idx, a
<1>7. /\ a.nodes = nodes /\ a.deleted = deleted /\ a.sidToIdx = idx
      /\ a.entry = t.entry /\ a.maxLevel = t.maxLevel /\ a.live = t.live + 1 /\ Whole(a)
  BY <1>3 DEF Whole
<1>8. \A v \in 1 .. n - 1, k \in Nat : LinksAt(a, v, k) = LinksAt(t, v, k)
  BY <1>5, <1>7 DEF LinksAt
<1>9. \A k \in Nat : LinksAt(a, n, k) = <<>>
  <2> SUFFICES ASSUME NEW k \in Nat PROVE LinksAt(a, n, k) = <<>>
    OBVIOUS
  <2>1. a.nodes[n].links = node.links
    BY <1>5, <1>7
  <2>2. CASE k < Len(node.links)
    <3>1. k + 1 \in 1 .. level + 1
      BY <1>4, <2>2
    <3>2. QED
      BY <1>4, <2>1, <2>2, <3>1 DEF LinksAt
  <2>3. CASE ~ (k < Len(node.links))
    BY <2>1, <2>3 DEF LinksAt
  <2>4. QED
    BY <2>2, <2>3
<1>10. a \in Relinked(a) /\ DOMAIN a.nodes = K /\ Len(a.nodes) = n
  <2>1. a \in [nodes : Seq(NodeOver(DOMAIN a.nodes)), deleted : {a.deleted},
               sidToIdx : {a.sidToIdx}, entry : {a.entry}, maxLevel : {a.maxLevel}, live : {a.live}]
    BY <1>5, <1>7 DEF Whole
  <2>2. QED
    BY <1>5, <1>7, <2>1 DEF Relinked
<1>11. ASSUME NEW v \in K, NEW k \in Nat
       PROVE  /\ LinksFine(a, v, k) /\ Len(LinksAt(a, v, k)) <= MaxDegree(k)
              /\ n \notin ToSet(LinksAt(a, v, k))
  <2>1. CASE v = n
    <3>1. LinksAt(a, v, k) = <<>> /\ ToSet(<<>>) = {} /\ Len(<<>>) = 0 /\ DOMAIN <<>> = {}
      BY <1>9, <2>1 DEF ToSet
    <3>2. MaxDegree(k) \in Nat /\ IsInjective(<<>>)
      BY HnswAssumption DEF MaxDegree, IsInjective
    <3>3. Len(LinksAt(a, v, k)) = 0 /\ ToSet(LinksAt(a, v, k)) = {}
          /\ IsInjective(LinksAt(a, v, k))
      BY <3>1, <3>2
    <3>4. QED
      BY <3>2, <3>3 DEF LinksFine
  <2>2. CASE v \in 1 .. n - 1
    <3>1. LinksAt(a, v, k) = LinksAt(t, v, k) /\ LinksAt(t, v, k) \in Seq(1 .. n - 1)
      BY <1>1, <1>2, <1>8, <2>2
    <3>2. LinksFine(t, v, k) /\ Len(LinksAt(t, v, k)) <= MaxDegree(k)
      BY <1>2, <2>2 DEF Laid, Neat
    <3>3. ToSet(LinksAt(t, v, k)) \subseteq 1 .. n - 1
      BY <3>1, ElementsLaws
    <3>4. \A b \in 1 .. n - 1 : a.nodes[b].links = t.nodes[b].links
      BY <1>5, <1>7
    <3>5. n \notin 1 .. n - 1
      BY <1>2
    <3>6. QED
      BY <3>1, <3>2, <3>3, <3>4, <3>5 DEF LinksFine
  <2>3. QED
    BY <1>2, <2>1, <2>2
<1>12. Fresh(a, n)
  <2>1. Neat(a, a)
    BY <1>10, <1>11 DEF Neat
  <2>2. QED
    BY <1>2, <1>10, <1>11, <2>1 DEF Fresh
<1>13. Marked(a) /\ ~ a.deleted[n] /\ \A v \in 1 .. n - 1 : (a.deleted[v] <=> t.deleted[v])
  <2>1. Marked(a)
    BY <1>6, <1>7, <1>10 DEF Marked
  <2>2. QED
    BY <1>6, <1>7, <2>1
<1>14. Appends(t, sid, at, level, a)
  BY <1>2, <1>4, <1>5, <1>7, <1>8, <1>10, <1>12, <1>13 DEF Appends, n, idx
<1>15. QED
  BY <1>14 DEF a

(* What holds of every graph. *)
Graph(g) == Whole(g) /\ Laid(g) /\ Topped(g) /\ Joined(g) /\ Marked(g) /\ Indexed(g)

(* r is g after an insertion. *)
Inserts(g, sid, at, r) ==
  LET n == Len(g.nodes) + 1
  IN  /\ n \in Nat /\ Len(r.nodes) = n /\ DOMAIN r.nodes = 1 .. n /\ DOMAIN g.nodes = 1 .. n - 1
      /\ r.nodes[n].sid = sid /\ r.nodes[n].at = at
      /\ \A v \in 1 .. n - 1 : r.nodes[v].sid = g.nodes[v].sid /\ r.nodes[v].at = g.nodes[v].at
      /\ r.sidToIdx = [s \in DOMAIN g.sidToIdx \union {sid} |->
                         IF s = sid THEN n ELSE g.sidToIdx[s]]

(* The steps of an insertion: t without the prior version, a with the new node, h     *)
(* with its links.                                                          *)
Steps(g, sid, at, level, t, a, h, r) ==
  /\ Vacates(g, sid, t) /\ Laid(t) /\ Topped(t) /\ Joined(t)
  /\ Appends(t, sid, at, level, a)
  /\ TiesIn(a, Len(t.nodes) + 1, level, h, r)

(* These are the steps. *)
LEMMA InsertMakesSteps ==
  ASSUME NEW g, Graph(g), NEW sid \in Sids, NEW at \in Int, NEW level \in Nat
  PROVE  \E t, a, h : Steps(g, sid, at, level, t, a, h, GraphInsert(g, sid, at, level))
<1> DEFINE t == Tombstoned(g, sid)
           a == Added(t, sid, at, level)
           n == Len(t.nodes) + 1
           r == GraphInsert(g, sid, at, level)
<1>1. Vacates(g, sid, t)
  BY TombstonedLaws DEF Graph
<1>2. r = TiedIn(a, Len(g.nodes) + 1, level)
  BY DEF GraphInsert
<1> HIDE DEF t, r
<1>3. /\ Whole(t) /\ t.nodes = g.nodes /\ Marked(t)
      /\ t.entry = g.entry /\ t.maxLevel = g.maxLevel
  BY <1>1 DEF Vacates
<1>4. Laid(t) /\ Topped(t) /\ Joined(t)
  BY <1>3, SameNodes DEF Graph
<1>5. Appends(t, sid, at, level, a)
  BY <1>3, <1>4, AddedLaws
<1> HIDE DEF a
<1>6. /\ Fresh(a, n) /\ Len(a.nodes[n].links) = level + 1 /\ n \in Nat
      /\ DOMAIN a.nodes = 1 .. n /\ DOMAIN t.nodes = 1 .. n - 1
      /\ \A v \in 1 .. n - 1 : a.nodes[v] = t.nodes[v]
      /\ a.entry = t.entry /\ a.maxLevel = t.maxLevel
  BY <1>5 DEF Appends
<1> HIDE DEF n
<1>7. Entered(a, n)
  <2>1. 1 .. n - 1 \subseteq 1 .. n /\ n \notin 1 .. n - 1
    BY <1>6
  <2>2. QED
    BY <1>4, <1>6, <2>1 DEF Entered, Topped
<1>8. PICK h : TiesIn(a, n, level, h, TiedIn(a, n, level))
  BY <1>6, <1>7, TiedInLaws
<1>9. Steps(g, sid, at, level, t, a, h, r)
  BY <1>1, <1>2, <1>3, <1>4, <1>5, <1>8 DEF Steps, n
<1>10. QED
  BY <1>9 DEF r

(* They lead to a graph with one node more. *)
LEMMA StepsKeepTheLinks ==
  ASSUME NEW g, Graph(g), NEW sid \in Sids, NEW at \in Int, NEW level \in Nat,
         NEW t, NEW a, NEW h, NEW r, Steps(g, sid, at, level, t, a, h, r)
  PROVE  /\ Whole(r) /\ Laid(r) /\ Topped(r) /\ Joined(r)
         /\ r.deleted = a.deleted /\ r.sidToIdx = a.sidToIdx /\ r.live = a.live
         /\ DOMAIN r.nodes = DOMAIN a.nodes /\ Len(r.nodes) = Len(a.nodes)
         /\ \A v \in DOMAIN a.nodes : r.nodes[v].sid = a.nodes[v].sid /\ r.nodes[v].at = a.nodes[v].at
<1> DEFINE n == Len(t.nodes) + 1
<1>1. /\ Laid(t) /\ Topped(t) /\ Joined(t) /\ Appends(t, sid, at, level, a)
      /\ TiesIn(a, n, level, h, r)
  BY DEF Steps
<1>2. /\ Whole(a) /\ Fresh(a, n) /\ n \in Nat /\ Len(a.nodes) = n /\ DOMAIN a.nodes = 1 .. n
      /\ DOMAIN t.nodes = 1 .. n - 1 /\ Len(a.nodes[n].links) = level + 1
      /\ \A v \in 1 .. n - 1 : a.nodes[v] = t.nodes[v]
      /\ \A v \in 1 .. n - 1, k \in Nat : LinksAt(a, v, k) = LinksAt(t, v, k)
      /\ a.entry = t.entry /\ a.maxLevel = t.maxLevel
  BY <1>1 DEF Appends
<1>3. Len(t.nodes) = n - 1 /\ n >= 1
  <2>1. Len(t.nodes) \in Nat
    BY <1>1, RelinkedLaws DEF Laid
  <2>2. QED
    BY <2>1
<1> HIDE DEF n
<1>4. 1 .. n - 1 \subseteq 1 .. n /\ n \in 1 .. n /\ n \notin 1 .. n - 1
      /\ \A v \in 1 .. n : v = n \/ v \in 1 .. n - 1
  BY <1>2, <1>3
<1>5. /\ h \in Relinked(a) /\ Neat(a, h) /\ (a.entry # 0 => TiedAt(a, n, 0, h))
      /\ r = IF a.entry = 0 \/ level > a.maxLevel
             THEN [h EXCEPT !.entry = n, !.maxLevel = level] ELSE h
  BY <1>1 DEF TiesIn
<1>6. /\ Whole(h) /\ h.deleted = a.deleted /\ h.sidToIdx = a.sidToIdx /\ h.live = a.live
      /\ h.entry = a.entry /\ h.maxLevel = a.maxLevel
      /\ \A v \in 1 .. n : /\ h.nodes[v].sid = a.nodes[v].sid /\ h.nodes[v].at = a.nodes[v].at
                           /\ Len(h.nodes[v].links) = Len(a.nodes[v].links)
  BY <1>2, <1>5 DEF Relinked, Whole
<1>7. /\ Whole(r) /\ r.nodes = h.nodes /\ r.deleted = a.deleted /\ r.sidToIdx = a.sidToIdx
      /\ r.live = a.live
      /\ r.entry = IF a.entry = 0 \/ level > a.maxLevel THEN n ELSE a.entry
      /\ r.maxLevel = IF a.entry = 0 \/ level > a.maxLevel THEN level ELSE a.maxLevel
  <2>1. CASE a.entry = 0 \/ level > a.maxLevel
    <3>1. r = [h EXCEPT !.entry = n, !.maxLevel = level]
      BY <1>5, <2>1
    <3>2. QED
      BY <1>6, <2>1, <3>1 DEF Whole
  <2>2. CASE ~ (a.entry = 0 \/ level > a.maxLevel)
    BY <1>5, <1>6, <2>2
  <2>3. QED
    BY <2>1, <2>2
<1>8. /\ Laid(r) /\ DOMAIN r.nodes = 1 .. n /\ Len(r.nodes) = n
      /\ \A v, k : LinksAt(r, v, k) = LinksAt(h, v, k)
  <2>1. DOMAIN a.nodes = 1 .. Len(a.nodes)
    BY <1>2
  <2>2. h \in Relinked(a) /\ Neat(a, h) /\ Whole(r) /\ r.nodes = h.nodes
    BY <1>5, <1>7
  <2>3. /\ Laid(r) /\ DOMAIN r.nodes = DOMAIN a.nodes /\ Len(r.nodes) = Len(a.nodes)
        /\ \A v, k : LinksAt(r, v, k) = LinksAt(h, v, k)
    <3>1. Laid(r)
      BY <2>1, <2>2, LaidLaws
    <3>2. DOMAIN r.nodes = DOMAIN a.nodes /\ Len(r.nodes) = Len(a.nodes)
      BY <2>1, <2>2, LaidLaws
    <3>3. \A v, k : LinksAt(r, v, k) = LinksAt(h, v, k)
      BY <2>2 DEF LinksAt
    <3>4. QED
      BY <3>1, <3>2, <3>3
  <2>4. QED
    BY <1>2, <2>3
<1>9. Topped(r)
  <2>1. /\ a.maxLevel \in Nat /\ (a.entry = 0 <=> n = 1)
        /\ a.entry # 0 => a.entry \in 1 .. n - 1 /\ Len(a.nodes[a.entry].links) = a.maxLevel + 1
        /\ \A v \in 1 .. n - 1 : Len(a.nodes[v].links) <= a.maxLevel + 1
    <3>1. Len(t.nodes) = 0 <=> n = 1
      BY <1>2, <1>3
    <3>2. QED
      BY <1>1, <1>2, <3>1 DEF Topped
  <2>2. \A v \in 1 .. n : Len(r.nodes[v].links) = Len(a.nodes[v].links)
                          /\ Len(a.nodes[v].links) \in Nat
    <3>1. a \in Relinked(a) /\ DOMAIN a.nodes = 1 .. Len(a.nodes)
      BY <1>2 DEF Fresh
    <3>2. \A v \in 1 .. n : Len(a.nodes[v].links) \in Nat
      BY <1>2, <3>1, RelinkedLaws
    <3>3. QED
      BY <1>6, <1>7, <3>2
  <2>3. n # 0
    BY <1>2, <1>3
  <2>4. CASE a.entry = 0
    <3>1. r.entry = n /\ r.maxLevel = level /\ \A v \in 1 .. n : v = n
      BY <1>2, <1>7, <2>1, <2>4
    <3>2. QED
      BY <1>2, <1>4, <1>8, <2>2, <2>3, <3>1 DEF Topped
  <2>5. CASE a.entry # 0 /\ level > a.maxLevel
    <3>1. r.entry = n /\ r.maxLevel = level
      BY <1>7, <2>5
    <3>2. \A v \in 1 .. n : Len(r.nodes[v].links) <= level + 1
      <4> SUFFICES ASSUME NEW v \in 1 .. n PROVE Len(r.nodes[v].links) <= level + 1
        OBVIOUS
      <4>1. CASE v = n
        BY <1>2, <1>4, <2>2, <4>1
      <4>2. CASE v \in 1 .. n - 1
        <5>1. Len(a.nodes[v].links) <= a.maxLevel + 1 /\ Len(a.nodes[v].links) \in Nat
              /\ Len(r.nodes[v].links) = Len(a.nodes[v].links)
          BY <1>4, <2>1, <2>2, <4>2
        <5>2. a.maxLevel \in Nat /\ level > a.maxLevel
          BY <2>1, <2>5
        <5>3. QED
          BY <5>1, <5>2
      <4>3. QED
        BY <1>4, <4>1, <4>2
    <3>3. QED
      BY <1>2, <1>4, <1>8, <2>2, <2>3, <3>1, <3>2 DEF Topped
  <2>6. CASE a.entry # 0 /\ ~ (level > a.maxLevel)
    <3>1. r.entry = a.entry /\ r.maxLevel = a.maxLevel /\ level <= a.maxLevel
      BY <1>7, <2>1, <2>6
    <3>2. \A v \in 1 .. n : Len(r.nodes[v].links) <= a.maxLevel + 1
      BY <1>2, <1>4, <2>1, <2>2, <3>1
    <3>3. QED
      BY <1>4, <1>8, <2>1, <2>2, <2>3, <2>6, <3>1, <3>2 DEF Topped
  <2>7. QED
    BY <2>4, <2>5, <2>6
<1>10. Joined(r)
  <2> SUFFICES ASSUME Small(r, 0), NEW C \in SUBSET (1 .. n), C # {}, Closed(r, C, 0)
               PROVE  C = 1 .. n
    BY <1>8 DEF Joined
  <2>1. Small(a, 0) /\ Small(t, 0)
    <3>1. MaxDegree(0) \in Nat
      BY HnswAssumption DEF MaxDegree
    <3>2. n <= MaxDegree(0) + 1
      BY <1>8 DEF Small
    <3>3. QED
      BY <1>2, <1>3, <3>1, <3>2 DEF Small
  <2>2. CASE a.entry = 0
    <3>1. Len(t.nodes) = 0
      BY <1>1, <1>2, <2>2 DEF Topped
    <3>2. 1 .. n = {n}
      BY <1>2, <1>3, <3>1
    <3>3. QED
      BY <3>2
  <2>3. CASE a.entry # 0
    <3>1. PICK b \in Hosts(a, n, 0) : Tied(h, n, b, 0)
      BY <1>5, <2>1, <2>3 DEF TiedAt
    <3>2. /\ b \in 1 .. n - 1 /\ b # n
          /\ b \in ToSet(LinksAt(h, n, 0)) /\ n \in ToSet(LinksAt(h, b, 0))
      BY <1>2, <1>4, <3>1 DEF Hosts, Tied
    <3>3. \A v \in 1 .. n : ToSet(LinksAt(a, v, 0)) \subseteq ToSet(LinksAt(h, v, 0))
      BY <1>2, <1>5, <2>1, <2>3 DEF TiedAt
    <3>4. \A v \in C : ToSet(LinksAt(h, v, 0)) \subseteq C
      BY <1>8 DEF Closed
    <3> DEFINE D == C \ {n}
    <3>5. D \in SUBSET DOMAIN t.nodes
      BY <1>2, <1>4
    <3>6. Closed(t, D, 0)
      <4> SUFFICES ASSUME NEW v \in D, NEW c \in ToSet(LinksAt(t, v, 0)) PROVE c \in D
        BY DEF Closed
      <4>1. v \in C /\ v \in 1 .. n - 1 /\ v \in 1 .. n
        BY <1>4
      <4>2. LinksAt(a, v, 0) = LinksAt(t, v, 0)
        BY <1>2, <4>1
      <4>3. c \in C
        BY <3>3, <3>4, <4>1, <4>2
      <4>4. c # n
        BY <1>2, <4>1, <4>2 DEF Fresh
      <4>5. QED
        BY <4>3, <4>4
    <3>7. CASE D = {}
      <4>1. C = {n}
        BY <3>7
      <4>2. b \in C
        BY <3>2, <3>4, <4>1
      <4>3. QED
        BY <3>2, <4>1, <4>2
    <3>8. CASE D # {}
      <4>1. D = 1 .. n - 1
        BY <1>1, <1>2, <2>1, <3>5, <3>6, <3>8 DEF Joined
      <4>2. b \in C
        BY <3>2, <4>1
      <4>3. n \in C
        BY <3>2, <3>4, <4>2
      <4>4. QED
        BY <1>4, <4>1, <4>3
    <3>9. QED
      BY <3>7, <3>8
  <2>4. QED
    BY <2>2, <2>3
<1>11. QED
  BY <1>2, <1>6, <1>7, <1>8, <1>9, <1>10

(* insert keeps a graph a graph, and the new node is the one of its subject.       *)
LEMMA InsertLaws ==
  ASSUME NEW g, Graph(g), NEW sid \in Sids, NEW at \in Int, NEW level \in Nat
  PROVE  /\ Graph(GraphInsert(g, sid, at, level))
         /\ Inserts(g, sid, at, GraphInsert(g, sid, at, level))
<1> DEFINE r == GraphInsert(g, sid, at, level)
           n == Len(g.nodes) + 1
           D == DOMAIN g.sidToIdx
           idx == [s \in D \union {sid} |-> IF s = sid THEN n ELSE g.sidToIdx[s]]
<1>1. PICK t, a, h : Steps(g, sid, at, level, t, a, h, r)
  BY InsertMakesSteps
<1> HIDE DEF r
<1>2. /\ Whole(r) /\ Laid(r) /\ Topped(r) /\ Joined(r)
      /\ r.deleted = a.deleted /\ r.sidToIdx = a.sidToIdx /\ r.live = a.live
      /\ DOMAIN r.nodes = DOMAIN a.nodes /\ Len(r.nodes) = Len(a.nodes)
      /\ \A v \in DOMAIN a.nodes : r.nodes[v].sid = a.nodes[v].sid /\ r.nodes[v].at = a.nodes[v].at
  BY <1>1, StepsKeepTheLinks
<1>3. /\ t.nodes = g.nodes /\ t.sidToIdx = g.sidToIdx /\ t.live = Cardinality(D \ {sid})
      /\ \A v \in DOMAIN g.nodes : ~ t.deleted[v] <=> ~ g.deleted[v] /\ g.nodes[v].sid # sid
  BY <1>1 DEF Steps, Vacates
<1>4. /\ n \in Nat /\ Len(a.nodes) = n /\ DOMAIN a.nodes = 1 .. n /\ DOMAIN g.nodes = 1 .. n - 1
      /\ a.nodes[n].sid = sid /\ a.nodes[n].at = at
      /\ \A v \in 1 .. n - 1 : a.nodes[v] = g.nodes[v]
      /\ Marked(a) /\ ~ a.deleted[n] /\ \A v \in 1 .. n - 1 : (a.deleted[v] <=> t.deleted[v])
      /\ a.live = t.live + 1 /\ a.sidToIdx = idx
  <2>1. Appends(t, sid, at, level, a)
    BY <1>1 DEF Steps
  <2>2. QED
    BY <1>3, <2>1 DEF Appends
<1>5. DOMAIN idx = D \union {sid} /\ idx[sid] = n /\ \A s \in D : s # sid => idx[s] = g.sidToIdx[s]
  OBVIOUS
<1> HIDE DEF idx, n
<1>6. 1 .. n - 1 \subseteq 1 .. n /\ n \in 1 .. n /\ n \notin 1 .. n - 1
      /\ \A v \in 1 .. n : v = n \/ v \in 1 .. n - 1
  <2>1. Len(g.nodes) \in Nat
    BY RelinkedLaws DEF Graph, Laid
  <2>2. n >= 1
    BY <2>1 DEF n
  <2>3. QED
    BY <1>4, <2>2
<1>7. Inserts(g, sid, at, r)
  <2>1. n \in 1 .. n
    BY <1>6
  <2>2. QED
    BY <1>2, <1>4, <1>6 DEF Inserts, n, idx
<1>8. Marked(r)
  BY <1>2, <1>4, Zenon DEF Marked
<1>9. \A v \in 1 .. n - 1 : ~ r.deleted[v] <=> ~ g.deleted[v] /\ g.nodes[v].sid # sid
  BY <1>2, <1>3, <1>4, Zenon
<1>10. ~ r.deleted[n]
  BY <1>2, <1>4
<1>11. Indexed(r)
  <2>1. /\ D \subseteq Sids /\ IsFiniteSet(D)
        /\ \A s \in D : /\ g.sidToIdx[s] \in 1 .. n - 1 /\ ~ g.deleted[g.sidToIdx[s]]
                        /\ g.nodes[g.sidToIdx[s]].sid = s
        /\ \A v \in 1 .. n - 1 : ~ g.deleted[v] => /\ g.nodes[v].sid \in D
                                                   /\ g.sidToIdx[g.nodes[v].sid] = v
    BY <1>4 DEF Graph, Indexed
  <2>2. DOMAIN idx \subseteq Sids /\ IsFiniteSet(DOMAIN idx)
    BY <1>5, <2>1, FS_AddElement
  <2>3. r.live = Cardinality(DOMAIN idx)
    <3>1. IsFiniteSet(D \ {sid}) /\ sid \notin D \ {sid} /\ (D \ {sid}) \union {sid} = D \union {sid}
      BY <2>1, FS_Subset
    <3>2. Cardinality((D \ {sid}) \union {sid}) = Cardinality(D \ {sid}) + 1
      BY <3>1, FS_AddElement
    <3>3. QED
      BY <1>2, <1>3, <1>4, <1>5, <3>1, <3>2
  <2>4. \A v \in 1 .. n - 1 : r.nodes[v].sid = g.nodes[v].sid
    BY <1>2, <1>4, <1>6
  <2>5. r.nodes[n].sid = sid
    BY <1>2, <1>4, <1>6
  <2>6. ASSUME NEW s \in DOMAIN idx
        PROVE  idx[s] \in 1 .. n /\ ~ r.deleted[idx[s]] /\ r.nodes[idx[s]].sid = s
    <3>1. CASE s = sid
      BY <1>5, <1>6, <1>10, <2>5, <3>1
    <3>2. CASE s # sid
      <4> DEFINE p == g.sidToIdx[s]
      <4>1. s \in D /\ idx[s] = p /\ p \in 1 .. n - 1 /\ ~ g.deleted[p] /\ g.nodes[p].sid = s
        BY <1>5, <2>1, <3>2
      <4> HIDE DEF p
      <4>2. ~ r.deleted[p]
        BY <1>9, <3>2, <4>1, Zenon
      <4>3. QED
        BY <1>6, <2>4, <4>1, <4>2
    <3>3. QED
      BY <3>1, <3>2
  <2>7. ASSUME NEW v \in 1 .. n, ~ r.deleted[v]
        PROVE  r.nodes[v].sid \in DOMAIN idx /\ idx[r.nodes[v].sid] = v
    <3>1. CASE v = n
      BY <1>5, <2>5, <3>1
    <3>2. CASE v \in 1 .. n - 1
      <4>1. ~ g.deleted[v] /\ g.nodes[v].sid # sid
        BY <1>9, <2>7, <3>2, Zenon
      <4>2. QED
        BY <1>5, <2>1, <2>4, <3>2, <4>1
    <3>3. QED
      BY <1>6, <3>1, <3>2
  <2>8. QED
    BY <1>2, <1>4, <2>2, <2>3, <2>6, <2>7 DEF Indexed
<1>12. Graph(r)
  BY <1>2, <1>8, <1>11 DEF Graph
<1>13. QED
  BY <1>7, <1>12 DEF r

-----------------------------------------------------------------------------
(* The shards *)

(* The subjects of a shard. *)
SidsOf(vs, i) == {s \in DOMAIN vs : ShardOf[s] = i}

(* g has the vectors last written to the shard. *)
Remembers(g, vs, i) ==
  /\ DOMAIN g.sidToIdx = SidsOf(vs, i)
  /\ \A s \in SidsOf(vs, i) : g.nodes[g.sidToIdx[s]].at = vs[s]

(* gs is a graph for each shard, vs what they have. *)
GraphsHold(gs, vs) ==
  /\ DOMAIN gs = Shards
  /\ DOMAIN vs \subseteq Sids /\ \A s \in DOMAIN vs : vs[s] \in Int
  /\ \A i \in Shards : Graph(gs[i]) /\ Remembers(gs[i], vs, i)

GraphsInv == GraphsHold(graphs, vectors)

(* The empty graph is a graph. *)
LEMMA EmptyIsAGraph ==
  ASSUME NEW i \in Shards
  PROVE  Graph(EmptyGraph) /\ Remembers(EmptyGraph, <<>>, i)
<1> DEFINE g == EmptyGraph
<1>1. /\ g.nodes = <<>> /\ g.deleted = <<>> /\ g.sidToIdx = <<>> /\ g.entry = 0
      /\ g.maxLevel = 0 /\ g.live = 0 /\ Whole(g)
  BY DEF EmptyGraph, Whole
<1> HIDE DEF g
<1>2. DOMAIN <<>> = {} /\ Len(<<>>) = 0 /\ 1 .. 0 = {}
  OBVIOUS
<1>3. g \in Relinked(g)
  <2>1. <<>> \in Seq(NodeOver(DOMAIN g.nodes))
    OBVIOUS
  <2>2. g \in [nodes : Seq(NodeOver(DOMAIN g.nodes)), deleted : {g.deleted},
               sidToIdx : {g.sidToIdx}, entry : {g.entry}, maxLevel : {g.maxLevel}, live : {g.live}]
    BY <1>1, <2>1 DEF Whole
  <2>3. QED
    BY <1>1, <1>2, <2>2 DEF Relinked
<1>4. Laid(g)
  BY <1>1, <1>2, <1>3 DEF Laid, Neat
<1>5. Topped(g) /\ Joined(g)
  BY <1>1, <1>2 DEF Topped, Joined
<1>6. Marked(g)
  <2>1. <<>> \in Seq(BOOLEAN) /\ <<>> \in [{} -> BOOLEAN]
    OBVIOUS
  <2>2. QED
    BY <1>1, <1>2, <2>1 DEF Marked
<1>7. Indexed(g)
  BY <1>1, <1>2, FS_EmptySet DEF Indexed
<1>8. Remembers(g, <<>>, i)
  BY <1>1, <1>2 DEF Remembers, SidsOf
<1>9. QED
  BY <1>1, <1>4, <1>5, <1>6, <1>7, <1>8 DEF Graph, g

(* What an insertion makes of the graphs and of what they remember. *)
GraphsWith(gs, s, at, level) == [gs EXCEPT ![ShardOf[s]] = GraphInsert(gs[ShardOf[s]], s, at, level)]
VectorsWith(vs, s, at) == [t \in DOMAIN vs \union {s} |-> IF t = s THEN at ELSE vs[t]]

(* An insertion is remembered. *)
LEMMA InsertIsRemembered ==
  ASSUME NEW gs, NEW vs, GraphsHold(gs, vs), NEW s \in Sids, NEW at \in Int, NEW level \in Nat
  PROVE  GraphsHold(GraphsWith(gs, s, at, level), VectorsWith(vs, s, at))
<1> DEFINE j == ShardOf[s]
           gs1 == GraphsWith(gs, s, at, level)
           vs1 == VectorsWith(vs, s, at)
           g == gs[j]
           r == GraphInsert(g, s, at, level)
           n == Len(g.nodes) + 1
<1>1. j \in Shards /\ Graph(g) /\ Remembers(g, vs, j)
  BY DEF Shards, GraphsHold
<1>2. DOMAIN gs1 = Shards /\ gs1[j] = r /\ \A i \in Shards : i # j => gs1[i] = gs[i]
  BY <1>1 DEF GraphsHold, GraphsWith
<1>3. /\ DOMAIN vs1 = DOMAIN vs \union {s} /\ vs1[s] = at
      /\ \A t \in DOMAIN vs : t # s => vs1[t] = vs[t]
  BY DEF VectorsWith
<1> HIDE DEF g, gs1, vs1
<1>4. Graph(r) /\ Inserts(g, s, at, r)
  BY <1>1, InsertLaws
<1> HIDE DEF r
<1>5. /\ r.nodes[n].at = at /\ DOMAIN g.nodes = 1 .. n - 1
      /\ \A v \in 1 .. n - 1 : r.nodes[v].at = g.nodes[v].at
      /\ r.sidToIdx = [t \in DOMAIN g.sidToIdx \union {s} |-> IF t = s THEN n ELSE g.sidToIdx[t]]
  BY <1>4 DEF Inserts
<1> HIDE DEF n
<1>6. Remembers(r, vs1, j)
  <2>1. SidsOf(vs1, j) = SidsOf(vs, j) \union {s}
    BY <1>3 DEF SidsOf
  <2>2. DOMAIN g.sidToIdx = SidsOf(vs, j)
    BY <1>1 DEF Remembers
  <2>3. ASSUME NEW t \in SidsOf(vs1, j) PROVE r.nodes[r.sidToIdx[t]].at = vs1[t]
    <3>1. CASE t = s
      BY <1>3, <1>5, <3>1
    <3>2. CASE t # s
      <4>1. t \in SidsOf(vs, j) /\ r.sidToIdx[t] = g.sidToIdx[t] /\ vs1[t] = vs[t]
        BY <1>3, <1>5, <2>1, <2>2, <3>2 DEF SidsOf
      <4>2. g.sidToIdx[t] \in DOMAIN g.nodes /\ g.nodes[g.sidToIdx[t]].at = vs[t]
        BY <1>1, <2>2, <4>1 DEF Remembers, Graph, Indexed
      <4>3. QED
        BY <1>5, <4>1, <4>2
    <3>3. QED
      BY <3>1, <3>2
  <2>4. QED
    BY <1>5, <2>1, <2>2, <2>3 DEF Remembers
<1>7. ASSUME NEW i \in Shards, i # j PROVE Graph(gs1[i]) /\ Remembers(gs1[i], vs1, i)
  <2>1. SidsOf(vs1, i) = SidsOf(vs, i) /\ \A t \in SidsOf(vs, i) : vs1[t] = vs[t]
    BY <1>3, <1>7 DEF SidsOf
  <2>2. Graph(gs[i]) /\ Remembers(gs[i], vs, i)
    BY DEF GraphsHold
  <2>3. QED
    BY <1>2, <1>7, <2>1, <2>2 DEF Remembers
<1>8. \A i \in Shards : Graph(gs1[i]) /\ Remembers(gs1[i], vs1, i)
  BY <1>2, <1>4, <1>6, <1>7
<1>9. DOMAIN vs1 \subseteq Sids /\ \A t \in DOMAIN vs1 : vs1[t] \in Int
  BY <1>3 DEF GraphsHold
<1>10. QED
  BY <1>2, <1>8, <1>9 DEF GraphsHold, gs1, vs1

(* A removal is. *)
LEMMA RemoveIsRemembered ==
  ASSUME NEW gs, NEW vs, GraphsHold(gs, vs), NEW s \in Sids,
         NEW gs1, gs1 = [gs EXCEPT ![ShardOf[s]] = GraphRemove(@, s)],
         NEW vs1, vs1 = [t \in DOMAIN vs \ {s} |-> vs[t]]
  PROVE  GraphsHold(gs1, vs1)
<1> DEFINE j == ShardOf[s]
           g == gs[j]
           r == GraphRemove(g, s)
<1>1. j \in Shards /\ Graph(g) /\ Remembers(g, vs, j)
  BY DEF Shards, GraphsHold
<1>2. DOMAIN gs1 = Shards /\ gs1[j] = r /\ \A i \in Shards : i # j => gs1[i] = gs[i]
  BY <1>1 DEF GraphsHold
<1>3. DOMAIN vs1 = DOMAIN vs \ {s} /\ \A t \in DOMAIN vs : t # s => vs1[t] = vs[t]
  OBVIOUS
<1> HIDE DEF g
<1>4. /\ Graph(r) /\ r.nodes = g.nodes
      /\ r.sidToIdx = [t \in DOMAIN g.sidToIdx \ {s} |-> g.sidToIdx[t]]
  BY <1>1, RemoveLaws DEF Graph
<1> HIDE DEF r
<1>5. Remembers(r, vs1, j)
  <2>1. SidsOf(vs1, j) = SidsOf(vs, j) \ {s} /\ \A t \in SidsOf(vs1, j) : vs1[t] = vs[t]
    BY <1>3 DEF SidsOf
  <2>2. QED
    BY <1>1, <1>4, <2>1 DEF Remembers
<1>6. ASSUME NEW i \in Shards, i # j PROVE Graph(gs1[i]) /\ Remembers(gs1[i], vs1, i)
  <2>1. SidsOf(vs1, i) = SidsOf(vs, i) /\ \A t \in SidsOf(vs, i) : vs1[t] = vs[t]
    BY <1>3, <1>6 DEF SidsOf
  <2>2. Graph(gs[i]) /\ Remembers(gs[i], vs, i)
    BY DEF GraphsHold
  <2>3. QED
    BY <1>2, <1>6, <2>1, <2>2 DEF Remembers
<1>7. \A i \in Shards : Graph(gs1[i]) /\ Remembers(gs1[i], vs1, i)
  BY <1>2, <1>4, <1>5, <1>6
<1>8. DOMAIN vs1 \subseteq Sids /\ \A t \in DOMAIN vs1 : vs1[t] \in Int
  BY <1>3 DEF GraphsHold
<1>9. QED
  BY <1>2, <1>7, <1>8 DEF GraphsHold

(* The graphs are graphs of what the callers wrote, at all times. *)
THEOREM GraphsStayGraphs == ShardSpec => []GraphsInv
<1>1. ShardInit => GraphsInv
  <2> SUFFICES ASSUME ShardInit PROVE GraphsInv
    OBVIOUS
  <2>1. DOMAIN graphs = Shards /\ \A i \in Shards : graphs[i] = EmptyGraph
    BY DEF ShardInit
  <2>2. vectors = <<>> /\ DOMAIN <<>> = {}
    BY DEF ShardInit
  <2>3. QED
    BY <2>1, <2>2, EmptyIsAGraph DEF GraphsInv, GraphsHold
<1>2. GraphsInv /\ [ShardNext]_shardVars => GraphsInv'
  <2> SUFFICES ASSUME GraphsInv, [ShardNext]_shardVars PROVE GraphsInv'
    OBVIOUS
  <2>1. ASSUME NEW s \in Sids, InsertVector(s) PROVE GraphsInv'
    <3>1. PICK at \in Positions, level \in Levels :
            /\ graphs' = [graphs EXCEPT ![ShardOf[s]] = GraphInsert(@, s, at, level)]
            /\ vectors' = [t \in DOMAIN vectors \union {s} |-> IF t = s THEN at ELSE vectors[t]]
      BY <2>1 DEF InsertVector
    <3>2. at \in Int /\ level \in Nat
      BY ShardAssumption
    <3>3. GraphsHold(graphs, vectors)
      BY DEF GraphsInv
    <3>4. GraphsHold(graphs', vectors')
      <4>1. graphs' = GraphsWith(graphs, s, at, level) /\ vectors' = VectorsWith(vectors, s, at)
        BY <3>1 DEF GraphsWith, VectorsWith
      <4>2. QED
        BY <3>2, <3>3, <4>1, InsertIsRemembered
    <3>5. QED
      BY <3>4 DEF GraphsInv
  <2>2. ASSUME NEW s \in Sids, RemoveVector(s) PROVE GraphsInv'
    BY <2>2, RemoveIsRemembered DEF RemoveVector, GraphsInv
  <2>3. ASSUME StartSearch PROVE GraphsInv'
    BY <2>3 DEF StartSearch, GraphsInv
  <2>4. ASSUME NEW i \in Shards, SearchShard(i) PROVE GraphsInv'
    BY <2>4 DEF SearchShard, GraphsInv
  <2>5. ASSUME Merge PROVE GraphsInv'
    BY <2>5 DEF Merge, GraphsInv
  <2>6. ASSUME ReturnAnswer PROVE GraphsInv'
    BY <2>6 DEF ReturnAnswer, GraphsInv
  <2>7. ASSUME UNCHANGED shardVars PROVE GraphsInv'
    BY <2>7 DEF shardVars, GraphsInv
  <2>8. QED
    BY <2>1, <2>2, <2>3, <2>4, <2>5, <2>6, <2>7 DEF ShardNext
<1>3. QED
  BY <1>1, <1>2, PTL DEF ShardSpec

(* What a shard holds. *)
Mine(vs, i) == {r \in Held(vs) : ShardOf[r.sid] = i}

(* A subject is held once. *)
LEMMA MineLaws ==
  ASSUME NEW gs, NEW vs, GraphsHold(gs, vs), NEW i \in Shards
  PROVE  LET g == gs[i]
         IN  /\ g.live = Cardinality(Mine(vs, i))
             /\ {<<g.nodes[n].sid, g.nodes[n].at>> : n \in Live(g)}
                  = {<<r.sid, r.at>> : r \in Mine(vs, i)}
             /\ {g.sidToIdx[s] : s \in DOMAIN g.sidToIdx} = Live(g)
<1> DEFINE g == gs[i]
           D == SidsOf(vs, i)
           mine == Mine(vs, i)
           f == [s \in D |-> [sid |-> s, at |-> vs[s]]]
<1>1. Graph(g) /\ DOMAIN g.sidToIdx = D /\ \A s \in D : g.nodes[g.sidToIdx[s]].at = vs[s]
  BY DEF GraphsHold, Remembers
<1> HIDE DEF g
<1>2. /\ IsFiniteSet(D) /\ g.live = Cardinality(D)
      /\ \A s \in D : /\ g.sidToIdx[s] \in DOMAIN g.nodes /\ ~ g.deleted[g.sidToIdx[s]]
                      /\ g.nodes[g.sidToIdx[s]].sid = s
      /\ \A n \in DOMAIN g.nodes :
           ~ g.deleted[n] => g.nodes[n].sid \in D /\ g.sidToIdx[g.nodes[n].sid] = n
  BY <1>1 DEF Graph, Indexed
<1>3. mine = {f[s] : s \in D}
  <2>1. \A r \in mine : \E s \in D : r = f[s]
    BY DEF Mine, Held, SidsOf
  <2>2. \A s \in D : f[s] \in mine
    BY DEF Mine, Held, SidsOf
  <2> HIDE DEF mine, D, f
  <2>3. QED
    BY <2>1, <2>2
<1>4. \A s \in D : f[s].sid = s /\ f[s].at = vs[s]
  OBVIOUS
<1>5. DOMAIN f = D
  OBVIOUS
<1> HIDE DEF f, mine, D
<1>6. g.live = Cardinality(mine)
  <2>1. f \in [D -> mine]
    <3>1. f = [s \in D |-> f[s]]
      BY DEF f
    <3>2. QED
      BY <1>3, <3>1
  <2>2. f \in Surjection(D, mine)
    BY <1>3, <2>1 DEF Surjection
  <2>3. f \in Injection(D, mine)
    BY <1>4, <2>1 DEF Injection, IsInjective
  <2>4. QED
    BY <1>2, <2>2, <2>3, FS_Surjection
<1>7. {g.sidToIdx[s] : s \in D} = Live(g)
  BY <1>2 DEF Live
<1>8. {<<g.nodes[n].sid, g.nodes[n].at>> : n \in Live(g)} = {<<r.sid, r.at>> : r \in mine}
  <2>1. ASSUME NEW n \in Live(g) PROVE \E r \in mine : <<g.nodes[n].sid, g.nodes[n].at>> = <<r.sid, r.at>>
    <3> DEFINE s == g.nodes[n].sid
    <3>1. s \in D /\ g.sidToIdx[s] = n
      BY <1>2 DEF Live
    <3>2. f[s] \in mine /\ f[s].sid = s /\ f[s].at = g.nodes[n].at
      BY <1>1, <1>3, <1>4, <3>1
    <3>3. QED
      BY <3>2
  <2>2. ASSUME NEW r \in mine PROVE \E n \in Live(g) : <<r.sid, r.at>> = <<g.nodes[n].sid, g.nodes[n].at>>
    <3>1. PICK s \in D : r = f[s]
      BY <1>3
    <3>2. /\ g.sidToIdx[s] \in Live(g) /\ g.nodes[g.sidToIdx[s]].sid = s
          /\ g.nodes[g.sidToIdx[s]].at = vs[s]
      BY <1>1, <1>2 DEF Live
    <3>3. QED
      BY <1>4, <3>1, <3>2
  <2>3. QED
    BY <2>1, <2>2
<1>9. QED
  BY <1>1, <1>6, <1>7, <1>8 DEF g, mine

(* Every graph can be walked, and its live nodes are the vectors last written.     *)
THEOREM GraphsKeepTheirForm == ShardSpec => []GraphsAreWellFormed
<1>1. ASSUME GraphsInv PROVE GraphsAreWellFormed
  <2> SUFFICES ASSUME NEW i \in Shards
               PROVE  LET g == graphs[i]
                          mine == {r \in Held(vectors) : ShardOf[r.sid] = i}
                      IN  /\ g.entry # 0 => Len(g.nodes[g.entry].links) = g.maxLevel + 1
                          /\ \A n \in DOMAIN g.nodes :
                               LinkedProperly(g, n) /\ Len(g.nodes[n].links) <= g.maxLevel + 1
                          /\ g.live = Cardinality(mine)
                          /\ {<<g.nodes[n].sid, g.nodes[n].at>> : n \in Live(g)}
                               = {<<r.sid, r.at>> : r \in mine}
                          /\ {g.sidToIdx[s] : s \in DOMAIN g.sidToIdx} = Live(g)
    BY Zenon DEF GraphsAreWellFormed
  <2> DEFINE g == graphs[i]
  <2>1. Graph(g)
    BY <1>1 DEF GraphsInv, GraphsHold
  <2>2. /\ g.live = Cardinality(Mine(vectors, i))
        /\ {<<g.nodes[n].sid, g.nodes[n].at>> : n \in Live(g)}
             = {<<r.sid, r.at>> : r \in Mine(vectors, i)}
        /\ {g.sidToIdx[s] : s \in DOMAIN g.sidToIdx} = Live(g)
    BY <1>1, MineLaws DEF GraphsInv
  <2> HIDE DEF g
  <2>3. /\ g.entry # 0 => Len(g.nodes[g.entry].links) = g.maxLevel + 1
        /\ \A n \in DOMAIN g.nodes : Len(g.nodes[n].links) <= g.maxLevel + 1
    BY <2>1 DEF Graph, Topped
  <2>4. ASSUME NEW n \in DOMAIN g.nodes PROVE LinkedProperly(g, n)
    <3> SUFFICES ASSUME NEW level \in 0 .. Len(g.nodes[n].links) - 1
                 PROVE  /\ Len(LinksAt(g, n, level)) <= MaxDegree(level)
                        /\ IsInjective(LinksAt(g, n, level))
                        /\ \A b \in ToSet(LinksAt(g, n, level)) :
                             b # n /\ level < Len(g.nodes[b].links)
      BY DEF LinkedProperly
    <3>1. level \in Nat
      OBVIOUS
    <3>2. QED
      BY <2>1, <3>1 DEF Graph, Laid, Neat, LinksFine
  <2>5. QED
    BY <2>2, <2>3, <2>4 DEF Mine, g
<1>2. QED
  BY <1>1, GraphsStayGraphs, PTL

-----------------------------------------------------------------------------
(* What a shard answers *)

(* The live nodes among w. *)
AliveOf(g, w) == {n \in w : ~ g.deleted[n]}

(* The answer made of the nodes a search found. *)
Taken(g, q, k, w) ==
  LET alive == FirstOf(Ascending(g, q, AliveOf(g, w)), k)
  IN  [i \in DOMAIN alive |-> Candidate(g, q, alive[i])]

(* f are the m nodes s, the k nearest of A. *)
TakesNearest(g, q, k, A, m, s, f) ==
  /\ m \in Nat /\ m <= k /\ m <= Cardinality(A) /\ (m = k \/ m = Cardinality(A))
  /\ s \in [1 .. m -> A]
  /\ \A i, j \in 1 .. m : i < j => Closer(g, q, s[i], s[j])
  /\ \A n \in A : \/ \E i \in 1 .. m : s[i] = n
                  \/ m = k /\ \A i \in 1 .. m : Closer(g, q, s[i], n)
  /\ f = [i \in 1 .. m |-> Candidate(g, q, s[i])]

(* The nearest are taken. *)
LEMMA TakenLaws ==
  ASSUME NEW g, Walkable(g), NEW q \in Int, NEW k \in Nat, NEW w \in SUBSET DOMAIN g.nodes
  PROVE  /\ AliveOf(g, w) \in SUBSET DOMAIN g.nodes
         /\ IsFiniteSet(AliveOf(g, w)) /\ Cardinality(AliveOf(g, w)) \in Nat
         /\ \E m, s : TakesNearest(g, q, k, AliveOf(g, w), m, s, Taken(g, q, k, w))
<1> DEFINE A == AliveOf(g, w)
           c == Cardinality(A)
           all == Ascending(g, q, A)
           s == FirstOf(all, k)
           f == Taken(g, q, k, w)
<1>1. A \in SUBSET DOMAIN g.nodes
  BY DEF AliveOf
<1>2. f = [i \in DOMAIN s |-> Candidate(g, q, s[i])]
  BY DEF Taken
<1> HIDE DEF A, f
<1>3. /\ IsFiniteSet(A) /\ c \in Nat /\ GoesThrough(all, c, A)
      /\ \A i, j \in 1 .. c : i < j => Closer(g, q, all[i], all[j])
  BY <1>1, AscendingLaws
<1>4. all \in Seq(A) /\ Len(all) = c /\ DOMAIN all = 1 .. c
  BY <1>1, AscendingIsASequence
<1> HIDE DEF all, c
<1>5. PICK m : IsFirst(s, m, all, k, A)
  BY <1>4, FirstOfLaws
<1> HIDE DEF s
<1>6. /\ m \in Nat /\ m <= k /\ m <= c /\ (m = k \/ m = c) /\ s \in Seq(A) /\ Len(s) = m
      /\ DOMAIN s = 1 .. m /\ \A i \in 1 .. m : s[i] = all[i]
  BY <1>4, <1>5 DEF IsFirst
<1>7. s \in [1 .. m -> A]
  BY <1>6
<1>8. \A i \in 1 .. m : i \in 1 .. c
  BY <1>3, <1>6
<1>9. \A i, j \in 1 .. m : i < j => Closer(g, q, s[i], s[j])
  BY <1>3, <1>6, <1>8
<1>10. ASSUME NEW n \in A
       PROVE  \/ \E i \in 1 .. m : s[i] = n
              \/ m = k /\ \A i \in 1 .. m : Closer(g, q, s[i], n)
  <2>1. PICK i \in 1 .. c : all[i] = n
    BY <1>3 DEF GoesThrough
  <2>2. CASE i <= m
    <3>1. i \in 1 .. m
      BY <1>6, <2>2
    <3>2. QED
      BY <1>6, <2>1, <3>1
  <2>3. CASE i > m
    <3>1. m = k
      BY <1>3, <1>6, <2>3
    <3>2. ASSUME NEW j \in 1 .. m PROVE Closer(g, q, s[j], n)
      <4>1. j \in 1 .. c /\ j < i
        BY <1>6, <1>8, <2>3
      <4>2. QED
        BY <1>3, <1>6, <2>1, <4>1
    <3>3. QED
      BY <3>1, <3>2
  <2>4. QED
    BY <1>6, <2>2, <2>3
<1>11. f = [i \in 1 .. m |-> Candidate(g, q, s[i])]
  BY <1>2, <1>6
<1>12. TakesNearest(g, q, k, A, m, s, f)
  BY <1>6, <1>7, <1>9, <1>10, <1>11 DEF TakesNearest, c
<1>13. \E x, y : TakesNearest(g, q, k, A, x, y, f)
  BY <1>12
<1>14. QED
  BY <1>1, <1>3, <1>13 DEF A, c, f

(* A graph can be walked. *)
LEMMA GraphIsWalkable ==
  ASSUME NEW g, Graph(g)
  PROVE  Walkable(g) /\ Len(g.nodes) \in Nat /\ DOMAIN g.nodes = 1 .. Len(g.nodes)
<1>1. DOMAIN g.nodes = 1 .. Len(g.nodes) /\ g \in Relinked(g)
  BY DEF Graph, Laid
<1>2. QED
  BY <1>1, RelinkedLaws DEF Walkable

(* A search enters the lowest layer at a node. *)
LEMMA EntryIsANode ==
  ASSUME NEW g, Graph(g), g.entry # 0, NEW q \in Int
  PROVE  BaseEntry(g, q) \in DOMAIN g.nodes
<1> DEFINE lay == [l \in Nat |-> DOMAIN g.nodes]
<1>1. Walkable(g) /\ g.entry \in DOMAIN g.nodes /\ g.maxLevel \in Nat
  BY GraphIsWalkable DEF Graph, Topped
<1>2. \A l \in Nat : lay[l] \in SUBSET DOMAIN g.nodes /\ Closed(g, lay[l], l)
  BY <1>1, AllAreClosed
<1>3. Layers(g, lay, g.maxLevel, 1)
  <2>1. \A l \in 1 .. g.maxLevel : l \in Nat
    OBVIOUS
  <2>2. \A l \in Nat : lay[l + 1] \subseteq lay[l]
    OBVIOUS
  <2> HIDE DEF lay
  <2>3. QED
    BY <1>2, <2>1, <2>2 DEF Layers
<1>4. g.entry \in lay[g.maxLevel] /\ 1 \in Nat
  BY <1>1
<1> HIDE DEF lay
<1>5. Descend(g, q, g.entry, g.maxLevel, 1) \in DOMAIN g.nodes
  BY <1>1, <1>3, <1>4, DescentStays
<1>6. QED
  BY <1>5 DEF BaseEntry

(* w are the nodes a search of g finds. *)
Finds(g, q, k, ef, w) ==
  LET R == Reachable(g, q)
  IN  /\ w \in SUBSET R /\ R \in SUBSET DOMAIN g.nodes /\ R # {}
      /\ IsFiniteSet(R) /\ Cardinality(R) \in Nat
      /\ Cardinality(w) = Least(Beam(k, ef), Cardinality(R))
      /\ Cardinality(R) <= Beam(k, ef) => w = R
      /\ Small(g, 0) => R = DOMAIN g.nodes
      /\ GraphSearch(g, q, k, ef) = Taken(g, q, k, w)

(* A search takes the nearest of the nodes it reaches. *)
LEMMA SearchAnswers ==
  ASSUME NEW g, Graph(g), g.entry # 0, NEW q \in Int, NEW k \in Nat \ {0}, NEW ef \in Nat \ {0}
  PROVE  \E w : Finds(g, q, k, ef, w)
<1> DEFINE R == Reachable(g, q)
           b == Beam(k, ef)
           w == SearchLayer(g, q, BaseEntry(g, q), b, 0)
<1>1. Walkable(g) /\ BaseEntry(g, q) \in DOMAIN g.nodes /\ b \in Nat \ {0}
  BY GraphIsWalkable, EntryIsANode DEF Beam
<1>2. /\ R \in SUBSET DOMAIN g.nodes /\ BaseEntry(g, q) \in R /\ Closed(g, R, 0)
  BY <1>1, ReachableLaws
<1>3. GraphSearch(g, q, k, ef) = Taken(g, q, k, w)
  BY DEF GraphSearch, Taken, AliveOf
<1> HIDE DEF b
<1>4. /\ w \in SUBSET R
      /\ Cardinality(R) <= b => w = R
      /\ Cardinality(w) = Least(b, Cardinality(R))
  BY <1>1, SearchFindsReachable
<1> HIDE DEF w, R
<1>6. IsFiniteSet(R) /\ Cardinality(R) \in Nat
  BY <1>1, <1>2, AscendingLaws
<1>7. Small(g, 0) => R = DOMAIN g.nodes
  BY <1>2 DEF Graph, Joined
<1>8. Finds(g, q, k, ef, w)
  BY <1>2, <1>3, <1>4, <1>6, <1>7 DEF Finds, R, b
<1>9. QED
  BY <1>8

(* What a shard answers holds for any graph. *)
LEMMA AnswerIsNearest ==
  ASSUME NEW g, Graph(g), NEW q \in Int, NEW k \in Nat \ {0}, NEW ef \in Nat \ {0}
  PROVE  LET R == Reachable(g, q)
             found == GraphSearch(g, q, k, ef)
         IN  /\ Len(g.nodes) <= MaxDegree(0) + 1 => R = DOMAIN g.nodes
             /\ Cardinality(R) <= Beam(k, ef) => found = Scan(g, q, k, R)
             /\ Len(found) >= Least(k, Least(Beam(k, ef), Cardinality(R))
                                         - Cardinality(R \ Live(g)))
<1> DEFINE R == Reachable(g, q)
           found == GraphSearch(g, q, k, ef)
           b == Beam(k, ef)
<1>1. Walkable(g) /\ Len(g.nodes) \in Nat /\ DOMAIN g.nodes = 1 .. Len(g.nodes) /\ b \in Nat
  BY GraphIsWalkable DEF Beam
<1>2. ASSUME R \in SUBSET DOMAIN g.nodes PROVE Scan(g, q, k, R) = Taken(g, q, k, R)
  <2>1. R \intersect Live(g) = AliveOf(g, R)
    BY <1>2 DEF Live, AliveOf
  <2> HIDE DEF R
  <2>2. QED
    BY <2>1 DEF Scan, Taken
<1> HIDE DEF found, b
<1>3. CASE g.entry = 0
  <2>1. DOMAIN g.nodes = {} /\ Len(g.nodes) = 0
    BY <1>1, <1>3 DEF Graph, Topped
  <2>2. R = {} /\ R \in SUBSET DOMAIN g.nodes
    BY <2>1 DEF Reachable
  <2>3. found = <<>>
    BY <1>3 DEF GraphSearch, found
  <2> HIDE DEF R
  <2>4. AliveOf(g, R) = {} /\ R \ Live(g) = {} /\ Cardinality({}) = 0
    BY <2>2, FS_EmptySet DEF AliveOf
  <2>5. PICK m, s : TakesNearest(g, q, k, AliveOf(g, R), m, s, Taken(g, q, k, R))
    BY <1>1, <2>2, TakenLaws
  <2>6. Taken(g, q, k, R) = <<>>
    <3>1. m = 0 /\ Taken(g, q, k, R) = [i \in 1 .. m |-> Candidate(g, q, s[i])]
      BY <2>4, <2>5 DEF TakesNearest
    <3>2. 1 .. 0 = {}
      OBVIOUS
    <3>3. QED
      BY <3>1, <3>2
  <2>7. Len(<<>>) = 0 /\ Least(k, Least(b, 0) - 0) = 0
    BY <1>1 DEF Least
  <2>8. QED
    BY <1>2, <2>1, <2>2, <2>3, <2>4, <2>6, <2>7 DEF R, found, b
<1>4. CASE g.entry # 0
  <2>1. PICK w : Finds(g, q, k, ef, w)
    BY <1>4, SearchAnswers
  <2>2. /\ w \in SUBSET R /\ R \in SUBSET DOMAIN g.nodes
        /\ IsFiniteSet(R) /\ Cardinality(R) \in Nat
        /\ Cardinality(w) = Least(b, Cardinality(R))
        /\ Cardinality(R) <= b => w = R
        /\ Small(g, 0) => R = DOMAIN g.nodes
        /\ found = Taken(g, q, k, w)
    BY <2>1 DEF Finds, found, b
  <2> HIDE DEF R
  <2>3. Len(g.nodes) <= MaxDegree(0) + 1 => R = DOMAIN g.nodes
    BY <2>2 DEF Small
  <2>4. Cardinality(R) <= b => found = Scan(g, q, k, R)
    BY <1>2, <2>2
  <2>5. Len(found) >= Least(k, Least(b, Cardinality(R)) - Cardinality(R \ Live(g)))
    <3> DEFINE A == AliveOf(g, w)
               D == w \ A
               x == Cardinality(R \ Live(g))
    <3>1. w \in SUBSET DOMAIN g.nodes /\ A \subseteq w
      BY <2>2 DEF AliveOf
    <3>2. PICK m, s : TakesNearest(g, q, k, A, m, s, found)
      BY <1>1, <2>2, <3>1, TakenLaws
    <3>3. D \subseteq R \ Live(g)
      BY <2>2 DEF AliveOf, Live
    <3> HIDE DEF A
    <3>4. IsFiniteSet(R \ Live(g)) /\ x \in Nat /\ IsFiniteSet(D) /\ Cardinality(D) \in Nat
          /\ Cardinality(D) <= x
      <4>1. IsFiniteSet(R \ Live(g)) /\ x \in Nat
        BY <2>2, FS_Subset, FS_CardinalityType
      <4>2. QED
        BY <3>3, <4>1, FS_Subset, FS_CardinalityType
    <3>5. IsFiniteSet(w) /\ Cardinality(w) \in Nat /\ IsFiniteSet(A) /\ Cardinality(A) \in Nat
      <4>1. IsFiniteSet(w)
        BY <2>2, FS_Subset
      <4>2. QED
        BY <3>1, <4>1, FS_Subset, FS_CardinalityType
    <3>6. Cardinality(w) = Cardinality(A) + Cardinality(D)
      <4>1. w = A \union D /\ A \intersect D = {}
        BY <3>1
      <4> HIDE DEF D
      <4>2. Cardinality(A \union D) = Cardinality(A) + Cardinality(D) - Cardinality(A \intersect D)
        BY <3>4, <3>5, FS_Union
      <4>3. QED
        BY <3>4, <3>5, <4>1, <4>2, FS_EmptySet
    <3>7. m \in Nat /\ (m = k \/ m = Cardinality(A)) /\ found = [i \in 1 .. m |-> Candidate(g, q, s[i])]
      BY <3>2 DEF TakesNearest
    <3>8. Len(found) = m
      BY <3>7
    <3> DEFINE ca == Cardinality(A)
               cd == Cardinality(D)
               y == Least(b, Cardinality(R))
    <3>9. y = ca + cd /\ ca \in Nat /\ cd \in Nat /\ cd <= x /\ x \in Nat /\ (m = k \/ m = ca)
      BY <2>2, <3>4, <3>5, <3>6, <3>7
    <3> HIDE DEF ca, cd, y, x
    <3>10. Least(k, y - x) <= m
      BY <3>9 DEF Least
    <3>11. QED
      BY <3>7, <3>8, <3>9, <3>10 DEF y, x, Least
  <2>6. QED
    BY <2>3, <2>4, <2>5 DEF R, found, b
<1>5. QED
  BY <1>3, <1>4

(* With a beam that takes in all it can reach a shard answers as a scan does, and it   *)
(* reaches all as long as no list of links was ever cut (search, search_layer).   *)
THEOREM ShardsAnswerTheNearest == ShardSpec => []AnswersAreNearest
<1>1. ASSUME GraphsInv PROVE AnswersAreNearest
  <2> SUFFICES ASSUME NEW i \in Shards, NEW q \in Queries
               PROVE  LET g == graphs[i]
                          R == Reachable(g, q.at)
                          found == GraphSearch(g, q.at, q.k, q.ef)
                      IN  /\ Len(g.nodes) <= MaxDegree(0) + 1 => R = DOMAIN g.nodes
                          /\ Cardinality(R) <= Beam(q.k, q.ef) => found = Scan(g, q.at, q.k, R)
                          /\ Len(found) >= Least(q.k, Least(Beam(q.k, q.ef), Cardinality(R))
                                                       - Cardinality(R \ Live(g)))
    BY Zenon DEF AnswersAreNearest
  <2>1. Graph(graphs[i])
    BY <1>1 DEF GraphsInv, GraphsHold
  <2>2. q.at \in Int /\ q.k \in Nat \ {0} /\ q.ef \in Nat \ {0}
    BY ShardAssumption
  <2>3. QED
    BY <2>1, <2>2, AnswerIsNearest, Zenon
<1>2. QED
  BY <1>1, GraphsStayGraphs, PTL

-----------------------------------------------------------------------------
(* The parts of a search *)

Hit == [sid : Sids, dist : Int]

(* h is a vector of ever, at its distance. *)
WasHeld(h, q, ever) == \E r \in ever : r.sid = h.sid /\ h.dist = L2Sq(q.at, r.at)

(* p are at most k hits of shard i, nearest first, each subject once. *)
AnswersFor(p, q, i, ever) ==
  /\ p \in Seq(Hit) /\ Len(p) <= q.k
  /\ \A a, b \in 1 .. Len(p) : a < b => p[a].dist <= p[b].dist /\ p[a].sid # p[b].sid
  /\ \A a \in 1 .. Len(p) : ShardOf[p[a].sid] = i /\ WasHeld(p[a], q, ever)

(* p has r, or gave its place to k others no farther. *)
HasOrGaveWay(p, q, r) ==
  \/ \E a \in 1 .. Len(p) : p[a].sid = r.sid /\ p[a].dist = L2Sq(q.at, r.at)
  \/ Len(p) = q.k /\ \A a \in 1 .. Len(p) : p[a].dist <= L2Sq(q.at, r.at)

(* No beam and no degree is too narrow for g. *)
Roomy(g, q) == Len(g.nodes) <= Least(Beam(q.k, q.ef), MaxDegree(0) + 1)

(* The live nodes of g are what it holds, once. *)
HoldsLive(g, vs, i) ==
  /\ \A n \in DOMAIN g.nodes : ~ g.deleted[n] =>
       /\ g.nodes[n].sid \in DOMAIN vs /\ ShardOf[g.nodes[n].sid] = i
       /\ g.nodes[n].at = vs[g.nodes[n].sid]
  /\ \A m, n \in DOMAIN g.nodes :
       ~ g.deleted[m] /\ ~ g.deleted[n] /\ g.nodes[m].sid = g.nodes[n].sid => m = n
  /\ \A s \in SidsOf(vs, i) :
       \E n \in DOMAIN g.nodes : ~ g.deleted[n] /\ g.nodes[n].sid = s

(* A live node is found by its subject and has the vector last written of it.      *)
LEMMA LiveNodesAreHeld ==
  ASSUME NEW gs, NEW vs, GraphsHold(gs, vs), NEW i \in Shards
  PROVE  HoldsLive(gs[i], vs, i)
<1> DEFINE g == gs[i]
           D == SidsOf(vs, i)
<1>1. Graph(g) /\ DOMAIN g.sidToIdx = D /\ \A s \in D : g.nodes[g.sidToIdx[s]].at = vs[s]
  BY DEF GraphsHold, Remembers
<1> HIDE DEF g
<1>2. /\ \A s \in D : /\ g.sidToIdx[s] \in DOMAIN g.nodes /\ ~ g.deleted[g.sidToIdx[s]]
                      /\ g.nodes[g.sidToIdx[s]].sid = s
      /\ \A n \in DOMAIN g.nodes :
           ~ g.deleted[n] => g.nodes[n].sid \in D /\ g.sidToIdx[g.nodes[n].sid] = n
  BY <1>1 DEF Graph, Indexed
<1>3. \A s \in D : s \in DOMAIN vs /\ ShardOf[s] = i
  BY DEF SidsOf
<1> HIDE DEF D
<1>4. \A n \in DOMAIN g.nodes : ~ g.deleted[n] =>
           /\ g.nodes[n].sid \in DOMAIN vs /\ ShardOf[g.nodes[n].sid] = i
           /\ g.nodes[n].at = vs[g.nodes[n].sid]
  <2> SUFFICES ASSUME NEW n \in DOMAIN g.nodes, ~ g.deleted[n]
               PROVE  /\ g.nodes[n].sid \in DOMAIN vs /\ ShardOf[g.nodes[n].sid] = i
                      /\ g.nodes[n].at = vs[g.nodes[n].sid]
    BY Zenon
  <2>1. g.nodes[n].sid \in D /\ g.sidToIdx[g.nodes[n].sid] = n
    BY <1>2
  <2>2. g.nodes[g.sidToIdx[g.nodes[n].sid]].at = vs[g.nodes[n].sid]
    BY <1>1, <2>1
  <2>3. QED
    BY <1>3, <2>1, <2>2
<1>5. \A m, n \in DOMAIN g.nodes :
        ~ g.deleted[m] /\ ~ g.deleted[n] /\ g.nodes[m].sid = g.nodes[n].sid => m = n
  BY <1>2, Zenon
<1>6. \A s \in D : \E n \in DOMAIN g.nodes : ~ g.deleted[n] /\ g.nodes[n].sid = s
  BY <1>2, Zenon
<1>7. QED
  BY <1>4, <1>5, <1>6, Zenon DEF g, D, HoldsLive

(* The nearest of some live nodes are an answer. *)
LEMMA TakenAnswers ==
  ASSUME NEW gs, NEW vs, GraphsHold(gs, vs), NEW i \in Shards, NEW q,
         q.at \in Int, q.k \in Nat \ {0}, NEW ever, Held(vs) \subseteq ever,
         NEW w \in SUBSET DOMAIN gs[i].nodes
  PROVE  /\ AnswersFor(Taken(gs[i], q.at, q.k, w), q, i, ever)
         /\ w = DOMAIN gs[i].nodes =>
              \A r \in Held(vs) : ShardOf[r.sid] = i => HasOrGaveWay(Taken(gs[i], q.at, q.k, w), q, r)
<1> DEFINE g == gs[i]
           p == Taken(g, q.at, q.k, w)
           A == AliveOf(g, w)
<1>1. Graph(g) /\ DOMAIN vs \subseteq Sids /\ \A s \in DOMAIN vs : vs[s] \in Int
  BY DEF GraphsHold
<1>2. /\ \A n \in DOMAIN g.nodes : ~ g.deleted[n] =>
              /\ g.nodes[n].sid \in DOMAIN vs /\ ShardOf[g.nodes[n].sid] = i
              /\ g.nodes[n].at = vs[g.nodes[n].sid]
      /\ \A m, n \in DOMAIN g.nodes :
              ~ g.deleted[m] /\ ~ g.deleted[n] /\ g.nodes[m].sid = g.nodes[n].sid => m = n
      /\ \A s \in SidsOf(vs, i) : \E n \in DOMAIN g.nodes : ~ g.deleted[n] /\ g.nodes[n].sid = s
  <2>1. HoldsLive(g, vs, i)
    BY LiveNodesAreHeld
  <2> HIDE DEF g
  <2>2. QED
    BY <2>1, Zenon DEF HoldsLive
<1>3. w \in SUBSET DOMAIN g.nodes
  OBVIOUS
<1> HIDE DEF g
<1>4. Walkable(g)
  BY <1>1, GraphIsWalkable
<1>5. PICK m, s : TakesNearest(g, q.at, q.k, A, m, s, p)
  BY <1>3, <1>4, TakenLaws
<1>6. /\ m \in Nat /\ m <= q.k /\ (m = q.k \/ m = Cardinality(A)) /\ s \in [1 .. m -> A]
      /\ \A a, b \in 1 .. m : a < b => Closer(g, q.at, s[a], s[b])
      /\ \A n \in A : \/ \E a \in 1 .. m : s[a] = n
                      \/ m = q.k /\ \A a \in 1 .. m : Closer(g, q.at, s[a], n)
      /\ p = [a \in 1 .. m |-> Candidate(g, q.at, s[a])]
  BY <1>5 DEF TakesNearest
<1> HIDE DEF p
<1>7. \A n \in A : n \in w /\ n \in DOMAIN g.nodes /\ ~ g.deleted[n]
  BY <1>3 DEF AliveOf
<1>8. \A n \in DOMAIN g.nodes : n \in w /\ ~ g.deleted[n] => n \in A
  BY DEF AliveOf
<1> HIDE DEF A
<1>9. \A n \in A : /\ g.nodes[n].sid \in Sids /\ ShardOf[g.nodes[n].sid] = i
                   /\ g.nodes[n].sid \in DOMAIN vs
                   /\ Distance(g, q.at, n) \in Int
                   /\ Distance(g, q.at, n) = L2Sq(q.at, vs[g.nodes[n].sid])
  <2> SUFFICES ASSUME NEW n \in A
               PROVE  /\ g.nodes[n].sid \in Sids /\ ShardOf[g.nodes[n].sid] = i
                      /\ g.nodes[n].sid \in DOMAIN vs
                      /\ Distance(g, q.at, n) \in Int
                      /\ Distance(g, q.at, n) = L2Sq(q.at, vs[g.nodes[n].sid])
    OBVIOUS
  <2>1. /\ g.nodes[n].sid \in DOMAIN vs /\ ShardOf[g.nodes[n].sid] = i
        /\ g.nodes[n].at = vs[g.nodes[n].sid]
    BY <1>2, <1>7, Zenon
  <2>2. vs[g.nodes[n].sid] \in Int /\ g.nodes[n].sid \in Sids
    BY <1>1, <2>1
  <2>3. QED
    BY <2>1, <2>2, SquareIsANumber DEF Distance
<1>10. /\ DOMAIN p = 1 .. m
       /\ \A a \in 1 .. m : /\ s[a] \in A /\ p[a].sid = g.nodes[s[a]].sid
                            /\ p[a].dist = Distance(g, q.at, s[a])
                            /\ p[a] = [sid |-> g.nodes[s[a]].sid, dist |-> Distance(g, q.at, s[a])]
  BY <1>6 DEF Candidate
<1>11. p \in Seq(Hit) /\ Len(p) = m
  <2>1. \A a \in 1 .. m : p[a] \in Hit
    BY <1>9, <1>10 DEF Hit
  <2>2. p \in [1 .. m -> Hit]
    BY <1>6, <2>1
  <2>3. QED
    BY <1>6, <2>2
<1>12. ASSUME NEW a \in 1 .. m, NEW b \in 1 .. m, a < b
       PROVE  p[a].dist <= p[b].dist /\ p[a].sid # p[b].sid
  <2>1. Closer(g, q.at, s[a], s[b]) /\ s[a] \in A /\ s[b] \in A
    BY <1>6, <1>10, <1>12
  <2>2. Distance(g, q.at, s[a]) <= Distance(g, q.at, s[b]) /\ s[a] # s[b]
    BY <1>4, <1>7, <2>1, CloserLaws
  <2>3. g.nodes[s[a]].sid # g.nodes[s[b]].sid
    BY <1>2, <1>7, <2>1, <2>2, Zenon
  <2>4. QED
    BY <1>10, <2>2, <2>3
<1>13. ASSUME NEW a \in 1 .. m PROVE ShardOf[p[a].sid] = i /\ WasHeld(p[a], q, ever)
  <2> DEFINE t == g.nodes[s[a]].sid
             r == [sid |-> t, at |-> vs[t]]
  <2>1. s[a] \in A /\ p[a].sid = t /\ p[a].dist = Distance(g, q.at, s[a])
    BY <1>10
  <2>2. t \in DOMAIN vs /\ ShardOf[t] = i /\ Distance(g, q.at, s[a]) = L2Sq(q.at, vs[t])
    BY <1>9, <2>1
  <2> HIDE DEF t
  <2>3. r \in Held(vs)
    BY <2>2 DEF Held
  <2>4. r \in ever /\ r.sid = t /\ r.at = vs[t]
    BY <2>3
  <2> HIDE DEF r
  <2>5. WasHeld(p[a], q, ever)
    BY <2>1, <2>2, <2>4 DEF WasHeld
  <2>6. QED
    BY <2>1, <2>2, <2>5
<1>14. AnswersFor(p, q, i, ever)
  BY <1>6, <1>11, <1>12, <1>13 DEF AnswersFor
<1>15. ASSUME w = DOMAIN g.nodes, NEW r \in Held(vs), ShardOf[r.sid] = i
       PROVE  HasOrGaveWay(p, q, r)
  <2>1. r.sid \in DOMAIN vs /\ r.at = vs[r.sid]
    BY DEF Held
  <2>2. r.sid \in SidsOf(vs, i)
    BY <1>15, <2>1 DEF SidsOf
  <2>3. PICK n \in DOMAIN g.nodes : ~ g.deleted[n] /\ g.nodes[n].sid = r.sid
    BY <1>2, <2>2, Zenon
  <2>4. n \in A /\ Distance(g, q.at, n) = L2Sq(q.at, r.at)
    BY <1>8, <1>9, <1>15, <2>1, <2>3
  <2>5. CASE \E a \in 1 .. m : s[a] = n
    BY <1>10, <1>11, <2>3, <2>4, <2>5 DEF HasOrGaveWay
  <2>6. CASE m = q.k /\ \A a \in 1 .. m : Closer(g, q.at, s[a], n)
    <3>1. ASSUME NEW a \in 1 .. m PROVE p[a].dist <= L2Sq(q.at, r.at)
      <4>1. s[a] \in DOMAIN g.nodes /\ n \in DOMAIN g.nodes /\ Closer(g, q.at, s[a], n)
        BY <1>7, <1>10, <2>6
      <4>2. Distance(g, q.at, s[a]) <= Distance(g, q.at, n)
        BY <1>4, <4>1, CloserLaws
      <4>3. QED
        BY <1>10, <2>4, <4>2
    <3>2. QED
      BY <1>11, <2>6, <3>1 DEF HasOrGaveWay
  <2>7. QED
    BY <1>6, <2>4, <2>5, <2>6
<1>16. QED
  BY <1>14, <1>15 DEF g, p

(* What a shard answers is held, and with enough room it misses nothing.         *)
LEMMA PartLaws ==
  ASSUME NEW gs, NEW vs, GraphsHold(gs, vs), NEW i \in Shards, NEW q,
         q.at \in Int, q.k \in Nat \ {0}, q.ef \in Nat \ {0},
         NEW ever, Held(vs) \subseteq ever
  PROVE  LET p == GraphSearch(gs[i], q.at, q.k, q.ef)
         IN  /\ AnswersFor(p, q, i, ever)
             /\ Roomy(gs[i], q) => \A r \in Held(vs) : ShardOf[r.sid] = i => HasOrGaveWay(p, q, r)
<1> DEFINE g == gs[i]
           p == GraphSearch(g, q.at, q.k, q.ef)
           b == Beam(q.k, q.ef)
<1>1. Graph(g) /\ b \in Nat
  BY DEF GraphsHold, Beam
<1>2. Walkable(g) /\ Len(g.nodes) \in Nat /\ DOMAIN g.nodes = 1 .. Len(g.nodes)
  <2> HIDE DEF g
  <2>1. QED
    BY <1>1, GraphIsWalkable
<1>3. CASE g.entry = 0
  <2>1. DOMAIN g.nodes = {}
    <3> HIDE DEF g
    <3>1. QED
      BY <1>1, <1>2, <1>3 DEF Graph, Topped
  <2>2. p = <<>>
    BY <1>3 DEF GraphSearch
  <2>3. AnswersFor(<<>>, q, i, ever)
    BY DEF AnswersFor
  <2>4. ASSUME NEW r \in Held(vs), ShardOf[r.sid] = i PROVE FALSE
    <3>1. r.sid \in SidsOf(vs, i)
      BY <2>4 DEF Held, SidsOf
    <3>2. \E n \in DOMAIN g.nodes : g.nodes[n].sid = r.sid
      <4>1. HoldsLive(g, vs, i)
        BY LiveNodesAreHeld
      <4> HIDE DEF g
      <4>2. QED
        BY <3>1, <4>1, Zenon DEF HoldsLive
    <3>3. QED
      BY <2>1, <3>2
  <2>5. QED
    BY <2>2, <2>3, <2>4
<1>4. CASE g.entry # 0
  <2>1. PICK w : Finds(g, q.at, q.k, q.ef, w)
    <3> HIDE DEF g
    <3>1. QED
      BY <1>1, <1>4, SearchAnswers
  <2> DEFINE R == Reachable(g, q.at)
  <2>2. /\ w \in SUBSET R /\ R \in SUBSET DOMAIN g.nodes
        /\ Cardinality(R) <= b => w = R
        /\ Small(g, 0) => R = DOMAIN g.nodes
        /\ p = Taken(g, q.at, q.k, w)
    BY <2>1 DEF Finds
  <2> HIDE DEF R, p
  <2>3. w \in SUBSET DOMAIN g.nodes
    BY <2>2
  <2>4. /\ AnswersFor(p, q, i, ever)
        /\ w = DOMAIN g.nodes => \A r \in Held(vs) : ShardOf[r.sid] = i => HasOrGaveWay(p, q, r)
    BY <2>2, <2>3, TakenAnswers, Zenon
  <2>5. ASSUME Roomy(g, q) PROVE w = DOMAIN g.nodes
    <3>1. MaxDegree(0) \in Nat
      BY HnswAssumption DEF MaxDegree
    <3>2. Len(g.nodes) <= b /\ Len(g.nodes) <= MaxDegree(0) + 1
      <4> HIDE DEF b, g
      <4>1. QED
        BY <1>1, <1>2, <2>5, <3>1 DEF Roomy, Least, b
    <3>3. R = DOMAIN g.nodes
      BY <2>2, <3>2 DEF Small
    <3>4. Cardinality(1 .. Len(g.nodes)) = Len(g.nodes)
      <4> HIDE DEF g
      <4>1. QED
        BY <1>2, FS_Interval
    <3>5. QED
      BY <1>2, <2>2, <3>2, <3>3, <3>4
  <2>6. QED
    BY <2>4, <2>5 DEF p
<1>5. QED
  BY <1>3, <1>4

-----------------------------------------------------------------------------
(* The merged parts *)

(* f[i] joins the first i of n parts. *)
JoinsFirst(f, n, ps) ==
  /\ f \in [1 .. n -> Seq(Hit)]
  /\ \A i \in 1 .. n : f[i] = IF i = 1 THEN ps[i] ELSE f[i - 1] \o ps[i]

(* FlattenSeq joins one part after another. *)
LEMMA FlattenIsAFold ==
  ASSUME NEW n \in Nat \ {0}, NEW ps \in [1 .. n -> Seq(Hit)]
  PROVE  \E f : JoinsFirst(f, n, ps) /\ FlattenSeq(ps) = f[n]
<1> DEFINE T == Seq(Hit)
           Body(it) == [i \in 1 .. n |-> IF i = 1 THEN ps[i] ELSE it[i - 1] \o ps[i]]
           Iter == CHOOSE it : it = Body(it)
           step == [x \in (1 .. n) \X T |-> x[2] \o ps[x[1]]]
<1>1. step \in [(1 .. n) \X T -> T] /\ <<>> \in T /\ n \in Nat
  <2>1. \A x \in (1 .. n) \X T : x[2] \in Seq(Hit) /\ ps[x[1]] \in Seq(Hit)
    OBVIOUS
  <2>2. \A x \in (1 .. n) \X T : x[2] \o ps[x[1]] \in T
    BY <2>1
  <2>3. QED
    BY <2>2
<1>2. PICK h : h \in [SUBSET (1 .. n) -> T] /\ FoldsLeft(h, n, <<>>, step)
  <2> HIDE DEF step, T
  <2>1. QED
    BY <1>1, FoldExists, Zenon
<1> DEFINE f == [i \in 1 .. n |-> h[1 .. i]]
<1>3. ASSUME NEW i \in 1 .. n PROVE h[1 .. i] = h[1 .. i - 1] \o ps[i] /\ h[1 .. i - 1] \in T
  <2>1. i - 1 \in Nat /\ (i - 1) + 1 = i
    OBVIOUS
  <2>2. 1 .. i # {} /\ Max(1 .. i) = i /\ (1 .. i) \ {i} = 1 .. i - 1
    <3>1. /\ 1 .. (i - 1) + 1 # {} /\ Max(1 .. (i - 1) + 1) = (i - 1) + 1
          /\ (1 .. (i - 1) + 1) \ {(i - 1) + 1} = 1 .. i - 1
      BY <2>1, LastPosition, Zenon
    <3>2. QED
      BY <2>1, <3>1
  <2>3. 1 .. i \in SUBSET (1 .. n) /\ 1 .. i - 1 \in SUBSET (1 .. n)
    OBVIOUS
  <2>4. h[1 .. i - 1] \in T
    <3> HIDE DEF T
    <3>1. QED
      BY <1>2, <2>3
  <2>5. h[1 .. i] = step[<<i, h[1 .. i - 1]>>]
    <3> HIDE DEF step
    <3>1. QED
      BY <1>2, <2>2, <2>3 DEF FoldsLeft
  <2>6. QED
    BY <2>4, <2>5
<1>4. h[1 .. 0] = <<>>
  <2>1. {} \in SUBSET (1 .. n) /\ 1 .. 0 = {}
    OBVIOUS
  <2> HIDE DEF step
  <2>2. QED
    BY <1>2, <2>1 DEF FoldsLeft
<1>5. JoinsFirst(f, n, ps)
  <2>1. ASSUME NEW i \in 1 .. n
        PROVE  f[i] \in Seq(Hit) /\ f[i] = IF i = 1 THEN ps[i] ELSE f[i - 1] \o ps[i]
    <3>1. CASE i = 1
      <4>1. h[1 .. 1] = <<>> \o ps[1] /\ ps[1] \in Seq(Hit)
        <5>1. 1 \in 1 .. n /\ 1 - 1 = 0
          OBVIOUS
        <5>2. h[1 .. 1] = h[1 .. 1 - 1] \o ps[1]
          BY <1>3, <5>1
        <5>3. QED
          BY <1>4, <5>1, <5>2
      <4>2. <<>> \o ps[1] = ps[1]
        BY <4>1
      <4>3. QED
        BY <3>1, <4>1, <4>2
    <3>2. CASE i # 1
      <4>1. i - 1 \in 1 .. n
        BY <3>2
      <4>2. f[i - 1] = h[1 .. i - 1] /\ f[i] = h[1 .. i]
        BY <4>1
      <4>3. f[i - 1] \in Seq(Hit) /\ ps[i] \in Seq(Hit) /\ f[i] = f[i - 1] \o ps[i]
        <5>1. h[1 .. i] = h[1 .. i - 1] \o ps[i] /\ h[1 .. i - 1] \in Seq(Hit) /\ ps[i] \in Seq(Hit)
          BY <1>3
        <5> HIDE DEF f
        <5>2. QED
          BY <4>2, <5>1
      <4> HIDE DEF f
      <4>4. QED
        BY <3>2, <4>3
    <3>3. QED
      BY <3>1, <3>2
  <2>2. f \in [1 .. n -> Seq(Hit)]
    BY <2>1
  <2> HIDE DEF f
  <2>3. QED
    BY <2>1, <2>2 DEF JoinsFirst
<1>6. f = Body(f)
  <2> HIDE DEF f
  <2>1. QED
    BY <1>5 DEF JoinsFirst
<1>7. Iter = Body(Iter)
  <2> HIDE DEF Body, f
  <2>1. QED
    BY <1>6
<1>8. FlattenSeq(ps) = Iter[n]
  <2>1. Len(ps) = n /\ n # 0
    OBVIOUS
  <2>2. QED
    BY <2>1 DEF FlattenSeq
<1>9. \A i \in Nat : i \in {j \in Nat : j \in 1 .. n => Iter[j] = f[j]}
  <2> DEFINE S == {j \in Nat : j \in 1 .. n => Iter[j] = f[j]}
  <2>1. 0 \in S
    OBVIOUS
  <2>2. ASSUME NEW i \in Nat, i \in S PROVE i + 1 \in S
    <3> SUFFICES ASSUME i + 1 \in 1 .. n PROVE Iter[i + 1] = f[i + 1]
      OBVIOUS
    <3>1. Iter[i + 1] = IF i + 1 = 1 THEN ps[i + 1] ELSE Iter[i] \o ps[i + 1]
      <4>1. Iter[i + 1] = Body(Iter)[i + 1]
        <5> HIDE DEF Iter
        <5>1. QED
          BY <1>7
      <4> HIDE DEF Iter
      <4>2. QED
        BY <4>1
    <3>2. f[i + 1] = IF i + 1 = 1 THEN ps[i + 1] ELSE f[i] \o ps[i + 1]
      <4> HIDE DEF f
      <4>1. PICK x \in 1 .. n : x = i + 1
        OBVIOUS
      <4>2. f[x] = IF x = 1 THEN ps[x] ELSE f[x - 1] \o ps[x]
        BY <1>5 DEF JoinsFirst
      <4>3. x - 1 = i
        BY <4>1
      <4>4. QED
        BY <4>1, <4>2, <4>3
    <3>3. i + 1 # 1 => Iter[i] = f[i]
      BY <2>2
    <3> HIDE DEF f, Iter
    <3>4. QED
      BY <3>1, <3>2, <3>3
  <2> HIDE DEF S
  <2>3. \A i \in Nat : i \in S
    BY <2>1, <2>2, NumbersInduction
  <2>4. QED
    BY <2>3 DEF S
<1>10. FlattenSeq(ps) = f[n]
  <2>1. n \in 1 .. n
    OBVIOUS
  <2>2. Iter[n] = f[n]
    BY <1>1, <1>9, <2>1
  <2>3. QED
    BY <1>8, <2>2
<1>11. QED
  BY <1>5, <1>10

(* p stands in f, from behind position o. *)
Within(f, o, p) == \A a \in 1 .. Len(p) : o + a \in 1 .. Len(f) /\ f[o + a] = p[a]

(* f has the hits of the first i parts, and a subject once. *)
Collects(f, i, ps) ==
  /\ f \in Seq(Hit)
  /\ \A z \in 1 .. Len(f) : \E j \in 1 .. i : \E a \in 1 .. Len(ps[j]) : f[z] = ps[j][a]
  /\ \A y, z \in 1 .. Len(f) : y < z => f[y].sid # f[z].sid
  /\ \A j \in 1 .. i : \E o \in Nat : Within(f, o, ps[j])

(* The parts of a search. *)
ArePartsOf(ps, n, q, ever) ==
  ps \in [1 .. n -> Seq(Hit)] /\ \A i \in 1 .. n : AnswersFor(ps[i], q, i, ever)

(* One more part is collected. *)
LEMMA CollectsOneMore ==
  ASSUME NEW n \in Nat \ {0}, NEW ps, NEW q, NEW ever, ArePartsOf(ps, n, q, ever),
         NEW i \in Nat, i + 1 \in 1 .. n, NEW f, Collects(f, i, ps)
  PROVE  Collects(f \o ps[i + 1], i + 1, ps)
<1> DEFINE p == ps[i + 1]
           h == f \o p
           l == Len(f)
<1>1. f \in Seq(Hit) /\ p \in Seq(Hit) /\ l \in Nat /\ Len(p) \in Nat
  BY DEF Collects, ArePartsOf
<1> HIDE DEF p
<1>2. /\ h \in Seq(Hit) /\ Len(h) = l + Len(p)
      /\ \A z \in 1 .. l : h[z] = f[z]
      /\ \A z \in l + 1 .. l + Len(p) : h[z] = p[z - l]
  BY <1>1
<1> HIDE DEF h, l
<1>3. \A z \in 1 .. Len(h) : z \in 1 .. l \/ (z \in l + 1 .. l + Len(p) /\ z - l \in 1 .. Len(p))
  BY <1>1, <1>2
<1>4. ASSUME NEW z \in 1 .. Len(h)
      PROVE  \E j \in 1 .. i + 1 : \E a \in 1 .. Len(ps[j]) : h[z] = ps[j][a]
  <2>1. CASE z \in 1 .. l
    <3>1. PICK j \in 1 .. i : \E a \in 1 .. Len(ps[j]) : f[z] = ps[j][a]
      BY <2>1 DEF Collects, l
    <3>2. j \in 1 .. i + 1
      OBVIOUS
    <3>3. QED
      BY <1>2, <2>1, <3>1, <3>2
  <2>2. CASE z \in l + 1 .. l + Len(p) /\ z - l \in 1 .. Len(p)
    <3>1. i + 1 \in 1 .. i + 1 /\ h[z] = p[z - l]
      BY <1>2, <2>2
    <3>2. QED
      BY <2>2, <3>1 DEF p
  <2>3. QED
    BY <1>3, <2>1, <2>2
<1>5. \A z \in 1 .. l : ShardOf[f[z].sid] \in 1 .. i
  <2> SUFFICES ASSUME NEW z \in 1 .. l PROVE ShardOf[f[z].sid] \in 1 .. i
    OBVIOUS
  <2>1. PICK j \in 1 .. i : \E a \in 1 .. Len(ps[j]) : f[z] = ps[j][a]
    BY DEF Collects, l
  <2>2. j \in 1 .. n
    OBVIOUS
  <2>3. AnswersFor(ps[j], q, j, ever)
    BY <2>2 DEF ArePartsOf
  <2>4. QED
    BY <2>1, <2>3 DEF AnswersFor
<1>6. AnswersFor(p, q, i + 1, ever)
  BY DEF ArePartsOf, p
<1>7. ASSUME NEW y \in 1 .. Len(h), NEW z \in 1 .. Len(h), y < z PROVE h[y].sid # h[z].sid
  <2>1. CASE z \in 1 .. l
    <3>1. y \in 1 .. l
      BY <1>1, <1>7, <2>1
    <3>2. QED
      BY <1>2, <1>7, <2>1, <3>1 DEF Collects, l
  <2>2. CASE z \in l + 1 .. l + Len(p) /\ z - l \in 1 .. Len(p)
    <3>1. h[z] = p[z - l] /\ ShardOf[h[z].sid] = i + 1
      BY <1>2, <1>6, <2>2 DEF AnswersFor
    <3>2. CASE y \in 1 .. l
      <4>1. ShardOf[h[y].sid] \in 1 .. i
        BY <1>2, <1>5, <3>2
      <4>2. i + 1 \notin 1 .. i
        OBVIOUS
      <4>3. QED
        BY <3>1, <4>1, <4>2
    <3>3. CASE y \in l + 1 .. l + Len(p) /\ y - l \in 1 .. Len(p)
      <4>1. y - l < z - l
        BY <1>1, <1>7, <2>2, <3>3
      <4>2. p[y - l].sid # p[z - l].sid
        BY <1>6, <2>2, <3>3, <4>1 DEF AnswersFor
      <4>3. h[y] = p[y - l]
        BY <1>2, <3>3
      <4>4. QED
        BY <3>1, <4>2, <4>3
    <3>4. QED
      BY <1>3, <3>2, <3>3
  <2>3. QED
    BY <1>3, <2>1, <2>2
<1>8. ASSUME NEW j \in 1 .. i + 1 PROVE \E o \in Nat : Within(h, o, ps[j])
  <2>1. CASE j \in 1 .. i
    <3>1. PICK o \in Nat : Within(f, o, ps[j])
      BY <2>1 DEF Collects
    <3>2. ASSUME NEW a \in 1 .. Len(ps[j]) PROVE o + a \in 1 .. Len(h) /\ h[o + a] = ps[j][a]
      <4>1. o + a \in 1 .. l /\ f[o + a] = ps[j][a]
        BY <3>1 DEF Within, l
      <4>2. o + a \in 1 .. Len(h)
        BY <1>1, <1>2, <4>1
      <4>3. QED
        BY <1>2, <4>1, <4>2
    <3>3. QED
      BY <3>2 DEF Within
  <2>2. CASE j = i + 1
    <3>1. ASSUME NEW a \in 1 .. Len(p) PROVE l + a \in 1 .. Len(h) /\ h[l + a] = p[a]
      <4>1. l + a \in l + 1 .. l + Len(p) /\ (l + a) - l = a /\ l + a \in 1 .. Len(h)
        BY <1>1, <1>2
      <4>2. h[l + a] = p[(l + a) - l]
        BY <1>2, <4>1
      <4>3. QED
        BY <4>1, <4>2
    <3>2. Within(h, l, p)
      BY <3>1 DEF Within
    <3>3. QED
      BY <1>1, <2>2, <3>2 DEF p
  <2>3. QED
    BY <2>1, <2>2
<1>9. Collects(h, i + 1, ps)
  BY <1>2, <1>4, <1>7, <1>8 DEF Collects
<1>10. QED
  BY <1>9 DEF h, p

(* Joined, the parts have every hit, and a subject once. *)
LEMMA FlattenCollects ==
  ASSUME NEW n \in Nat, NEW ps, NEW q, NEW ever, ArePartsOf(ps, n, q, ever)
  PROVE  Collects(FlattenSeq(ps), n, ps)
<1>1. ps \in [1 .. n -> Seq(Hit)]
  BY DEF ArePartsOf
<1>2. CASE n = 0
  <2>1. ps = <<>> /\ Len(ps) = 0
    BY <1>1, <1>2
  <2>2. FlattenSeq(ps) = <<>>
    BY <2>1 DEF FlattenSeq
  <2>3. Collects(<<>>, 0, ps)
    BY DEF Collects
  <2>4. QED
    BY <1>2, <2>2, <2>3
<1>3. CASE n # 0
  <2>1. PICK f : JoinsFirst(f, n, ps) /\ FlattenSeq(ps) = f[n]
    BY <1>1, <1>3, FlattenIsAFold
  <2> DEFINE S == {i \in Nat : i \in 1 .. n => Collects(f[i], i, ps)}
  <2>2. Collects(<<>>, 0, ps)
    BY DEF Collects
  <2>3. 0 \in S
    OBVIOUS
  <2>4. ASSUME NEW i \in Nat, i \in S PROVE i + 1 \in S
    <3> SUFFICES ASSUME i + 1 \in 1 .. n PROVE Collects(f[i + 1], i + 1, ps)
      OBVIOUS
    <3>1. CASE i = 0
      <4>1. f[i + 1] = ps[i + 1] /\ ps[i + 1] \in Seq(Hit)
        BY <1>1, <2>1, <3>1 DEF JoinsFirst
      <4>2. <<>> \o ps[i + 1] = ps[i + 1]
        BY <4>1
      <4>3. Collects(<<>> \o ps[i + 1], i + 1, ps)
        BY <1>3, <2>2, <3>1, CollectsOneMore
      <4>4. QED
        BY <4>1, <4>2, <4>3
    <3>2. CASE i # 0
      <4>1. i \in 1 .. n /\ f[i + 1] = f[i] \o ps[i + 1]
        <5>1. PICK x \in 1 .. n : x = i + 1
          OBVIOUS
        <5>2. f[x] = IF x = 1 THEN ps[x] ELSE f[x - 1] \o ps[x]
          BY <2>1 DEF JoinsFirst
        <5>3. x - 1 = i /\ x # 1 /\ i \in 1 .. n
          BY <3>2, <5>1
        <5>4. QED
          BY <5>1, <5>2, <5>3
      <4>2. Collects(f[i], i, ps)
        BY <2>4, <4>1
      <4>3. QED
        BY <1>3, <4>1, <4>2, CollectsOneMore
    <3>3. QED
      BY <3>1, <3>2
  <2> HIDE DEF S
  <2>5. \A i \in Nat : i \in S
    BY <2>3, <2>4, NumbersInduction
  <2>6. QED
    BY <1>3, <2>1, <2>5 DEF S
<1>4. QED
  BY <1>2, <1>3

(* f are the first m of all in the order p of their distances. *)
Merges(f, m, p, all, k) ==
  LET n == Len(all)
  IN  /\ m \in Nat /\ m <= k /\ m <= n /\ (m = k \/ m = n)
      /\ GoesThrough(p, n, 1 .. n)
      /\ \A i, j \in 1 .. n : i <= j => all[p[i]].dist <= all[p[j]].dist
      /\ f \in Seq(Hit) /\ Len(f) = m /\ \A i \in 1 .. m : f[i] = all[p[i]]

(* The parts are merged by distance and cut. *)
LEMMA MergeLaws ==
  ASSUME NEW ps, FlattenSeq(ps) \in Seq(Hit), NEW k \in Nat
  PROVE  \E m, p : Merges(Merged(ps, k), m, p, FlattenSeq(ps), k)
<1> DEFINE all == FlattenSeq(ps)
           n == Len(all)
           keys == [i \in DOMAIN all |-> all[i].dist]
           s == Sorted(all, keys)
           f == FirstOf(s, k)
<1>1. Merged(ps, k) = f
  BY DEF Merged
<1>2. all \in Seq(Hit) /\ n \in Nat /\ DOMAIN all = 1 .. n
  OBVIOUS
<1> HIDE DEF all
<1>3. \A i \in 1 .. n : all[i] \in Hit /\ all[i].dist \in Int /\ keys[i] = all[i].dist
  <2>1. \A i \in 1 .. n : all[i] \in Hit /\ i \in DOMAIN all
    BY <1>2
  <2>2. \A i \in 1 .. n : all[i].dist \in Int
    BY <2>1 DEF Hit
  <2>3. QED
    BY <2>1, <2>2
<1> HIDE DEF keys, n
<1>4. HasKeys(n, all, keys)
  BY <1>2, <1>3 DEF HasKeys
<1>5. PICK p : SortedSo(p, n, all, keys)
  BY <1>4, SortedLaws
<1>6. /\ GoesThrough(p, n, 1 .. n)
      /\ \A i, j \in 1 .. n : i <= j => keys[p[i]] <= keys[p[j]]
      /\ s = [r \in 1 .. n |-> all[p[r]]]
  BY <1>5 DEF SortedSo, Sorts
<1> HIDE DEF s
<1>7. \A r \in 1 .. n : p[r] \in 1 .. n
  BY <1>6 DEF GoesThrough
<1>8. s \in Seq(Hit) /\ Len(s) = n
  <2>1. s \in [1 .. n -> Hit]
    BY <1>3, <1>6, <1>7
  <2>2. QED
    BY <1>2, <1>6, <2>1
<1>9. PICK m : IsFirst(f, m, s, k, Hit)
  BY <1>8, FirstOfLaws
<1> HIDE DEF f
<1>10. /\ m \in Nat /\ m <= k /\ m <= n /\ (m = k \/ m = n)
       /\ f \in Seq(Hit) /\ Len(f) = m
       /\ \A i \in 1 .. m : f[i] = s[i]
  BY <1>8, <1>9 DEF IsFirst
<1>11. \A i \in 1 .. m : f[i] = all[p[i]]
  <2> SUFFICES ASSUME NEW i \in 1 .. m PROVE f[i] = all[p[i]]
    OBVIOUS
  <2>1. i \in 1 .. n
    BY <1>2, <1>10
  <2>2. s[i] = all[p[i]]
    BY <1>6, <2>1
  <2>3. QED
    BY <1>10, <2>2
<1>12. \A i, j \in 1 .. n : i <= j => all[p[i]].dist <= all[p[j]].dist
  BY <1>3, <1>6, <1>7
<1>13. Merges(f, m, p, all, k)
  BY <1>6, <1>10, <1>11, <1>12 DEF Merges, n
<1>14. QED
  BY <1>1, <1>13 DEF all

(* Of k different numbers above 0 one is at least k. *)
LEMMA OneIsLarge ==
  ASSUME NEW k \in Nat \ {0}, NEW h, h \in [1 .. k -> Nat \ {0}],
         \A a, b \in 1 .. k : h[a] = h[b] => a = b
  PROVE  \E a \in 1 .. k : h[a] >= k
<1> SUFFICES ASSUME \A a \in 1 .. k : h[a] < k PROVE FALSE
  OBVIOUS
<1>1. IsFiniteSet(1 .. k) /\ Cardinality(1 .. k) = k
  <2>1. k \in Nat
    OBVIOUS
  <2>2. QED
    BY <2>1, FS_Interval
<1>2. IsFiniteSet(1 .. k - 1) /\ Cardinality(1 .. k - 1) = k - 1
  <2>1. k - 1 \in Nat /\ 1 \in Int /\ k - 1 \in Int
    OBVIOUS
  <2>2. IsFiniteSet(1 .. k - 1) /\ Cardinality(1 .. k - 1) = IF 1 > k - 1 THEN 0 ELSE k - 1 - 1 + 1
    BY <2>1, FS_Interval, Zenon
  <2>3. QED
    BY <2>1, <2>2
<1>3. h \in [1 .. k -> 1 .. k - 1]
  <2>1. \A a \in 1 .. k : h[a] \in 1 .. k - 1
    OBVIOUS
  <2>2. QED
    BY <2>1
<1>4. Cardinality(1 .. k - 1) < Cardinality(1 .. k)
  BY <1>1, <1>2
<1>5. \E a, b \in 1 .. k : a # b /\ h[a] = h[b]
  <2> DEFINE S == 1 .. k
             T == 1 .. k - 1
  <2>1. IsFiniteSet(S) /\ IsFiniteSet(T) /\ Cardinality(T) < Cardinality(S) /\ h \in [S -> T]
    BY <1>1, <1>2, <1>3, <1>4
  <2> HIDE DEF S, T
  <2>2. \E a, b \in S : a # b /\ h[a] = h[b]
    BY <2>1, FS_PigeonHole
  <2>3. QED
    BY <2>2 DEF S
<1>6. QED
  BY <1>5

(* found is in order, cut and of ever. *)
IsAnswer(found, q, ever) ==
  /\ Len(found) <= q.k
  /\ \A i, j \in DOMAIN found : i < j =>
       found[i].dist <= found[j].dist /\ found[i].sid # found[j].sid
  /\ \A i \in DOMAIN found :
       \E r \in ever : r.sid = found[i].sid /\ found[i].dist = L2Sq(q.at, r.at)

(* found has r, or k others no farther. *)
Recalls(found, q, r) ==
  \/ \E i \in DOMAIN found : found[i].sid = r.sid
  \/ Len(found) = q.k /\ found[q.k].dist <= L2Sq(q.at, r.at)

(* Merged answers are an answer. *)
LEMMA MergedIsAnswer ==
  ASSUME NEW n \in Nat, NEW ps, NEW q, q.k \in Nat \ {0}, NEW ever, ArePartsOf(ps, n, q, ever)
  PROVE  IsAnswer(Merged(ps, q.k), q, ever)
<1> DEFINE all == FlattenSeq(ps)
           f == Merged(ps, q.k)
           l == Len(all)
<1>1. Collects(all, n, ps)
  BY FlattenCollects
<1>2. PICK m, p : Merges(f, m, p, all, q.k)
  BY <1>1, MergeLaws DEF Collects
<1> HIDE DEF all, f
<1>3. /\ m \in Nat /\ m <= q.k /\ m <= l
      /\ GoesThrough(p, l, 1 .. l)
      /\ \A i, j \in 1 .. l : i <= j => all[p[i]].dist <= all[p[j]].dist
      /\ f \in Seq(Hit) /\ Len(f) = m /\ \A i \in 1 .. m : f[i] = all[p[i]]
  BY <1>2 DEF Merges
<1>4. all \in Seq(Hit) /\ l \in Nat
  BY <1>1 DEF Collects
<1> HIDE DEF l
<1>5. DOMAIN f = 1 .. m /\ \A i \in 1 .. m : i \in 1 .. l /\ p[i] \in 1 .. l
  BY <1>3, <1>4 DEF GoesThrough
<1>6. ASSUME NEW i \in 1 .. m, NEW j \in 1 .. m, i < j
      PROVE  f[i].dist <= f[j].dist /\ f[i].sid # f[j].sid
  <2>1. f[i] = all[p[i]] /\ f[j] = all[p[j]] /\ i \in 1 .. l /\ j \in 1 .. l /\ i # j
    BY <1>3, <1>5, <1>6
  <2>2. p[i] # p[j] /\ p[i] \in 1 .. l /\ p[j] \in 1 .. l
    BY <1>3, <1>5, <2>1 DEF GoesThrough
  <2>3. p[i] < p[j] \/ p[j] < p[i]
    BY <1>4, <2>2
  <2>4. all[p[i]].sid # all[p[j]].sid
    BY <1>1, <2>2, <2>3 DEF Collects, l
  <2>5. all[p[i]].dist <= all[p[j]].dist
    BY <1>3, <1>6, <2>1
  <2>6. QED
    BY <2>1, <2>4, <2>5
<1>7. ASSUME NEW i \in 1 .. m PROVE WasHeld(f[i], q, ever)
  <2>1. f[i] = all[p[i]] /\ p[i] \in 1 .. l
    BY <1>3, <1>5
  <2>2. PICK j \in 1 .. n : \E a \in 1 .. Len(ps[j]) : all[p[i]] = ps[j][a]
    BY <1>1, <2>1 DEF Collects, l
  <2>3. AnswersFor(ps[j], q, j, ever)
    BY DEF ArePartsOf
  <2>4. QED
    BY <2>1, <2>2, <2>3 DEF AnswersFor
<1>8. IsAnswer(f, q, ever)
  BY <1>3, <1>5, <1>6, <1>7 DEF IsAnswer, WasHeld
<1>9. QED
  BY <1>8 DEF f

(* A merge loses what a part found to k others only, and a part that gave it up gave *)
(* it up to k others.                                                       *)
LEMMA MergedFinds ==
  ASSUME NEW n \in Nat, NEW ps, NEW q, q.at \in Int, q.k \in Nat \ {0}, NEW ever,
         ArePartsOf(ps, n, q, ever),
         NEW j \in 1 .. n, NEW r, r.at \in Int, HasOrGaveWay(ps[j], q, r)
  PROVE  Recalls(Merged(ps, q.k), q, r)
<1> DEFINE all == FlattenSeq(ps)
           f == Merged(ps, q.k)
           l == Len(all)
           d == L2Sq(q.at, r.at)
<1> SUFFICES Recalls(f, q, r)
  OBVIOUS
<1>1. Collects(all, n, ps) /\ d \in Int
  BY FlattenCollects, SquareIsANumber
<1>2. PICK m, p : Merges(f, m, p, all, q.k)
  BY <1>1, MergeLaws DEF Collects
<1> HIDE DEF all, f, d
<1>3. /\ m \in Nat /\ m <= q.k /\ m <= l /\ (m = q.k \/ m = l)
      /\ GoesThrough(p, l, 1 .. l)
      /\ \A x, y \in 1 .. l : x <= y => all[p[x]].dist <= all[p[y]].dist
      /\ f \in Seq(Hit) /\ Len(f) = m /\ \A x \in 1 .. m : f[x] = all[p[x]]
  BY <1>2 DEF Merges
<1>4. all \in Seq(Hit) /\ l \in Nat
  BY <1>1 DEF Collects
<1>5. PICK o \in Nat : Within(all, o, ps[j])
  BY <1>1 DEF Collects
<1>6. ps[j] \in Seq(Hit) /\ Len(ps[j]) \in Nat
  BY DEF ArePartsOf
<1>7. \A a \in 1 .. Len(ps[j]) : o + a \in 1 .. l /\ all[o + a] = ps[j][a]
  BY <1>5 DEF Within
<1> HIDE DEF l
<1>8. DOMAIN f = 1 .. m
  BY <1>3
<1>9. \A x \in 1 .. l : p[x] \in 1 .. l /\ all[p[x]].dist \in Int
  <2>1. \A x \in 1 .. l : p[x] \in 1 .. l
    BY <1>3 DEF GoesThrough
  <2>2. \A x \in 1 .. l : all[x].dist \in Int
    <3> SUFFICES ASSUME NEW x \in 1 .. Len(all) PROVE all[x].dist \in Int
      BY DEF l
    <3>1. all[x] \in Hit
      BY <1>4
    <3>2. QED
      BY <3>1 DEF Hit
  <2>3. QED
    BY <2>1, <2>2
<1>10. ASSUME NEW y \in 1 .. l, y >= q.k, all[p[y]].dist <= d PROVE Recalls(f, q, r)
  <2>1. m = q.k /\ q.k \in 1 .. m /\ q.k \in 1 .. l
    BY <1>3, <1>4, <1>10
  <2>2. f[q.k] = all[p[q.k]] /\ all[p[q.k]].dist <= all[p[y]].dist
    BY <1>3, <1>10, <2>1
  <2>3. f[q.k].dist <= d
    BY <1>1, <1>9, <1>10, <2>1, <2>2
  <2>4. QED
    BY <1>3, <2>1, <2>3 DEF Recalls, d
<1>11. CASE \E a \in 1 .. Len(ps[j]) : ps[j][a].sid = r.sid /\ ps[j][a].dist = L2Sq(q.at, r.at)
  <2>1. PICK a \in 1 .. Len(ps[j]) : ps[j][a].sid = r.sid /\ ps[j][a].dist = d
    BY <1>11 DEF d
  <2>2. PICK y \in 1 .. l : p[y] = o + a
    BY <1>3, <1>7 DEF GoesThrough
  <2>3. all[p[y]].sid = r.sid /\ all[p[y]].dist = d
    BY <1>7, <2>1, <2>2
  <2>4. CASE y <= m
    <3>1. y \in 1 .. m
      BY <1>3, <2>4
    <3>2. f[y].sid = r.sid
      BY <1>3, <2>3, <3>1
    <3>3. QED
      BY <1>8, <3>1, <3>2 DEF Recalls
  <2>5. CASE y > m
    <3>1. y >= q.k
      BY <1>3, <1>4, <2>5
    <3>2. all[p[y]].dist <= d
      BY <1>1, <2>3
    <3>3. QED
      BY <1>10, <3>1, <3>2
  <2>6. QED
    BY <1>3, <2>4, <2>5
<1>12. CASE Len(ps[j]) = q.k /\ \A a \in 1 .. Len(ps[j]) : ps[j][a].dist <= L2Sq(q.at, r.at)
  <2> DEFINE h == [a \in 1 .. q.k |-> CHOOSE y \in 1 .. l : p[y] = o + a]
  <2>1. ASSUME NEW a \in 1 .. q.k PROVE h[a] \in 1 .. l /\ p[h[a]] = o + a
    <3>1. o + a \in 1 .. l
      BY <1>7, <1>12
    <3>2. \E y \in 1 .. l : p[y] = o + a
      BY <1>3, <3>1 DEF GoesThrough
    <3>3. QED
      BY <3>2
  <2>0. h = [a \in 1 .. q.k |-> h[a]]
    OBVIOUS
  <2> HIDE DEF h
  <2>2. h \in [1 .. q.k -> Nat \ {0}]
    <3>1. \A a \in 1 .. q.k : h[a] \in Nat \ {0}
      <4>1. \A y \in 1 .. l : y \in Nat \ {0}
        BY <1>4
      <4>2. QED
        BY <2>1, <4>1
    <3>2. QED
      BY <2>0, <3>1, Zenon
  <2>3. \A a, b \in 1 .. q.k : h[a] = h[b] => a = b
    <3> SUFFICES ASSUME NEW a \in 1 .. q.k, NEW b \in 1 .. q.k, h[a] = h[b] PROVE a = b
      OBVIOUS
    <3>1. o + a = o + b
      BY <2>1
    <3>2. QED
      BY <3>1
  <2>4. PICK a \in 1 .. q.k : h[a] >= q.k
    <3> DEFINE k == q.k
    <3>1. k \in Nat \ {0} /\ h \in [1 .. k -> Nat \ {0}] /\ \A a, b \in 1 .. k : h[a] = h[b] => a = b
      BY <2>2, <2>3
    <3> HIDE DEF k
    <3>2. \E a \in 1 .. k : h[a] >= k
      BY <3>1, OneIsLarge
    <3>3. QED
      BY <3>2 DEF k
  <2>5. all[p[h[a]]].dist <= d
    <3>1. a \in 1 .. Len(ps[j]) /\ all[p[h[a]]] = ps[j][a]
      BY <1>7, <1>12, <2>1
    <3>2. QED
      BY <1>12, <3>1 DEF d
  <2>6. QED
    BY <1>10, <2>1, <2>4, <2>5
<1>13. QED
  BY <1>11, <1>12 DEF HasOrGaveWay

-----------------------------------------------------------------------------
(* A search and the writes that fall between its parts *)

(* The parts so far hold for q: each has what its shard held when it was asked.     *)
PartsHold(gs, q, ps, ever, always) ==
  /\ DOMAIN ps \subseteq Shards /\ ps = [i \in DOMAIN ps |-> ps[i]]
  /\ \A i \in DOMAIN ps :
       /\ AnswersFor(ps[i], q, i, ever)
       /\ Roomy(gs[i], q) =>
            \A r \in always : ShardOf[r.sid] = i => HasOrGaveWay(ps[i], q, r)

(* There is one search at most, and what was always held still is. *)
SearchHolds(gs, vs, qs, ps, ever, always) ==
  /\ qs \subseteq Queries /\ \A q, r \in qs : q = r
  /\ qs # {} => Held(vs) \subseteq ever /\ always \subseteq Held(vs)
  /\ \A q \in qs : PartsHold(gs, q, ps, ever, always)

SearchInv ==
  /\ GraphsInv
  /\ query = {} => parts = <<>> /\ answer = {}
  /\ SearchHolds(graphs, vectors, query, parts, everHeld, alwaysHeld)
  /\ StableNeighboursAreFound

(* found keeps the promise of a search for q. *)
IsStable(found, gs, q, ever, always) ==
  /\ IsAnswer(found, q, ever)
  /\ (\A i \in Shards : Roomy(gs[i], q)) => \A r \in always : Recalls(found, q, r)

(* gs1 has every node of gs. *)
Grows(gs, gs1) ==
  \A i \in Shards : /\ Len(gs[i].nodes) \in Nat /\ Len(gs1[i].nodes) \in Nat
                    /\ Len(gs[i].nodes) <= Len(gs1[i].nodes)

(* No write takes a node away. *)
LEMMA InsertGrows ==
  ASSUME NEW gs, NEW vs, GraphsHold(gs, vs), NEW s \in Sids, NEW at \in Int, NEW level \in Nat
  PROVE  Grows(gs, GraphsWith(gs, s, at, level))
<1> DEFINE j == ShardOf[s]
           gs1 == GraphsWith(gs, s, at, level)
           r == GraphInsert(gs[j], s, at, level)
<1>1. j \in Shards /\ Graph(gs[j])
  BY DEF Shards, GraphsHold
<1>2. gs1[j] = r /\ \A i \in Shards : i # j => gs1[i] = gs[i]
  BY <1>1 DEF GraphsHold, GraphsWith
<1>3. \A i \in Shards : Len(gs[i].nodes) \in Nat
  BY GraphIsWalkable DEF GraphsHold
<1> HIDE DEF gs1
<1>4. Inserts(gs[j], s, at, r)
  BY <1>1, InsertLaws
<1> HIDE DEF r
<1>5. Len(r.nodes) = Len(gs[j].nodes) + 1
  BY <1>4 DEF Inserts
<1>6. ASSUME NEW i \in Shards
      PROVE  Len(gs1[i].nodes) \in Nat /\ Len(gs[i].nodes) <= Len(gs1[i].nodes)
  <2>1. Len(gs[i].nodes) \in Nat
    BY <1>3
  <2>2. CASE i = j
    <3>1. Len(gs1[i].nodes) = Len(gs[i].nodes) + 1
      BY <1>2, <1>5, <2>2
    <3>2. QED
      BY <2>1, <3>1
  <2>3. CASE i # j
    <3>1. gs1[i] = gs[i]
      BY <1>2, <2>3
    <3>2. QED
      BY <2>1, <3>1
  <2>4. QED
    BY <2>2, <2>3
<1>7. QED
  BY <1>3, <1>6 DEF Grows, gs1

(* A removal leaves them in place. *)
LEMMA RemoveGrows ==
  ASSUME NEW gs, NEW vs, GraphsHold(gs, vs), NEW s \in Sids,
         NEW gs1, gs1 = [gs EXCEPT ![ShardOf[s]] = GraphRemove(@, s)]
  PROVE  Grows(gs, gs1)
<1> DEFINE j == ShardOf[s]
           r == GraphRemove(gs[j], s)
<1>1. j \in Shards /\ Graph(gs[j])
  BY DEF Shards, GraphsHold
<1>2. gs1[j] = r /\ \A i \in Shards : i # j => gs1[i] = gs[i]
  BY <1>1 DEF GraphsHold
<1>3. r.nodes = gs[j].nodes
  BY <1>1, RemoveLaws DEF Graph
<1> HIDE DEF r
<1>4. \A i \in Shards : Len(gs[i].nodes) \in Nat /\ gs1[i].nodes = gs[i].nodes
  BY <1>2, <1>3, GraphIsWalkable DEF GraphsHold
<1>5. QED
  <2>1. ASSUME NEW i \in Shards
        PROVE  /\ Len(gs[i].nodes) \in Nat /\ Len(gs1[i].nodes) \in Nat
               /\ Len(gs[i].nodes) <= Len(gs1[i].nodes)
    <3>1. Len(gs[i].nodes) \in Nat /\ Len(gs1[i].nodes) = Len(gs[i].nodes)
      BY <1>4
    <3>2. QED
      BY <3>1
  <2>2. QED
    BY <2>1 DEF Grows

(* A graph with room now had it before. *)
LEMMA RoomyBefore ==
  ASSUME NEW gs, NEW gs1, Grows(gs, gs1), NEW i \in Shards, NEW q \in Queries, Roomy(gs1[i], q)
  PROVE  Roomy(gs[i], q)
<1> DEFINE b == Least(Beam(q.k, q.ef), MaxDegree(0) + 1)
<1>1. b \in Nat
  <2>1. q.k \in Nat /\ q.ef \in Nat /\ M0 \in Nat
    BY ShardAssumption, HnswAssumption
  <2>2. QED
    BY <2>1 DEF Least, Beam, MaxDegree
<1>2. /\ Len(gs[i].nodes) \in Nat /\ Len(gs1[i].nodes) \in Nat
      /\ Len(gs[i].nodes) <= Len(gs1[i].nodes)
  BY DEF Grows
<1>3. Len(gs1[i].nodes) <= b
  BY DEF Roomy
<1> HIDE DEF b
<1>4. Len(gs[i].nodes) <= b
  BY <1>1, <1>2, <1>3
<1>5. QED
  BY <1>4 DEF Roomy, b

(* A write between two parts disturbs none of the parts there are. *)
LEMMA PartsOutliveWrites ==
  ASSUME NEW gs, NEW gs1, Grows(gs, gs1), NEW q \in Queries, NEW ps, NEW ever, NEW always,
         PartsHold(gs, q, ps, ever, always),
         NEW ever1, ever \subseteq ever1, NEW always1, always1 \subseteq always
  PROVE  PartsHold(gs1, q, ps, ever1, always1)
<1>1. ASSUME NEW i \in DOMAIN ps
      PROVE  /\ AnswersFor(ps[i], q, i, ever1)
             /\ Roomy(gs1[i], q) =>
                  \A r \in always1 : ShardOf[r.sid] = i => HasOrGaveWay(ps[i], q, r)
  <2>1. i \in Shards /\ AnswersFor(ps[i], q, i, ever)
    BY DEF PartsHold
  <2>2. AnswersFor(ps[i], q, i, ever1)
    <3>1. \A h : WasHeld(h, q, ever) => WasHeld(h, q, ever1)
      BY DEF WasHeld
    <3>2. QED
      BY <2>1, <3>1 DEF AnswersFor
  <2>3. ASSUME Roomy(gs1[i], q), NEW r \in always1, ShardOf[r.sid] = i
        PROVE  HasOrGaveWay(ps[i], q, r)
    <3>1. Roomy(gs[i], q)
      BY <2>1, <2>3, RoomyBefore
    <3>2. r \in always
      OBVIOUS
    <3>3. QED
      BY <2>3, <3>1, <3>2 DEF PartsHold
  <2>4. QED
    BY <2>2, <2>3
<1>2. DOMAIN ps \subseteq Shards /\ ps = [i \in DOMAIN ps |-> ps[i]]
  BY Zenon DEF PartsHold
<1>3. QED
  BY <1>1, <1>2, Zenon DEF PartsHold

(* A shard adds its part. *)
LEMMA PartIsAdded ==
  ASSUME NEW gs, NEW vs, GraphsHold(gs, vs), NEW q \in Queries, NEW ps, NEW ever, NEW always,
         PartsHold(gs, q, ps, ever, always),
         Held(vs) \subseteq ever, always \subseteq Held(vs),
         NEW i \in Shards, NEW ps1,
         ps1 = [j \in DOMAIN ps \union {i} |->
                  IF j = i THEN GraphSearch(gs[i], q.at, q.k, q.ef) ELSE ps[j]]
  PROVE  PartsHold(gs, q, ps1, ever, always)
<1> DEFINE p == GraphSearch(gs[i], q.at, q.k, q.ef)
<1>1. q.at \in Int /\ q.k \in Nat \ {0} /\ q.ef \in Nat \ {0}
  BY ShardAssumption
<1>2. /\ AnswersFor(p, q, i, ever)
      /\ Roomy(gs[i], q) => \A r \in Held(vs) : ShardOf[r.sid] = i => HasOrGaveWay(p, q, r)
  BY <1>1, PartLaws
<1> HIDE DEF p
<1>3. ps1 = [j \in DOMAIN ps \union {i} |-> IF j = i THEN p ELSE ps[j]]
  BY DEF p
<1>4. /\ DOMAIN ps1 = DOMAIN ps \union {i} /\ ps1[i] = p
      /\ \A j \in DOMAIN ps : j # i => ps1[j] = ps[j]
      /\ ps1 = [j \in DOMAIN ps1 |-> ps1[j]]
  BY <1>3
<1>5. ASSUME NEW j \in DOMAIN ps1
      PROVE  /\ AnswersFor(ps1[j], q, j, ever)
             /\ Roomy(gs[j], q) =>
                  \A r \in always : ShardOf[r.sid] = j => HasOrGaveWay(ps1[j], q, r)
  <2>1. CASE j = i
    BY <1>2, <1>4, <2>1
  <2>2. CASE j # i
    <3>1. j \in DOMAIN ps /\ ps1[j] = ps[j]
      BY <1>4, <2>2
    <3>2. QED
      BY <3>1 DEF PartsHold
  <2>3. QED
    BY <2>1, <2>2
<1>6. DOMAIN ps1 \subseteq Shards
  BY <1>4 DEF PartsHold
<1>7. QED
  BY <1>4, <1>5, <1>6, Zenon DEF PartsHold

(* All parts merged keep the promise. *)
LEMMA MergeIsStable ==
  ASSUME NEW gs, NEW vs, NEW q \in Queries, NEW ps, NEW ever, NEW always,
         PartsHold(gs, q, ps, ever, always), DOMAIN ps = Shards,
         GraphsHold(gs, vs), always \subseteq Held(vs)
  PROVE  IsStable(Merged(ps, q.k), gs, q, ever, always)
<1> DEFINE n == Cardinality(Shards)
<1>1. q.at \in Int /\ q.k \in Nat \ {0}
  BY ShardAssumption
<1>2. n \in Nat /\ Shards = 1 .. n
  BY ShardAssumption, FS_CardinalityType
<1> HIDE DEF n
<1>3. \A i \in 1 .. n : AnswersFor(ps[i], q, i, ever)
  BY <1>2 DEF PartsHold
<1>4. ps \in [1 .. n -> Seq(Hit)]
  <2>1. \A i \in 1 .. n : ps[i] \in Seq(Hit)
    BY <1>3 DEF AnswersFor
  <2>2. ps = [i \in 1 .. n |-> ps[i]]
    BY <1>2, Zenon DEF PartsHold
  <2>3. QED
    BY <2>1, <2>2, Zenon
<1>5. ArePartsOf(ps, n, q, ever)
  BY <1>3, <1>4 DEF ArePartsOf
<1>6. IsAnswer(Merged(ps, q.k), q, ever)
  BY <1>1, <1>2, <1>5, MergedIsAnswer
<1>7. ASSUME \A i \in Shards : Roomy(gs[i], q), NEW r \in always
      PROVE  Recalls(Merged(ps, q.k), q, r)
  <2>1. r.sid \in DOMAIN vs /\ r.at = vs[r.sid]
    BY DEF Held
  <2>2. r.sid \in Sids /\ r.at \in Int
    BY <2>1 DEF GraphsHold
  <2> DEFINE j == ShardOf[r.sid]
  <2>3. j \in Shards
    BY <2>2 DEF Shards
  <2>4. HasOrGaveWay(ps[j], q, r)
    BY <1>7, <2>3 DEF PartsHold
  <2> HIDE DEF j
  <2>5. j \in 1 .. n
    BY <1>2, <2>3
  <2>6. QED
    BY <1>1, <1>2, <1>5, <2>2, <2>4, <2>5, MergedFinds
<1>8. QED
  BY <1>6, <1>7 DEF IsStable

(* A write leaves the invariant of the search. *)
LEMMA WritesKeepSearches ==
  ASSUME SearchInv, answer = {}, answer' = {}, UNCHANGED <<query, parts>>, Remembered,
         Grows(graphs, graphs'), GraphsInv'
  PROVE  SearchInv'
<1> USE DEF SearchInv
<1>1. (query = {} => parts = <<>> /\ answer = {})'
  OBVIOUS
<1>2. ASSUME query # {}
      PROVE  /\ everHeld \subseteq everHeld' /\ Held(vectors)' \subseteq everHeld'
             /\ alwaysHeld' \subseteq alwaysHeld /\ alwaysHeld' \subseteq Held(vectors)'
  BY <1>2 DEF Remembered
<1>3. ASSUME NEW q \in query
      PROVE  PartsHold(graphs', q, parts, everHeld', alwaysHeld')
  <2>1. q \in Queries /\ PartsHold(graphs, q, parts, everHeld, alwaysHeld)
    BY DEF SearchHolds
  <2>2. everHeld \subseteq everHeld' /\ alwaysHeld' \subseteq alwaysHeld
    BY <1>2
  <2>3. QED
    BY <2>1, <2>2, PartsOutliveWrites
<1>4. SearchHolds(graphs, vectors, query, parts, everHeld, alwaysHeld)'
  <2>1. /\ query' \subseteq Queries /\ \A q, r \in query' : q = r
        /\ query' # {} => Held(vectors)' \subseteq everHeld' /\ alwaysHeld' \subseteq Held(vectors)'
    BY <1>2 DEF SearchHolds
  <2>2. \A q \in query' : PartsHold(graphs', q, parts', everHeld', alwaysHeld')
    BY <1>3
  <2>3. QED
    BY <2>1, <2>2 DEF SearchHolds
<1>5. StableNeighboursAreFound'
  BY DEF StableNeighboursAreFound
<1>6. QED
  BY <1>1, <1>4, <1>5

(* A search keeps its promise whatever writes fall between its parts: its answer is  *)
(* of subjects that were there, each once, and none that stayed is lost to one       *)
(* farther away (ShardedHnsw::search).                                          *)
THEOREM StableNeighboursStay == ShardSpec => []StableNeighboursAreFound
<1>1. ShardInit => SearchInv
  <2> SUFFICES ASSUME ShardInit PROVE SearchInv
    OBVIOUS
  <2>1. query = {} /\ parts = <<>> /\ answer = {}
    BY DEF ShardInit
  <2>2. GraphsInv
    <3>1. DOMAIN graphs = Shards /\ \A i \in Shards : graphs[i] = EmptyGraph
      BY DEF ShardInit
    <3>2. vectors = <<>> /\ DOMAIN <<>> = {}
      BY DEF ShardInit
    <3>3. QED
      BY <3>1, <3>2, EmptyIsAGraph DEF GraphsInv, GraphsHold
  <2>3. SearchHolds(graphs, vectors, query, parts, everHeld, alwaysHeld)
    BY <2>1 DEF SearchHolds
  <2>4. StableNeighboursAreFound
    BY <2>1 DEF StableNeighboursAreFound
  <2>5. QED
    BY <2>1, <2>2, <2>3, <2>4 DEF SearchInv
<1>2. SearchInv /\ GraphsInv' /\ [ShardNext]_shardVars => SearchInv'
  <2> SUFFICES ASSUME SearchInv, GraphsInv', [ShardNext]_shardVars PROVE SearchInv'
    OBVIOUS
  <2>0. /\ GraphsHold(graphs, vectors) /\ (query = {} => parts = <<>> /\ answer = {})
        /\ SearchHolds(graphs, vectors, query, parts, everHeld, alwaysHeld)
        /\ StableNeighboursAreFound
    BY DEF SearchInv, GraphsInv
  <2>1. ASSUME NEW s \in Sids, InsertVector(s) PROVE SearchInv'
    <3>1. PICK at \in Positions, level \in Levels :
            graphs' = [graphs EXCEPT ![ShardOf[s]] = GraphInsert(@, s, at, level)]
      BY <2>1 DEF InsertVector
    <3>2. at \in Int /\ level \in Nat
      BY ShardAssumption
    <3>3. Grows(graphs, graphs')
      <4>1. graphs' = GraphsWith(graphs, s, at, level)
        BY <3>1 DEF GraphsWith
      <4>2. QED
        BY <2>0, <3>2, <4>1, InsertGrows
    <3>4. answer = {} /\ Remembered /\ UNCHANGED <<query, parts>> /\ answer' = {}
      BY <2>1 DEF InsertVector, MayWrite, searchVars
    <3>5. QED
      BY <3>3, <3>4, WritesKeepSearches
  <2>2. ASSUME NEW s \in Sids, RemoveVector(s) PROVE SearchInv'
    <3>1. graphs' = [graphs EXCEPT ![ShardOf[s]] = GraphRemove(@, s)]
      BY <2>2 DEF RemoveVector
    <3>2. Grows(graphs, graphs')
      BY <2>0, <3>1, RemoveGrows
    <3>3. answer = {} /\ Remembered /\ UNCHANGED <<query, parts>> /\ answer' = {}
      BY <2>2 DEF RemoveVector, MayWrite, searchVars
    <3>4. QED
      BY <3>2, <3>3, WritesKeepSearches
  <2>3. ASSUME StartSearch PROVE SearchInv'
    <3>1. /\ query = {} /\ parts' = <<>> /\ answer' = {} /\ graphs' = graphs
          /\ vectors' = vectors /\ everHeld' = Held(vectors) /\ alwaysHeld' = Held(vectors)
      BY <2>0, <2>3 DEF StartSearch
    <3>2. PICK q \in Queries : query' = {q}
      BY <2>3 DEF StartSearch
    <3>3. PartsHold(graphs', q, <<>>, everHeld', alwaysHeld')
      BY DEF PartsHold
    <3>4. SearchHolds(graphs, vectors, query, parts, everHeld, alwaysHeld)'
      <4>1. /\ query' \subseteq Queries /\ \A x, r \in query' : x = r
            /\ Held(vectors)' \subseteq everHeld' /\ alwaysHeld' \subseteq Held(vectors)'
        BY <3>1, <3>2
      <4>2. \A x \in query' : PartsHold(graphs', x, parts', everHeld', alwaysHeld')
        BY <3>1, <3>2, <3>3
      <4>3. QED
        BY <4>1, <4>2 DEF SearchHolds
    <3>5. StableNeighboursAreFound'
      BY <3>1 DEF StableNeighboursAreFound
    <3>6. QED
      BY <3>1, <3>2, <3>4, <3>5 DEF SearchInv
  <2>4. ASSUME NEW i \in Shards, SearchShard(i) PROVE SearchInv'
    <3>1. /\ graphs' = graphs /\ query' = query /\ answer' = answer /\ vectors' = vectors
          /\ everHeld' = everHeld /\ alwaysHeld' = alwaysHeld
      BY <2>4 DEF SearchShard
    <3>2. PICK q \in query :
            parts' = [j \in DOMAIN parts \union {i} |->
                        IF j = i THEN GraphSearch(graphs[i], q.at, q.k, q.ef) ELSE parts[j]]
      BY <2>4 DEF SearchShard
    <3>3. /\ q \in Queries /\ PartsHold(graphs, q, parts, everHeld, alwaysHeld)
          /\ Held(vectors) \subseteq everHeld /\ alwaysHeld \subseteq Held(vectors)
      BY <2>0 DEF SearchHolds
    <3>4. PartsHold(graphs, q, parts', everHeld, alwaysHeld)
      BY <2>0, <3>2, <3>3, PartIsAdded
    <3>5. SearchHolds(graphs, vectors, query, parts, everHeld, alwaysHeld)'
      <4>1. \A x \in query : x = q
        BY <2>0 DEF SearchHolds
      <4>2. QED
        BY <2>0, <3>1, <3>4, <4>1 DEF SearchHolds
    <3>6. StableNeighboursAreFound'
      BY <2>0, <3>1 DEF StableNeighboursAreFound
    <3>7. QED
      BY <3>1, <3>2, <3>5, <3>6 DEF SearchInv
  <2>5. ASSUME Merge PROVE SearchInv'
    <3>1. /\ graphs' = graphs /\ query' = query /\ parts' = parts /\ vectors' = vectors
          /\ everHeld' = everHeld /\ alwaysHeld' = alwaysHeld /\ DOMAIN parts = Shards
      BY <2>5 DEF Merge
    <3>2. PICK q \in query : answer' = {Merged(parts, q.k)}
      BY <2>5 DEF Merge
    <3>3. /\ q \in Queries /\ PartsHold(graphs, q, parts, everHeld, alwaysHeld)
          /\ alwaysHeld \subseteq Held(vectors) /\ \A x \in query : x = q
      BY <2>0 DEF SearchHolds
    <3>4. IsStable(Merged(parts, q.k), graphs, q, everHeld, alwaysHeld)
      BY <2>0, <3>1, <3>3, MergeIsStable
    <3>5. StableNeighboursAreFound'
      <4>1. ASSUME NEW x \in query', NEW found \in answer'
            PROVE  IsStable(found, graphs', x, everHeld', alwaysHeld')
        BY <3>1, <3>2, <3>3, <3>4
      <4>2. QED
        BY <4>1, Zenon DEF StableNeighboursAreFound, IsStable, IsAnswer, Recalls, Roomy
    <3>6. SearchHolds(graphs, vectors, query, parts, everHeld, alwaysHeld)'
      BY <2>0, <3>1 DEF SearchHolds
    <3>7. QED
      BY <3>1, <3>2, <3>5, <3>6 DEF SearchInv
  <2>6. ASSUME ReturnAnswer PROVE SearchInv'
    <3>1. query' = {} /\ parts' = <<>> /\ answer' = {}
      BY <2>6 DEF ReturnAnswer
    <3>2. SearchHolds(graphs, vectors, query, parts, everHeld, alwaysHeld)'
      BY <3>1 DEF SearchHolds
    <3>3. StableNeighboursAreFound'
      BY <3>1 DEF StableNeighboursAreFound
    <3>4. QED
      BY <3>1, <3>2, <3>3 DEF SearchInv
  <2>7. ASSUME UNCHANGED shardVars PROVE SearchInv'
    <3>1. /\ graphs' = graphs /\ query' = query /\ parts' = parts /\ vectors' = vectors
          /\ everHeld' = everHeld /\ alwaysHeld' = alwaysHeld /\ answer' = answer
      BY <2>7 DEF shardVars, searchVars
    <3>2. SearchHolds(graphs, vectors, query, parts, everHeld, alwaysHeld)'
      BY <2>0, <3>1 DEF SearchHolds
    <3>3. StableNeighboursAreFound'
      BY <2>0, <3>1 DEF StableNeighboursAreFound
    <3>4. QED
      BY <2>0, <3>1, <3>2, <3>3 DEF SearchInv
  <2>8. QED
    BY <2>1, <2>2, <2>3, <2>4, <2>5, <2>6, <2>7 DEF ShardNext
<1>3. SearchInv => StableNeighboursAreFound
  BY DEF SearchInv
<1>4. QED
  BY <1>1, <1>2, <1>3, GraphsStayGraphs, PTL DEF ShardSpec

=============================================================================
