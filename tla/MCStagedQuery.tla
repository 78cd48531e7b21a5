------------------------------ MODULE MCStagedQuery ------------------------------
(***************************************************************************)
(* Three grains of two categories and two tags are recovered.  Writes move a grain to the   *)
(* other category or to another distance, or delete it, while two threads     *)
(* query.                                                                   *)
(***************************************************************************)
EXTENDS StagedQuery

CONSTANTS a, b, x, y

Value(cat, tag, dist) == [cat |-> cat, tag |-> tag, dist |-> dist]

MCValues == {Value(a, x, 1), Value(b, x, 2), Value(a, y, 3)}

MCRecovered ==
  << [sid |-> 1, val |-> Value(a, x, 1)],
     [sid |-> 2, val |-> Value(b, x, 2)],
     [sid |-> 3, val |-> Value(a, y, 3)] >>

(* The first grain changes its category and moves away, the second takes its    *)
(* place; the first may go.                                                 *)
MCPuts == {[sid |-> 1, val |-> Value(b, x, 2)], [sid |-> 2, val |-> Value(a, x, 1)]}

MCAsks ==
  {[filter |-> a, k |-> 1], [filter |-> x, k |-> 1], [filter |-> AnyCat, k |-> 3]}

ThreadSymmetry == Permutations(Threads)

=============================================================================
