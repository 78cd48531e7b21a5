------------------------------- MODULE MCStructures -------------------------------
(***************************************************************************)
(* Three in-memory structures that have no state in common: the clock with three  *)
(* interchangeable threads, the sharded vector index and the block store.  What     *)
(* one does never depends on another, so a behaviour uses one of them.           *)
(***************************************************************************)
EXTENDS Hlc, ShardedHnsw, Blocks

allVars == <<vars, shardVars, blockVars>>

StructuresInit == Init /\ ShardInit /\ BlockInit

StructuresNext ==
  \/ /\ writes = 0 /\ query = {} /\ recs = <<>>
     /\ Next /\ UNCHANGED <<shardVars, blockVars>>
  \/ /\ Init /\ recs = <<>>
     /\ ShardNext /\ UNCHANGED <<vars, blockVars>>
  \/ /\ Init /\ writes = 0 /\ query = {}
     /\ BlockNext /\ UNCHANGED <<vars, shardVars>>

StructuresSpec == StructuresInit /\ [][StructuresNext]_allVars

(* Subjects 1 and 2 share a shard. *)
MCShardOf == <<1, 1, 2>>

MCQueries == {[at |-> 0, k |-> 1, ef |-> 1], [at |-> 2, k |-> 2, ef |-> 4]}

(* Every two of the subjects collide in one bit; 5 is never fed and collides in     *)
(* both of its bits.                                                         *)
MCBloomBits == <<{1, 2}, {2, 3}, {3, 4}, {4, 1}, {1, 3}>>

MCNearQueries ==
  {[at |-> x, k |-> 1] : x \in {9, 16, 27, 35, 44}}
    \union {[at |-> 13, k |-> 2], [at |-> 0, k |-> 5]}

=============================================================================
