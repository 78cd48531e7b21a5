------------------------------ MODULE MCShardedHnsw ------------------------------
(***************************************************************************)
(* One shard, and subjects whose texts have the same vector.                  *)
(***************************************************************************)
EXTENDS ShardedHnsw

OneShard == [s \in Sids |-> 1]

NoQueries == {}

=============================================================================
