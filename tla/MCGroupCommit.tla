------------------------------ MODULE MCGroupCommit ------------------------------
(***************************************************************************)
(* Small instances of GroupCommit: one grain written and deleted, another   *)
(* grain written, and a retry with the key of the first write.             *)
(***************************************************************************)
EXTENDS GroupCommit

CONSTANTS c1, c2, c3, v1, v2, k1, k2, k3

Write1 == [sid |-> 1, pred |-> 0, op |-> "put", val |-> v1, idem |-> k1]
Retry1 == [sid |-> 1, pred |-> 0, op |-> "put", val |-> v2, idem |-> k1]
Erase1 == [sid |-> 1, pred |-> 0, op |-> "delete", val |-> v1, idem |-> k2]

Write2 == [sid |-> 2, pred |-> 1, op |-> "put", val |-> v1, idem |-> k3]

TwoGrains == {Write1, Erase1, Write2}

OneGrainWithRetry == {Write1, Retry1, Erase1}

ClientSymmetry == Permutations(Clients)

=============================================================================
