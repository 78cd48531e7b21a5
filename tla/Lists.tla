----------------------------------- MODULE Lists -----------------------------------
(***************************************************************************)
(* What the vector index and the block store both do to a list of answers:       *)
(* sort_by, which is stable, and truncate.                                    *)
(***************************************************************************)
EXTENDS Integers, SequencesExt

(* seq in the order of its keys, equals as they come. *)
Sorted(seq, keys) ==
  LET before(i, j) == keys[i] < keys[j] \/ (keys[i] = keys[j] /\ i < j)
  IN  [r \in DOMAIN seq |->
         seq[CHOOSE i \in DOMAIN seq : Cardinality({j \in DOMAIN seq : before(j, i)}) = r - 1]]

\* The first k of a sequence.
FirstOf(seq, k) == SubSeq(seq, 1, IF k < Len(seq) THEN k ELSE Len(seq))

=============================================================================
