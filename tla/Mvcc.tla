---------------------------------- MODULE Mvcc ----------------------------------
(***************************************************************************)
(* The multi-version key-value store behind the truth store: the key order *)
(* (keys.rs), the ordered map (kv.rs) and the snapshot reads (truth.rs).    *)
(*                                                                         *)
(* A stored version is a record; the store is a set of versions with one   *)
(* version per key.  A key is <<sid, pred, complement of seq>> and keys    *)
(* are compared lexicographically, which is how the byte strings of        *)
(* grain_key compare (fixed width, big endian).  An optional result is a   *)
(* set with at most one element.  Confidence and valid time are part of    *)
(* the value.                                                              *)
(***************************************************************************)
EXTENDS Integers, SequencesExt

CONSTANTS
  Sids,     \* subject ids (u128 in the code): ordered
  Preds,    \* predicate ids (u32): ordered
  Vals,     \* payloads
  MaxTs     \* u64::MAX, the largest commit timestamp

ASSUME MvccAssumption ==
  /\ Sids \subseteq Nat
  /\ Preds \subseteq Nat
  /\ MaxTs \in Nat

Ops == {"put", "delete"}

Version == [sid : Sids, pred : Preds, op : Ops, val : Vals, seq : 0 .. MaxTs]

-----------------------------------------------------------------------------
(* Keys *)

Complement(t) == MaxTs - t

GrainKey(s, p, t) == <<s, p, Complement(t)>>

KeyOf(v) == GrainKey(v.sid, v.pred, v.seq)

SamePrefix(k, l) == k[1] = l[1] /\ k[2] = l[2]

(* Lexicographic order of the byte strings. *)
KeyLeq(k, l) ==
  \/ k[1] < l[1]
  \/ k[1] = l[1] /\ k[2] < l[2]
  \/ SamePrefix(k, l) /\ k[3] <= l[3]

-----------------------------------------------------------------------------
(* The ordered map *)

PutGrain(kv, v) == {w \in kv : KeyOf(w) # KeyOf(v)} \union {v}

(* The entry with the smallest key at or after target, if there is one. *)
SeekGe(kv, target) ==
  LET after == {v \in kv : KeyLeq(target, KeyOf(v))}
  IN  {v \in after : \A w \in after : KeyLeq(KeyOf(v), KeyOf(w))}

(* Every entry in ascending key order: the n-th has n keys up to its own. *)
ScanAll(kv) ==
  LET upTo(v) == {w \in kv : KeyLeq(KeyOf(w), KeyOf(v))}
  IN  [n \in 1 .. Cardinality(kv) |-> CHOOSE v \in kv : Cardinality(upTo(v)) = n]

-----------------------------------------------------------------------------
(* Snapshot reads *)

SeekTarget(s, p, snapshot) == GrainKey(s, p, snapshot)

(* What get_at returns: the entry the seek lands on, if it is a live entry *)
(* of the requested prefix.                                                *)
GetAt_NoPrefixCheck(kv, s, p, snapshot) ==
  {v \in SeekGe(kv, SeekTarget(s, p, snapshot)) : v.op # "delete"}

GetAt(kv, s, p, snapshot) ==
  {v \in SeekGe(kv, SeekTarget(s, p, snapshot)) :
      /\ v.sid = s /\ v.pred = p
      /\ v.op # "delete"}

(* scan_live walks the entries in key order and remembers the last prefix. *)
(* A tombstone is skipped after its prefix was remembered, so the older     *)
(* versions it hides stay hidden.                                          *)
ScanStep_TombstoneForgotten(acc, v) ==
  IF \/ acc.started /\ SamePrefix(acc.last, KeyOf(v))
     \/ v.op = "delete"
  THEN acc
  ELSE [started |-> TRUE, last |-> KeyOf(v), out |-> acc.out \union {v}]

ScanStep(acc, v) ==
  IF acc.started /\ SamePrefix(acc.last, KeyOf(v))
  THEN acc
  ELSE [started |-> TRUE, last |-> KeyOf(v),
        out |-> IF v.op = "delete" THEN acc.out ELSE acc.out \union {v}]

ScanLive(kv) ==
  FoldLeft(ScanStep, [started |-> FALSE, last |-> <<0, 0, 0>>, out |-> {}],
           ScanAll(kv)).out

-----------------------------------------------------------------------------
(* What a snapshot read promises, with no mention of keys or of an order on *)
(* them.                                                                   *)

Visible(kv, s, p, snapshot) ==
  {v \in kv : v.sid = s /\ v.pred = p /\ v.seq <= snapshot}

Newest(vs) == {v \in vs : \A w \in vs : w.seq <= v.seq}

Live(vs) == {v \in vs : v.op # "delete"}

NewestVisible(kv, s, p, snapshot) == Live(Newest(Visible(kv, s, p, snapshot)))

(* One version per key: what PutGrain preserves. *)
OneVersionPerKey(kv) == \A v, w \in kv : KeyOf(v) = KeyOf(w) => v = w

=============================================================================
