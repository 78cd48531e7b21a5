-------------------------------- MODULE DurableLog --------------------------------
(***************************************************************************)
(* What the write-ahead log promises to its clients: a durable log that    *)
(* only grows, in which timestamps increase and an idempotency key occurs  *)
(* once, and acknowledgements only for entries that are in it.  There is   *)
(* no crash in this specification: crashes, restarts and power losses of    *)
(* the implementation must all be steps that leave the durable log alone   *)
(* or extend it.                                                           *)
(***************************************************************************)
EXTENDS Naturals

VARIABLES
  log,      \* the durable entries, a sequence of records with fields seq, req
  acked     \* the entries whose clients were told "committed"

vars == <<log, acked>>

WellFormed(l) ==
  \A i, j \in DOMAIN l :
    i < j => l[i].seq < l[j].seq /\ l[i].req.idem # l[j].req.idem

Extends(l, m) ==
  /\ DOMAIN l \subseteq DOMAIN m
  /\ \A i \in DOMAIN l : m[i] = l[i]

Init ==
  /\ DOMAIN log = {}
  /\ acked = {}

(* Entries become durable, in bulk or by surviving a crash unacknowledged. *)
Grow ==
  /\ Extends(log, log')
  /\ WellFormed(log')
  /\ UNCHANGED acked

Acknowledge ==
  /\ \E i \in DOMAIN log : acked' = acked \union {log[i]}
  /\ UNCHANGED log

Next == Grow \/ Acknowledge

Spec == Init /\ [][Next]_vars

=============================================================================
