----------------------------------- MODULE Hlc -----------------------------------
(***************************************************************************)
(* The clock oracle under concurrent calls (hlc.rs): next() loads the counter *)
(* and retries a weak compare-and-swap until it succeeds; now() loads it.     *)
(*                                                                         *)
(* The counter is one atomic variable, so all threads agree on the order of   *)
(* its values; `seen` is how far along that order a thread has got.  A load   *)
(* returns any value from there on (it may be stale); a successful            *)
(* compare-and-swap reads the newest value; a failed one may fail for no      *)
(* reason (weak) and returns any value from `seen` on.  Threads pass what     *)
(* they know to each other by other means (a channel, an answered commit).    *)
(***************************************************************************)
EXTENDS Naturals

CONSTANTS
  Threads,
  Base,       \* the timestamp the clock resumes from
  MaxTicks    \* bound on the timestamps issued

ASSUME HlcAssumption ==
  /\ Base \in Nat
  /\ MaxTicks \in Nat

VARIABLES
  last,     \* the newest value of the counter
  seen,     \* thread -> the newest value it knows of
  prev,     \* thread -> its local `prev`
  at,       \* thread -> "idle" or "cas", inside next()
  issued,   \* history: thread -> the timestamps next() returned to it
  started   \* history: thread -> what it knew when its next() began

vars == <<last, seen, prev, at, issued, started>>

Ticks == Base .. Base + MaxTicks

TypeOK ==
  /\ last \in Ticks
  /\ seen \in [Threads -> Ticks]
  /\ prev \in [Threads -> Ticks]
  /\ at \in [Threads -> {"idle", "cas"}]
  /\ issued \in [Threads -> SUBSET Ticks]
  /\ started \in [Threads -> Ticks]

(* resume_from; new is resume_from(0). *)
Init ==
  /\ last = Base
  /\ seen = [t \in Threads |-> Base]
  /\ prev = [t \in Threads |-> Base]
  /\ at = [t \in Threads |-> "idle"]
  /\ issued = [t \in Threads |-> {}]
  /\ started = [t \in Threads |-> Base]

(* What a load may return to t. *)
Loadable(t) == seen[t] .. last

(* next: the relaxed load. *)
StartNext(t) ==
  /\ at[t] = "idle"
  /\ \E v \in Loadable(t) :
       /\ prev' = [prev EXCEPT ![t] = v]
       /\ seen' = [seen EXCEPT ![t] = v]
  /\ at' = [at EXCEPT ![t] = "cas"]
  /\ started' = [started EXCEPT ![t] = seen[t]]
  /\ UNCHANGED <<last, issued>>

(* A plain store of prev + 1. *)
CasSucceeds_Store(t) ==
  /\ at[t] = "cas"
  /\ prev[t] < Base + MaxTicks
  /\ last' = prev[t] + 1
  /\ seen' = [seen EXCEPT ![t] = prev[t] + 1]
  /\ issued' = [issued EXCEPT ![t] = @ \union {prev[t] + 1}]
  /\ at' = [at EXCEPT ![t] = "idle"]
  /\ UNCHANGED <<prev, started>>

(* The swap is right and the value before it is returned. *)
CasSucceeds_Old(t) ==
  /\ at[t] = "cas"
  /\ prev[t] = last /\ last < Base + MaxTicks
  /\ last' = last + 1
  /\ seen' = [seen EXCEPT ![t] = last']
  /\ issued' = [issued EXCEPT ![t] = @ \union {prev[t]}]
  /\ at' = [at EXCEPT ![t] = "idle"]
  /\ UNCHANGED <<prev, started>>

CasSucceeds(t) ==
  /\ at[t] = "cas"
  /\ prev[t] = last /\ last < Base + MaxTicks
  /\ last' = last + 1
  /\ seen' = [seen EXCEPT ![t] = last + 1]
  /\ issued' = [issued EXCEPT ![t] = @ \union {last + 1}]
  /\ at' = [at EXCEPT ![t] = "idle"]
  /\ UNCHANGED <<prev, started>>

(* A failed swap loads again: the value observed becomes prev. *)
CasFails(t) ==
  /\ at[t] = "cas"
  /\ \E v \in Loadable(t) :
       /\ prev' = [prev EXCEPT ![t] = v]
       /\ seen' = [seen EXCEPT ![t] = v]
  /\ UNCHANGED <<last, at, issued, started>>

(* now: the value is used as a read snapshot. *)
Now(t) ==
  /\ at[t] = "idle"
  /\ \E v \in Loadable(t) : seen' = [seen EXCEPT ![t] = v]
  /\ UNCHANGED <<last, prev, at, issued, started>>

(* t learns what u knows. *)
Tell(u, t) ==
  /\ u # t /\ at[t] = "idle"
  /\ seen[u] > seen[t]
  /\ seen' = [seen EXCEPT ![t] = seen[u]]
  /\ UNCHANGED <<last, prev, at, issued, started>>

Next ==
  \E t \in Threads :
    \/ StartNext(t) \/ CasSucceeds(t) \/ CasFails(t) \/ Now(t)
    \/ \E u \in Threads : Tell(u, t)

Spec == Init /\ [][Next]_vars

-----------------------------------------------------------------------------
(* Safety *)

AllIssued == UNION {issued[t] : t \in Threads}

(* No two threads are ever issued the same timestamp (hlc.rs:4, "never issues  *)
(* a duplicate even under concurrent next() calls").                           *)
NoDuplicates ==
  \A t, u \in Threads : t # u => issued[t] \intersect issued[u] = {}

(* The timestamps issued are exactly those above the high watermark up to the  *)
(* counter: none is skipped, none is at or below the watermark, so contiguous  *)
(* seqs are what the materializer may count on.                               *)
IssuedIsGapFree == AllIssued = Base + 1 .. last

(* Every timestamp is issued exactly once: a commit never shares or skips a seq.  *)
EachOnceAndNoneSkipped == NoDuplicates /\ IssuedIsGapFree

(* A timestamp is larger than everything its caller knew of when it asked, its  *)
(* own earlier timestamps and those it was told of included, however stale the  *)
(* loads in between: a write is ordered after the writes that caused it.        *)
NextIsCausal ==
  [][\A t \in Threads : \A n \in issued'[t] \ issued[t] : n > started[t]]_vars

=============================================================================
