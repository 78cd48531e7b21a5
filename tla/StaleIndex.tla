-------------------------------- MODULE StaleIndex --------------------------------
(***************************************************************************)
(* What a vector index fed by one thread promises to queries: it is the truth   *)
(* as of some commit, it catches up one commit at a time and never goes back,   *)
(* and a watermark says how far it had come.  It may be lost at any moment and   *)
(* comes back as the truth of then, but with the watermark at the beginning.    *)
(* The truth only grows, by what a crash leaves of a batch too.                *)
(*                                                                         *)
(* Channels, records in progress, seeding and restarts of the implementation    *)
(* must all be steps of these few kinds, or invisible.                       *)
(***************************************************************************)
EXTENDS Naturals, Sequences

CONSTANTS
  Sids,     \* subjects
  Write     \* what can be committed: records with fields sid and kind

VARIABLES
  truth,    \* the commits, in order
  current,  \* is there an index?
  cut,      \* how many commits it reflects
  mark,     \* the watermark
  index     \* subject -> the commit whose vector is held, 0 if none

vars == <<truth, current, cut, mark, index>>

Blank == [s \in Sids |-> 0]

(* Of the first n writes of t, ix has for each subject the last, if that put a   *)
(* vector.                                                                  *)
IsAsOf(ix, t, n) ==
  \A s \in Sids :
    LET Newest(i) == t[i].sid = s /\ \A j \in i + 1 .. n : t[j].sid # s
    IN  \/ ix[s] \in 1 .. n /\ Newest(ix[s]) /\ t[ix[s]].kind = "put"
        \/ ix[s] = 0 /\ \A i \in 1 .. n : Newest(i) => t[i].kind # "put"

NoIndex == cut = 0 /\ mark = 0 /\ index = Blank

Init == truth = <<>> /\ current = FALSE /\ NoIndex

(* Nothing of the truth is lost or changed.                                  *)
TruthKept ==
  /\ truth' \in Seq(Write)
  /\ Len(truth) <= Len(truth')
  /\ \A i \in DOMAIN truth : truth'[i] = truth[i]

Grow ==
  /\ TruthKept
  /\ UNCHANGED <<current, cut, mark, index>>

Load ==
  /\ ~ current /\ current' = TRUE
  /\ cut' = Len(truth) /\ mark' = 0
  /\ IsAsOf(index', truth, cut')
  /\ UNCHANGED truth

Advance ==
  /\ current /\ cut < Len(truth)
  /\ cut' = cut + 1
  /\ IsAsOf(index', truth, cut')
  /\ UNCHANGED <<truth, current, mark>>

Tell ==
  /\ current
  /\ mark' = cut
  /\ UNCHANGED <<truth, current, cut, index>>

Lose ==
  /\ current /\ current' = FALSE
  /\ NoIndex'
  /\ TruthKept

Next == Grow \/ Load \/ Advance \/ Tell \/ Lose

Spec == Init /\ [][Next]_vars

=============================================================================
