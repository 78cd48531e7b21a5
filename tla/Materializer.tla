------------------------------- MODULE Materializer -------------------------------
(***************************************************************************)
(* The vector plane: the committer applies writes to the truth and then     *)
(* publishes them to a channel; materializer threads take them from the     *)
(* channel, update the vector index and advance a watermark that readers     *)
(* wait for (materializer.rs, cdc.rs).  The index is lost when the store is  *)
(* closed and is seeded again from a scan of the truth                      *)
(* (GrainEngine::rebuild_index_from_truth).                                 *)
(*                                                                         *)
(* A commit is its position in `truth`, which is its seq.  The index maps a  *)
(* subject to the seq whose vector it holds, 0 when it holds none.  Writes   *)
(* are "put" (a vector), "opaque" (a value the embedder rejects), "delete".  *)
(*                                                                         *)
(* Every opening of the store has its own configuration, a mode.             *)
(***************************************************************************)
EXTENDS Naturals, SequencesExt

CONSTANTS
  Sids, Preds,    \* subjects and predicates: sets of numbers
  Modes,          \* how the store may be opened: records of
                  \*   workers: EngineConfig::materializer_workers
                  \*   late: may the rebuild run while clients write?
                  \*   kinds: the kinds of write its clients make
                  \*   served: is it opened by the server (ServerStore)?
  MaxWorkers,     \* bound on the workers of a mode
  MaxCommits,     \* bound on the number of commits
  MaxEpochs       \* bound on how often the store is opened

ASSUME MaterializerAssumption ==
  /\ Sids \subseteq Nat /\ Preds \subseteq Nat
  /\ MaxWorkers \in Nat \ {0}
  /\ Modes \subseteq [workers : 1 .. MaxWorkers, late : BOOLEAN,
                     kinds : SUBSET {"put", "opaque", "delete"}, served : BOOLEAN]
  /\ MaxCommits \in Nat /\ MaxEpochs \in Nat \ {0}

Workers == 0 .. MaxWorkers - 1

Write == [sid : Sids, pred : Preds, kind : {"put", "opaque", "delete"}]

VARIABLES
  mode,        \* the configuration of this opening
  open,        \* may clients write? (the store is opened and, in the server, seeded)
  truth,       \* the commits applied to the truth store, in order
  publishing,  \* is the committer in the publishing half of its batch?
  published,   \* how many commits were published, by this opening or before it
  chan,        \* the CDC channel
  jobs,        \* the channel of each pool worker
  turn,        \* the worker the dispatcher sends to next
  worker,      \* what each worker is doing: [at, seq]
  next,        \* Completion.next
  pending,     \* Completion.pending
  watermark,
  index,       \* subject -> seq of the vector held, 0 if none
  handled,     \* history: the seqs whose index update was done in this opening
  seeds,       \* seqs a running rebuild has still to insert
  rebuild,     \* "due", "running" or "done"
  base,        \* how many commits the truth held when it was opened
  epoch

chans == <<chan, jobs, turn, worker>>
marks == <<next, pending, watermark>>
vars == <<mode, open, truth, publishing, published, chan, jobs, turn, worker, next,
          pending, watermark, index, handled, seeds, rebuild, base, epoch>>

(* One thread reads the channel, or a dispatcher feeds a pool. *)
Pooled == mode.workers > 1

Idle == [at |-> "idle", seq |-> 0]

NoVectors == [s \in Sids |-> 0]

TypeOK ==
  /\ mode \in Modes
  /\ open \in BOOLEAN /\ publishing \in BOOLEAN
  /\ truth \in Seq(Write) /\ Len(truth) <= MaxCommits
  /\ published \in 0 .. Len(truth)
  /\ chan \in Seq(1 .. Len(truth))
  /\ jobs \in [Workers -> Seq(1 .. Len(truth))]
  /\ turn \in Workers
  /\ worker \in [Workers -> [at : {"idle", "taken", "applied"}, seq : 0 .. Len(truth)]]
  /\ next \in 1 .. Len(truth) + 1
  /\ pending \subseteq 1 .. Len(truth)
  /\ watermark \in 0 .. Len(truth)
  /\ index \in [Sids -> 0 .. Len(truth)]
  /\ handled \subseteq 1 .. Len(truth)
  /\ seeds \in Seq(1 .. Len(truth))
  /\ rebuild \in {"due", "running", "done"}
  /\ base \in 0 .. Len(truth)
  /\ epoch \in 1 .. MaxEpochs

Init ==
  /\ mode \in Modes /\ open = mode.late
  /\ truth = <<>> /\ publishing = FALSE /\ published = 0
  /\ chan = <<>> /\ jobs = [w \in Workers |-> <<>>] /\ turn = 0
  /\ worker = [w \in Workers |-> Idle]
  /\ next = 1 /\ pending = {} /\ watermark = 0
  /\ index = NoVectors /\ handled = {}
  /\ seeds = <<>> /\ rebuild = "due"
  /\ base = 0 /\ epoch = 1

-----------------------------------------------------------------------------
(* The committer: a batch is applied to the truth, then published in order.  *)

Commit(r) ==
  /\ open /\ ~ publishing
  /\ Len(truth) < MaxCommits
  /\ truth' = Append(truth, r)
  /\ UNCHANGED <<mode, open, publishing, published, chans, marks, index, handled, seeds,
                 rebuild, base, epoch>>

BatchApplied ==
  /\ ~ publishing
  /\ published < Len(truth)
  /\ publishing' = TRUE
  /\ UNCHANGED <<mode, open, truth, published, chans, marks, index, handled, seeds, rebuild,
                 base, epoch>>

(* The loop goes round once more than there are records.                      *)
Publish_OneTooMany ==
  /\ publishing
  /\ published' = published + 1
  /\ chan' = Append(chan, published')
  /\ publishing' = (published' <= Len(truth))
  /\ UNCHANGED <<mode, open, truth, jobs, turn, worker, marks, index, handled, seeds, rebuild,
                 base, epoch>>

(* A deletion is applied and not published. *)
Publish_PutsOnly ==
  /\ publishing
  /\ published' = published + 1
  /\ chan' = IF truth[published'].kind = "delete" THEN chan ELSE Append(chan, published')
  /\ publishing' = (published' < Len(truth))
  /\ UNCHANGED <<mode, open, truth, jobs, turn, worker, marks, index, handled, seeds, rebuild,
                 base, epoch>>

Publish ==
  /\ publishing
  /\ published' = published + 1
  /\ chan' = Append(chan, published')
  /\ publishing' = (published' < Len(truth))
  /\ UNCHANGED <<mode, open, truth, jobs, turn, worker, marks, index, handled, seeds, rebuild,
                 base, epoch>>

-----------------------------------------------------------------------------
(* The materializer *)

(* The dispatcher hands records to the workers in turn. *)
Dispatch ==
  /\ Pooled
  /\ chan # <<>>
  /\ jobs' = [jobs EXCEPT ![turn] = Append(@, Head(chan))]
  /\ chan' = Tail(chan)
  /\ turn' = (turn + 1) % mode.workers
  /\ UNCHANGED <<mode, open, truth, publishing, published, worker, marks, index, handled,
                 seeds, rebuild, base, epoch>>

Take(w) ==
  /\ w < mode.workers /\ worker[w].at = "idle"
  /\ LET source == IF Pooled THEN jobs[w] ELSE chan
     IN  /\ source # <<>>
         /\ worker' = [worker EXCEPT ![w] = [at |-> "taken", seq |-> Head(source)]]
         /\ IF Pooled
            THEN jobs' = [jobs EXCEPT ![w] = Tail(@)] /\ UNCHANGED chan
            ELSE chan' = Tail(chan) /\ UNCHANGED jobs
  /\ UNCHANGED <<mode, open, truth, publishing, published, turn, marks, index, handled,
                 seeds, rebuild, base, epoch>>

(* An unembeddable value leaves the old vector in place. *)
VectorOf_KeepOld(seq, old) ==
  CASE truth[seq].kind = "put"    -> seq
    [] truth[seq].kind = "delete" -> 0
    [] OTHER                      -> old

(* What the index holds for a subject after one of its records is applied. *)
VectorOf(seq, old) == IF truth[seq].kind = "put" THEN seq ELSE 0

(* apply: one insert or remove, under the index's own lock. *)
ApplyToIndex(w) ==
  /\ worker[w].at = "taken"
  /\ LET seq == worker[w].seq
     IN  /\ index' = [index EXCEPT ![truth[seq].sid] = VectorOf(seq, @)]
         /\ handled' = handled \union {seq}
  /\ worker' = [worker EXCEPT ![w].at = "applied"]
  /\ UNCHANGED <<mode, open, truth, publishing, published, chan, jobs, turn, marks, seeds,
                 rebuild, base, epoch>>

(* The pool's watermark is the highest record completed. *)
Advance_ToHighest(seq) ==
  /\ pending' = pending \union {seq}
  /\ next' = IF seq < next THEN next ELSE seq + 1
  /\ watermark' = next' - 1

(* The pool's watermark is the last record completed. *)
Advance_ToLast(seq) ==
  /\ watermark' = seq
  /\ UNCHANGED <<next, pending>>

(* A record that fills the gap does not let those behind it through. *)
Advance_OneStep(seq) ==
  /\ IF seq = next THEN next' = next + 1 /\ UNCHANGED pending
                   ELSE pending' = pending \union {seq} /\ UNCHANGED next
  /\ watermark' = next' - 1

(* Completion::complete advances over the contiguous prefix; the single      *)
(* thread stores the record's seq.                                          *)
Advance(seq) ==
  IF Pooled
  THEN LET done == pending \union {seq}
       IN  /\ next' \in {n \in next .. next + Cardinality(done) :
                           n \notin done /\ next .. n - 1 \subseteq done}
           /\ pending' = done \ (next .. next' - 1)
           /\ watermark' = next' - 1
  ELSE /\ watermark' = seq
       /\ UNCHANGED <<next, pending>>

Complete(w) ==
  /\ worker[w].at = "applied"
  /\ Advance(worker[w].seq)
  /\ worker' = [worker EXCEPT ![w] = Idle]
  /\ UNCHANGED <<mode, open, truth, publishing, published, chan, jobs, turn, index, handled,
                 seeds, rebuild, base, epoch>>

-----------------------------------------------------------------------------
(* Seeding the index from the truth *)

Of(s, p) == {i \in DOMAIN truth : truth[i].sid = s /\ truth[i].pred = p}

(* A deletion is skipped, and an older version comes up instead. *)
Live_Undeleted ==
  LET puts(h) == {i \in Of(h[1], h[2]) : truth[i].kind # "delete"}
  IN  {Max(puts(h)) : h \in {g \in Sids \X Preds : puts(g) # {}}}

(* scan_live: the newest version of each grain unless it is a tombstone, ... *)
Live ==
  LET newest == {Max(Of(h[1], h[2])) : h \in {g \in Sids \X Preds : Of(g[1], g[2]) # {}}}
  IN  {i \in newest : truth[i].kind # "delete"}

(* ... in key order.                                                         *)
KeyBefore(i, j) ==
  \/ truth[i].sid < truth[j].sid
  \/ truth[i].sid = truth[j].sid /\ truth[i].pred < truth[j].pred

LiveScan ==
  {q \in [1 .. Cardinality(Live) -> Live] :
     ToSet(q) = Live /\ \A a, b \in DOMAIN q : a < b => KeyBefore(q[a], q[b])}

StartRebuild ==
  /\ rebuild = "due"
  /\ seeds' \in LiveScan
  /\ rebuild' = "running"
  /\ UNCHANGED <<mode, open, truth, publishing, published, chans, marks, index, handled,
                 base, epoch>>

(* The first value the embedder rejects ends the rebuild. *)
Seed_StopsAtOpaque ==
  /\ rebuild = "running"
  /\ seeds # <<>>
  /\ LET i == Head(seeds)
     IN  IF truth[i].kind = "put"
         THEN index' = [index EXCEPT ![truth[i].sid] = i] /\ seeds' = Tail(seeds)
         ELSE seeds' = <<>> /\ UNCHANGED index
  /\ UNCHANGED <<mode, open, truth, publishing, published, chans, marks, handled, rebuild,
                 base, epoch>>

(* Values the embedder rejects are skipped. *)
Seed ==
  /\ rebuild = "running"
  /\ seeds # <<>>
  /\ LET i == Head(seeds)
     IN  index' = IF truth[i].kind = "put" THEN [index EXCEPT ![truth[i].sid] = i] ELSE index
  /\ seeds' = Tail(seeds)
  /\ UNCHANGED <<mode, open, truth, publishing, published, chans, marks, handled, rebuild,
                 base, epoch>>

EndRebuild ==
  /\ rebuild = "running"
  /\ seeds = <<>>
  /\ rebuild' = "done"
  /\ open' = TRUE
  /\ UNCHANGED <<mode, truth, publishing, published, chans, marks, index, handled, seeds,
                 base, epoch>>

(* A program opens its engine the same way again, the server may get other     *)
(* flags.                                                                   *)
Reopens(m) == m = mode \/ (m.served /\ mode.served)

(* The store is closed, or the process dies, and it is opened again: every   *)
(* applied commit is recovered (it was durable), and some that were written    *)
(* and not applied yet; the rest starts empty.                               *)
ReopenWith(unapplied) ==
  /\ epoch < MaxEpochs
  /\ epoch' = epoch + 1
  /\ truth' = truth \o unapplied
  /\ base' = Len(truth') /\ published' = Len(truth')
  /\ \E m \in Modes : Reopens(m) /\ mode' = m
  /\ open' = mode'.late /\ publishing' = FALSE
  /\ chan' = <<>> /\ jobs' = [w \in Workers |-> <<>>] /\ turn' = 0
  /\ worker' = [w \in Workers |-> Idle]
  /\ next' = 1 /\ pending' = {} /\ watermark' = 0
  /\ index' = NoVectors /\ handled' = {}
  /\ seeds' = <<>> /\ rebuild' = "due"

(* For a program that owns its engine, a write made and not applied before a    *)
(* crash is one applied and not published before it.                         *)
Reopen == ReopenWith(<<>>)

Work(w) == Take(w) \/ ApplyToIndex(w) \/ Complete(w)

(* A program that owns the engine writes what it likes.                        *)
OwnerWrites ==
  /\ ~ mode.served
  /\ \E r \in Write : r.kind \in mode.kinds /\ Commit(r)

(* What the threads of the store do. *)
Running ==
  \/ Publish
  \/ Dispatch \/ \E w \in Workers : Work(w)
  \/ StartRebuild \/ Seed \/ EndRebuild

Internal == BatchApplied \/ Running

Next == OwnerWrites \/ Internal \/ Reopen

Spec == Init /\ [][Next]_vars

(* Each thread runs when it has work: the committer finishes its batch, the   *)
(* dispatcher and every worker empty their channels, opening finishes.        *)
FairSpec ==
  /\ Spec
  /\ WF_vars(BatchApplied \/ Publish)
  /\ WF_vars(Dispatch)
  /\ \A w \in Workers : WF_vars(Work(w))
  /\ WF_vars(StartRebuild \/ Seed \/ EndRebuild)

-----------------------------------------------------------------------------
(* Safety *)

(* What the index should hold for s after the first n commits.               *)
Expected(s, n) ==
  LET of == {i \in 1 .. n : truth[i].sid = s}
  IN  IF of # {} /\ truth[Max(of)].kind = "put" THEN Max(of) ELSE 0

Seeded == rebuild = "done"

(* The watermark never claims a commit whose index update was not done, nor   *)
(* skips one, in whatever order the workers finish (Completion::complete).     *)
WatermarkIsHonest == \A i \in base + 1 .. watermark : i \in handled

(* With one thread that seeds before clients write, the index is the truth as    *)
(* of one commit that is at or past the watermark and what was seeded: it never  *)
(* mixes an older state of one subject with a newer state of another, and is    *)
(* never ahead of what was published.  While it is seeded it has, of each        *)
(* subject, what the truth was opened with or nothing (scan_live brings no      *)
(* superseded and no deleted version).                                       *)
IndexIsACut ==
  ~ Pooled /\ ~ mode.late =>
    IF Seeded
    THEN \E n \in base .. published :
           watermark <= n /\ \A s \in Sids : index[s] = Expected(s, n)
    ELSE \A s \in Sids : index[s] \in {0, Expected(s, base)}

(* How far a single thread has come: the last record it took, and the last it     *)
(* applied.                                                                 *)
Taken == published - Len(chan)
Applied == IF worker[0].at = "taken" THEN Taken - 1 ELSE Taken

(* The index of a single thread that was seeded before clients write.            *)
Current == Seeded /\ ~ Pooled /\ ~ mode.late

Stale == INSTANCE StaleIndex WITH
           current <- Current,
           cut     <- IF Current THEN Applied ELSE 0,
           mark    <- IF Current THEN watermark ELSE 0,
           index   <- IF Current THEN index ELSE NoVectors

(* It behaves as StaleIndex: every change of it is one commit in the order of the   *)
(* truth, it comes back from a restart as the whole truth and never goes back     *)
(* otherwise, and the watermark only ever says how far it is (materializer.rs       *)
(* apply; rebuild_index_from_truth).                                         *)
ImplementsStaleIndex == Stale!Spec

(* When everything published has been worked off, the index is the truth.      *)
Quiet ==
  /\ Seeded /\ published = Len(truth) /\ chan = <<>>
  /\ \A w \in Workers : jobs[w] = <<>> /\ worker[w] = Idle

QuietIndexIsCurrent ==
  Quiet => \A s \in Sids : index[s] = Expected(s, Len(truth))

(* ... and whatever the order a pool and a rebuild that runs beside it finish   *)
(* in, a subject that was written once is in the index as soon as the rebuild is  *)
(* over, if it was there when the store was opened, or the watermark has passed   *)
(* it, or all is worked off: no record is lost between the channel, the workers   *)
(* and the seeding, and no seeded value is left out behind one the embedder      *)
(* rejects (the server writes each subject once, rebuilds at every start and     *)
(* relies on this).                                                         *)
SoleWriteIsIndexed ==
  Seeded => \A i \in DOMAIN truth :
    /\ i <= base \/ i <= watermark \/ Quiet
    /\ \A j \in DOMAIN truth : truth[j].sid = truth[i].sid => j = i
    => index[truth[i].sid] = IF truth[i].kind = "put" THEN i ELSE 0

(* A reader that waited for a commit never sees the watermark move back.        *)
WatermarkNeverRetreats == [][epoch' = epoch => watermark <= watermark']_vars

-----------------------------------------------------------------------------
(* Liveness *)

(* sync(seq) returns: the watermark reaches every commit made in this opening, *)
(* unless the store is closed first (engine.rs, "Block until the vector index   *)
(* reflects commit seq").                                                      *)
SyncReturns ==
  \A i \in 1 .. MaxCommits :
    base < i /\ i <= Len(truth) ~> watermark >= i \/ base >= i

(* ... unless a pool runs on a store that held something when it was opened: no *)
(* gap stays in front of what the workers completed (Completion::complete), and  *)
(* every record reaches the channel.                                         *)
SyncReturnsButForReopenedPools ==
  \A i \in 1 .. MaxCommits :
    base < i /\ i <= Len(truth) /\ (Pooled => base = 0) ~> watermark >= i \/ base >= i

=============================================================================
