----------------------------- MODULE ServerStoreProof -----------------------------
(***************************************************************************)
(* What the vector plane's watermark and the server's loads promise, for any   *)
(* number of workers, handler threads, commits and openings of the store.      *)
(* The steps of both specifications are those of AnyStep, seen from the        *)
(* engine: a commit, a step of the store's threads, or a new opening.          *)
(***************************************************************************)
EXTENDS ServerStore, Induction

Grain == [sid : Sids, kind : {"put", "opaque"}]

(* The store is opened again, with some more that was written before.            *)
Opens ==
  \E unapplied \in Seq(Write) :
    Len(truth) + Len(unapplied) <= MaxCommits /\ ReopenWith(unapplied)

AnyStep == (\E r \in Write : Commit(r)) \/ Internal \/ Opens

(* The part of the types the arguments below need.                            *)
StoreShape ==
  /\ mode \in Modes
  /\ truth \in Seq(Write)
  /\ published \in Nat /\ published <= Len(truth)
  /\ base \in Nat /\ base <= published
  /\ publishing => published < Len(truth)
  /\ epoch \in Nat

ChannelShape ==
  /\ chan \in Seq(Nat)
  /\ jobs \in [Workers -> Seq(Nat)]
  /\ turn \in Workers
  /\ worker \in [Workers -> [at : {"idle", "taken", "applied"}, seq : Nat]]

MarkShape ==
  /\ next \in Nat /\ 0 < next
  /\ pending \subseteq Nat /\ IsFiniteSet(pending)
  /\ watermark \in Nat
  /\ handled \subseteq Nat

Shape == StoreShape /\ ChannelShape /\ MarkShape

(* A pool: what is below `next` or set aside was applied, and what a worker is *)
(* about to complete was applied too.                                        *)
PoolIsHonest ==
  Pooled =>
    /\ watermark = next - 1
    /\ \A i \in Nat : 1 <= i /\ i < next => i \in handled
    /\ pending \subseteq handled
    /\ \A w \in Workers : worker[w].at = "applied" => worker[w].seq \in handled

(* One thread: the channel holds the end of what was published, in order; the  *)
(* record being worked on is the one before it; all before were applied.       *)
SingleIsInOrder ==
  ~ Pooled =>
    /\ \A w \in Workers \ {0} : worker[w].at = "idle"
    /\ \A i \in DOMAIN chan : chan[i] = Taken + i
    /\ base <= Taken
    /\ worker[0].at # "idle" => worker[0].seq = Taken /\ base < Taken /\ watermark < Taken
    /\ watermark <= Taken
    /\ \A i \in Nat : base < i /\ i < Taken => i \in handled
    /\ worker[0].at # "taken" => \A i \in Nat : base < i /\ i <= Taken => i \in handled

IInv == Shape /\ PoolIsHonest /\ SingleIsInOrder

(* There is a worker 0, and every mode has one worker or more.                 *)
LEMMA WorkersExist ==
  /\ 0 \in Workers /\ Workers \subseteq Nat
  /\ mode \in Modes => mode.workers \in Nat \ {0} /\ mode.workers <= MaxWorkers
  BY MaterializerAssumption DEF Workers

(* An empty store satisfies the invariant, and so does a store just opened.    *)
LEMMA InitIInv == Init => IInv
<1> SUFFICES ASSUME Init PROVE IInv
  OBVIOUS
<1>1. Shape
  BY WorkersExist, FS_EmptySet, MaterializerAssumption DEF Init, Shape, StoreShape,
     ChannelShape, MarkShape, Idle
<1>2. PoolIsHonest /\ SingleIsInOrder
  BY WorkersExist DEF Init, PoolIsHonest, SingleIsInOrder, Taken, Idle
<1>3. QED
  BY <1>1, <1>2 DEF IInv

(* A store opened again has all it had, and everything else is as in a new one.    *)
LEMMA OpenedAnew ==
  ASSUME truth \in Seq(Write), Opens
  PROVE  /\ truth' \in Seq(Write)
         /\ Len(truth) <= Len(truth') /\ Len(truth') <= MaxCommits
         /\ \A i \in DOMAIN truth : i \in DOMAIN truth' /\ truth'[i] = truth[i]
         /\ epoch < MaxEpochs /\ epoch' = epoch + 1
         /\ base' = Len(truth') /\ published' = Len(truth')
         /\ mode' \in Modes /\ Reopens(mode')
         /\ open' = mode'.late /\ publishing' = FALSE
         /\ chan' = <<>> /\ jobs' = [w \in Workers |-> <<>>] /\ turn' = 0
         /\ worker' = [w \in Workers |-> Idle]
         /\ next' = 1 /\ pending' = {} /\ watermark' = 0
         /\ index' = NoVectors /\ handled' = {}
         /\ seeds' = <<>> /\ rebuild' = "due"
<1>1. PICK unapplied \in Seq(Write) :
        Len(truth) + Len(unapplied) <= MaxCommits /\ ReopenWith(unapplied)
  BY DEF Opens
<1>2. truth' = truth \o unapplied
  BY <1>1 DEF ReopenWith
<1>3. /\ truth' \in Seq(Write) /\ Len(truth') = Len(truth) + Len(unapplied)
      /\ \A i \in DOMAIN truth : i \in DOMAIN truth' /\ truth'[i] = truth[i]
  BY <1>1, <1>2
<1>4. Len(truth) <= Len(truth') /\ Len(truth') <= MaxCommits
  BY <1>1, <1>3
<1>5. QED
  BY <1>1, <1>3, <1>4 DEF ReopenWith

(* Opening the store again starts the materializer from nothing.               *)
LEMMA ReopenIInv == ASSUME IInv, Opens PROVE IInv'
<1>0. truth \in Seq(Write)
  BY DEF IInv, Shape, StoreShape
<1>1. Shape'
  <2>1. StoreShape'
    BY <1>0, OpenedAnew, MaterializerAssumption DEF IInv, Shape, StoreShape
  <2>2. ChannelShape'
    <3>1. /\ chan' = <<>> /\ jobs' = [w \in Workers |-> <<>>] /\ turn' = 0
          /\ worker' = [w \in Workers |-> Idle]
      BY <1>0, OpenedAnew
    <3>2. QED
      BY <3>1, WorkersExist DEF ChannelShape, Idle
  <2>3. MarkShape'
    <3>1. next' = 1 /\ pending' = {} /\ watermark' = 0 /\ handled' = {}
      BY <1>0, OpenedAnew
    <3>2. QED
      BY <3>1, FS_EmptySet DEF MarkShape
  <2>4. QED
    BY <2>1, <2>2, <2>3 DEF Shape
<1>2. (PoolIsHonest /\ SingleIsInOrder)'
  BY <1>0, OpenedAnew, WorkersExist DEF IInv, Shape, StoreShape, PoolIsHonest,
     SingleIsInOrder, Taken, Idle
<1>3. QED
  BY <1>1, <1>2 DEF IInv

(* What is below n is at most n - 1. *)
LEMMA BelowIsInRange == \A m, n \in Nat : \A i \in Nat : m <= i /\ i < n => i \in m .. n - 1
  OBVIOUS

(* Completion::complete returns a number past `next` such that all it passes   *)
(* over were done, and keeps no others than were done.                        *)
LEMMA AdvanceOfAPool ==
  ASSUME Shape, NEW seq \in Nat, Pooled, Advance(seq)
  PROVE  /\ next' \in Nat /\ 0 < next' /\ next <= next'
         /\ watermark' = next' - 1
         /\ \A i \in Nat : next <= i /\ i < next' => i \in pending \union {seq}
         /\ pending' \subseteq pending \union {seq}
         /\ IsFiniteSet(pending')
<1> DEFINE done == pending \union {seq}
<1>1. IsFiniteSet(done) /\ Cardinality(done) \in Nat /\ next \in Nat /\ 0 < next
  BY FS_AddElement, FS_CardinalityType DEF Shape, MarkShape
<1>2. /\ next' \in next .. next + Cardinality(done)
      /\ next .. next' - 1 \subseteq done
      /\ pending' = done \ (next .. next' - 1)
      /\ watermark' = next' - 1
  BY DEF Advance
<1>3. IsFiniteSet(pending') /\ pending' \subseteq done
  BY <1>1, <1>2, FS_Subset
<1>4. next' \in Nat /\ 0 < next' /\ next <= next'
  BY <1>1, <1>2
<1>5. \A i \in Nat : next <= i /\ i < next' => i \in done
  <2>1. \A i \in Nat : next <= i /\ i < next' => i \in next .. next' - 1
    BY <1>1, <1>4, BelowIsInRange
  <2>2. QED
    BY <1>2, <2>1
<1>6. QED
  BY <1>2, <1>3, <1>4, <1>5

(* A step that leaves the watermark's state alone keeps its shape.              *)
LEMMA MarksStay == ASSUME MarkShape, UNCHANGED <<next, pending, watermark, handled>>
                   PROVE MarkShape' /\ watermark <= watermark'
  BY DEF MarkShape

(* A commit changes the truth alone.                                          *)
LEMMA CommitIInv == ASSUME IInv, NEW r \in Write, Commit(r) PROVE IInv'
  BY DEF IInv, Commit, Shape, StoreShape, ChannelShape, MarkShape, PoolIsHonest,
     SingleIsInOrder, Taken, Pooled, chans, marks

(* Publishing appends the next record to the channel.                         *)
LEMMA PublishIInv == ASSUME IInv, BatchApplied \/ Publish PROVE IInv'
<1>1. CASE BatchApplied
  BY <1>1 DEF IInv, BatchApplied, Shape, StoreShape, ChannelShape, MarkShape, PoolIsHonest,
     SingleIsInOrder, Taken, Pooled, chans, marks
<1>2. CASE Publish
  <2>1. /\ publishing /\ published' = published + 1
        /\ chan' = Append(chan, published')
        /\ UNCHANGED <<mode, truth, jobs, turn, worker, next, pending, watermark, handled,
                       base, epoch>>
        /\ publishing' => published' < Len(truth)
    BY <1>2 DEF Publish, marks
  <2>2. Shape'
    <3>1. StoreShape'
      BY <2>1 DEF IInv, Shape, StoreShape
    <3>2. ChannelShape'
      BY <2>1 DEF IInv, Shape, StoreShape, ChannelShape
    <3>3. QED
      BY <2>1, <3>1, <3>2, MarksStay DEF IInv, Shape
  <2>3. PoolIsHonest'
    BY <2>1 DEF IInv, PoolIsHonest, Pooled
  <2>4. SingleIsInOrder'
    <3>1. /\ Taken' = Taken /\ Taken \in Int /\ DOMAIN chan' = 1 .. Len(chan) + 1
          /\ \A i \in 1 .. Len(chan) : chan'[i] = chan[i]
          /\ chan'[Len(chan) + 1] = Taken + Len(chan) + 1
      BY <2>1 DEF IInv, Shape, StoreShape, ChannelShape, Taken
    <3>2. ASSUME ~ Pooled, NEW i \in DOMAIN chan' PROVE chan'[i] = Taken' + i
      <4>1. DOMAIN chan = 1 .. Len(chan) /\ Len(chan) \in Nat
        BY DEF IInv, Shape, ChannelShape
      <4>2. QED
        BY <3>1, <3>2, <4>1 DEF IInv, SingleIsInOrder
    <3>3. QED
      BY <2>1, <3>1, <3>2 DEF IInv, SingleIsInOrder, Pooled
  <2>5. QED
    BY <2>2, <2>3, <2>4 DEF IInv
<1>3. QED
  BY <1>1, <1>2

(* Seeding touches neither channel nor watermark.                             *)
LEMMA RebuildIInv == ASSUME IInv, StartRebuild \/ Seed \/ EndRebuild PROVE IInv'
<1>1. UNCHANGED <<mode, truth, publishing, published, chan, jobs, turn, worker, next,
                  pending, watermark, handled, base, epoch>>
  BY DEF StartRebuild, Seed, EndRebuild, chans, marks
<1>2. Shape'
  BY <1>1, MarksStay DEF IInv, Shape, StoreShape, ChannelShape
<1>3. PoolIsHonest' /\ SingleIsInOrder'
  BY <1>1 DEF IInv, PoolIsHonest, SingleIsInOrder, Taken, Pooled
<1>4. QED
  BY <1>2, <1>3 DEF IInv

(* The dispatcher belongs to a pool and moves a record from channel to worker. *)
LEMMA DispatchIInv == ASSUME IInv, Dispatch PROVE IInv'
<1>1. UNCHANGED <<mode, truth, publishing, published, worker, next, pending, watermark,
                  handled, base, epoch>>
  BY DEF Dispatch, marks
<1>2. ChannelShape'
  <2>1. chan' \in Seq(Nat) /\ Head(chan) \in Nat
    BY DEF Dispatch, IInv, Shape, ChannelShape
  <2>2. jobs' \in [Workers -> Seq(Nat)]
    BY <2>1 DEF Dispatch, IInv, Shape, ChannelShape
  <2>3. turn' \in Workers
    <3>1. /\ turn \in Nat /\ mode.workers \in Nat \ {0} /\ mode.workers <= MaxWorkers
          /\ MaxWorkers \in Nat
      BY WorkersExist, MaterializerAssumption DEF IInv, Shape, StoreShape, ChannelShape
    <3>2. (turn + 1) % mode.workers \in 0 .. mode.workers - 1
      BY <3>1
    <3>3. QED
      BY <3>1, <3>2 DEF Dispatch, Workers
  <2>4. QED
    BY <1>1, <2>1, <2>2, <2>3 DEF IInv, Shape, ChannelShape
<1>3. Shape'
  BY <1>1, <1>2, MarksStay DEF IInv, Shape, StoreShape
<1>4. PoolIsHonest' /\ SingleIsInOrder'
  BY <1>1 DEF IInv, Dispatch, PoolIsHonest, SingleIsInOrder, Pooled
<1>5. QED
  BY <1>3, <1>4 DEF IInv

(* A worker takes the next record of its channel.                             *)
LEMMA TakeIInv == ASSUME IInv, NEW w \in Workers, Take(w) PROVE IInv'
<1> DEFINE source == IF Pooled THEN jobs[w] ELSE chan
<1>1. /\ source \in Seq(Nat) /\ source # <<>>
      /\ worker' = [worker EXCEPT ![w] = [at |-> "taken", seq |-> Head(source)]]
      /\ w < mode.workers /\ worker[w].at = "idle"
      /\ IF Pooled THEN jobs' = [jobs EXCEPT ![w] = Tail(@)] /\ chan' = chan
                   ELSE chan' = Tail(chan) /\ jobs' = jobs
      /\ UNCHANGED <<mode, truth, publishing, published, turn, next, pending, watermark,
                     handled, base, epoch>>
  BY DEF Take, marks, IInv, Shape, ChannelShape
<1>2. ChannelShape'
  <2>1. Head(source) \in Nat
    BY <1>1
  <2>2. worker' \in [Workers -> [at : {"idle", "taken", "applied"}, seq : Nat]]
    BY <1>1, <2>1 DEF IInv, Shape, ChannelShape
  <2>3. jobs' \in [Workers -> Seq(Nat)] /\ chan' \in Seq(Nat)
    <3>1. Tail(source) \in Seq(Nat)
      BY <1>1
    <3>2. QED
      BY <1>1, <3>1 DEF IInv, Shape, ChannelShape
  <2>4. QED
    BY <1>1, <2>2, <2>3 DEF IInv, Shape, ChannelShape
<1>3. Shape'
  BY <1>1, <1>2, MarksStay DEF IInv, Shape, StoreShape
<1>4. PoolIsHonest'
  BY <1>1, <1>2 DEF IInv, Shape, ChannelShape, PoolIsHonest, Pooled
<1>5. SingleIsInOrder'
  <2>1. CASE Pooled
    BY <1>1, <2>1 DEF SingleIsInOrder, Pooled
  <2>2. CASE ~ Pooled
    <3>1. w = 0 /\ mode.workers = 1
      BY <1>1, <2>2, WorkersExist DEF Pooled, IInv, Shape, StoreShape
    <3>2. /\ Len(chan) \in Nat \ {0} /\ Len(chan') = Len(chan) - 1
          /\ DOMAIN chan = 1 .. Len(chan) /\ DOMAIN chan' = 1 .. Len(chan) - 1
          /\ \A i \in DOMAIN chan' : chan'[i] = chan[i + 1]
          /\ Head(chan) = chan[1]
      BY <1>1, <2>2
    <3>3. Taken' = Taken + 1 /\ Taken \in Int
      BY <1>1, <3>2 DEF Taken, IInv, Shape, StoreShape
    <3>4. Head(chan) = Taken + 1
      BY <2>2, <3>2 DEF IInv, SingleIsInOrder
    <3>5. \A i \in DOMAIN chan' : chan'[i] = Taken' + i
      <4> SUFFICES ASSUME NEW i \in DOMAIN chan' PROVE chan'[i] = Taken' + i
        OBVIOUS
      <4>1. i \in Nat /\ i + 1 \in DOMAIN chan
        BY <3>2
      <4>2. chan[i + 1] = Taken + (i + 1)
        BY <2>2, <4>1 DEF IInv, SingleIsInOrder
      <4>3. QED
        BY <3>2, <3>3, <4>1, <4>2
    <3>6. /\ worker'[0].at = "taken" /\ worker'[0].seq = Taken'
          /\ \A v \in Workers \ {0} : worker'[v] = worker[v]
      BY <1>1, <2>2, <3>1, <3>3, <3>4, WorkersExist DEF IInv, Shape, ChannelShape
    <3>7. base \in Nat /\ watermark \in Nat
      BY DEF IInv, Shape, StoreShape, MarkShape
    <3>8. QED
      BY <1>1, <2>2, <3>1, <3>3, <3>5, <3>6, <3>7 DEF IInv, SingleIsInOrder, Pooled
  <2>3. QED
    BY <2>1, <2>2
<1>6. QED
  BY <1>3, <1>4, <1>5 DEF IInv

(* apply puts the record among those handled.                                *)
LEMMA ApplyIInv == ASSUME IInv, NEW w \in Workers, ApplyToIndex(w) PROVE IInv'
<1>1. Shape'
  BY DEF IInv, Shape, StoreShape, ChannelShape, MarkShape, ApplyToIndex, marks
<1>2. PoolIsHonest'
  BY DEF IInv, Shape, ChannelShape, ApplyToIndex, PoolIsHonest, Pooled, marks
<1>3. SingleIsInOrder'
  <2>1. CASE Pooled
    BY <2>1 DEF ApplyToIndex, SingleIsInOrder, Pooled
  <2>2. CASE ~ Pooled
    <3>1. w = 0 /\ worker[0].at = "taken" /\ worker[0].seq = Taken
      BY <2>2, WorkersExist DEF IInv, SingleIsInOrder, ApplyToIndex
    <3>2. /\ worker'[0].at = "applied" /\ worker'[0].seq = worker[0].seq
          /\ \A v \in Workers \ {0} : worker'[v] = worker[v]
          /\ handled' = handled \union {Taken}
      BY <3>1 DEF ApplyToIndex, IInv, Shape, ChannelShape
    <3>3. Taken' = Taken /\ Taken \in Int /\ base \in Nat
      BY DEF ApplyToIndex, Taken, IInv, Shape, StoreShape, ChannelShape
    <3>4. QED
      BY <2>2, <3>1, <3>2, <3>3 DEF IInv, ApplyToIndex, SingleIsInOrder, Pooled, marks
  <2>3. QED
    BY <2>1, <2>2
<1>4. QED
  BY <1>1, <1>2, <1>3 DEF IInv

(* Completing moves the watermark over records that were applied.             *)
LEMMA CompleteIInv == ASSUME IInv, NEW w \in Workers, Complete(w)
                      PROVE IInv' /\ watermark <= watermark'
<1>1. /\ worker[w].at = "applied" /\ worker[w].seq \in Nat /\ Advance(worker[w].seq)
      /\ worker' = [worker EXCEPT ![w] = Idle]
      /\ UNCHANGED <<mode, truth, publishing, published, chan, jobs, turn, handled, base,
                     epoch>>
  BY DEF IInv, Shape, ChannelShape, Complete
<1>2. StoreShape' /\ ChannelShape'
  BY <1>1 DEF IInv, Shape, StoreShape, ChannelShape, Idle
<1>3. CASE Pooled
  <2>1. /\ next' \in Nat /\ 0 < next' /\ next <= next'
        /\ watermark' = next' - 1
        /\ \A i \in Nat : next <= i /\ i < next' => i \in pending \union {worker[w].seq}
        /\ pending' \subseteq pending \union {worker[w].seq}
        /\ IsFiniteSet(pending')
    BY <1>1, <1>3, AdvanceOfAPool DEF IInv
  <2>2. MarkShape'
    <3>1. next' - 1 \in Nat
      BY <2>1
    <3>2. pending' \subseteq Nat /\ handled' \subseteq Nat
      BY <1>1, <2>1 DEF IInv, Shape, MarkShape
    <3>3. QED
      BY <2>1, <3>1, <3>2 DEF MarkShape
  <2>3. PoolIsHonest'
    <3>1. worker[w].seq \in handled /\ pending \subseteq handled
      BY <1>1, <1>3 DEF IInv, PoolIsHonest
    <3>2. \A i \in Nat : 1 <= i /\ i < next' => i \in handled'
      <4> SUFFICES ASSUME NEW i \in Nat, 1 <= i, i < next' PROVE i \in handled
        BY <1>1
      <4>1. CASE i < next
        BY <1>3, <4>1 DEF IInv, PoolIsHonest
      <4>2. CASE next <= i
        BY <2>1, <3>1, <4>2
      <4>3. QED
        BY <4>1, <4>2 DEF IInv, Shape, MarkShape
    <3>3. pending' \subseteq handled'
      BY <1>1, <2>1, <3>1
    <3>4. \A v \in Workers : worker'[v].at = "applied" => worker'[v].seq \in handled'
      BY <1>1, <1>3 DEF IInv, Shape, ChannelShape, PoolIsHonest, Idle
    <3>5. QED
      BY <2>1, <3>2, <3>3, <3>4 DEF PoolIsHonest
  <2>4. SingleIsInOrder'
    BY <1>1, <1>3 DEF SingleIsInOrder, Pooled
  <2>5. watermark <= watermark'
    <3>1. watermark = next - 1 /\ next \in Nat
      BY <1>3 DEF IInv, Shape, MarkShape, PoolIsHonest
    <3>2. next' \in Nat /\ next <= next' /\ watermark' = next' - 1
      BY <2>1
    <3>3. \A m, n \in Nat : m <= n => m - 1 <= n - 1
      OBVIOUS
    <3>4. QED
      BY <3>1, <3>2, <3>3
  <2>6. QED
    BY <1>2, <2>2, <2>3, <2>4, <2>5 DEF IInv, Shape
<1>4. CASE ~ Pooled
  <2>1. w = 0 /\ worker[0].seq = Taken /\ watermark < Taken /\ 0 \in Workers
    BY <1>1, <1>4, WorkersExist DEF IInv, SingleIsInOrder
  <2>2. watermark' = Taken /\ UNCHANGED <<next, pending>>
    BY <1>1, <1>4, <2>1 DEF Advance
  <2>3. Taken' = Taken /\ Taken \in Int /\ watermark \in Nat /\ base \in Nat
    BY <1>1 DEF Taken, IInv, Shape, StoreShape, ChannelShape, MarkShape
  <2>4. MarkShape' /\ watermark <= watermark'
    BY <1>1, <2>1, <2>2, <2>3 DEF IInv, Shape, MarkShape
  <2>5. \A v \in Workers : worker'[v].at = IF v = 0 THEN "idle" ELSE worker[v].at
    BY <1>1, <2>1 DEF IInv, Shape, ChannelShape, Idle
  <2>6. SingleIsInOrder'
    BY <1>1, <1>4, <2>1, <2>2, <2>3, <2>5 DEF IInv, SingleIsInOrder, Pooled
  <2>7. PoolIsHonest'
    BY <1>1, <1>4 DEF PoolIsHonest, Pooled
  <2>8. QED
    BY <1>2, <2>4, <2>6, <2>7 DEF IInv, Shape
<1>5. QED
  BY <1>3, <1>4

(* Every step keeps the invariant, and the watermark but when it opens anew.   *)
LEMMA StepIInv ==
  ASSUME IInv, AnyStep \/ UNCHANGED vars
  PROVE  IInv' /\ (epoch' = epoch => watermark <= watermark')
<1> DEFINE Kept == IInv' /\ watermark <= watermark'
<1>1. watermark' = watermark => watermark <= watermark'
  BY DEF IInv, Shape, MarkShape
<1>2. ASSUME NEW r \in Write, Commit(r) PROVE Kept
  <2>1. watermark' = watermark
    BY <1>2 DEF Commit, marks
  <2>2. QED
    BY <1>1, <1>2, <2>1, CommitIInv
<1>3. CASE BatchApplied \/ Publish
  <2>1. watermark' = watermark
    BY <1>3 DEF BatchApplied, Publish, marks
  <2>2. QED
    BY <1>1, <1>3, <2>1, PublishIInv
<1>4. CASE Dispatch
  <2>1. watermark' = watermark
    BY <1>4 DEF Dispatch, marks
  <2>2. QED
    BY <1>1, <1>4, <2>1, DispatchIInv
<1>5. ASSUME NEW w \in Workers, Work(w) PROVE Kept
  <2>1. Take(w) \/ ApplyToIndex(w) => watermark' = watermark
    BY DEF Take, ApplyToIndex, marks
  <2>2. QED
    BY <1>1, <1>5, <2>1, TakeIInv, ApplyIInv, CompleteIInv DEF Work
<1>6. CASE StartRebuild \/ Seed \/ EndRebuild
  <2>1. watermark' = watermark
    BY <1>6 DEF StartRebuild, Seed, EndRebuild, marks
  <2>2. QED
    BY <1>1, <1>6, <2>1, RebuildIInv
<1>7. CASE Opens
  <2>1. epoch' # epoch
    BY <1>7, OpenedAnew DEF IInv, Shape, StoreShape
  <2>2. QED
    BY <1>7, <2>1, ReopenIInv
<1>8. CASE UNCHANGED vars
  <2>1. watermark' = watermark
    BY <1>8 DEF vars
  <2>2. IInv'
    BY <1>8 DEF vars, IInv, Shape, StoreShape, ChannelShape, MarkShape, PoolIsHonest,
       SingleIsInOrder, Taken, Pooled
  <2>3. QED
    BY <1>1, <2>1, <2>2
<1>9. QED
  BY <1>2, <1>3, <1>4, <1>5, <1>6, <1>7, <1>8 DEF AnyStep, Internal, Running

(* The invariant contains what the watermark promises, pool or not.            *)
LEMMA HonestFromIInv == IInv => WatermarkIsHonest
<1> SUFFICES ASSUME IInv, NEW i \in base + 1 .. watermark PROVE i \in handled
  BY DEF WatermarkIsHonest
<1>1. i \in Nat /\ base \in Nat /\ base < i /\ i <= watermark /\ watermark \in Nat
  BY DEF IInv, Shape, StoreShape, MarkShape
<1>2. CASE Pooled
  BY <1>1, <1>2 DEF IInv, Shape, MarkShape, PoolIsHonest
<1>3. CASE ~ Pooled
  <2>1. Taken \in Int
    BY DEF Taken, IInv, Shape, StoreShape, ChannelShape
  <2>2. QED
    BY <1>1, <1>3, <2>1 DEF IInv, SingleIsInOrder
<1>4. QED
  BY <1>2, <1>3

-----------------------------------------------------------------------------
(* Where the records are *)

(* What was published in this opening. *)
Handed == base + 1 .. published

(* Channel, queues and workers hold records published in this opening, and only  *)
(* such records were applied.                                                *)
Places ==
  /\ chan \in Seq(Handed)
  /\ jobs \in [Workers -> Seq(Handed)]
  /\ worker \in [Workers -> [at : {"taken", "applied"}, seq : Handed] \union {Idle}]
  /\ handled \subseteq Handed
  /\ \A w \in Workers : worker[w].at = "applied" => worker[w].seq \in handled

(* What the index, the seeding and the bounds are. *)
Rest ==
  /\ open \in BOOLEAN /\ publishing \in BOOLEAN
  /\ Len(truth) <= MaxCommits
  /\ epoch \in 1 .. MaxEpochs
  /\ index \in [Sids -> 0 .. Len(truth)]
  /\ seeds \in Seq(1 .. Len(truth))
  /\ rebuild \in {"due", "running", "done"}
  /\ rebuild # "running" => seeds = <<>>
  /\ ~ Pooled => next = 1 /\ pending = {}

(* The numbers of a range are those between its ends. *)
LEMMA InHanded ==
  ASSUME StoreShape
  PROVE  /\ \A i : i \in Handed <=> i \in Nat /\ base < i /\ i <= published
         /\ Handed \subseteq 1 .. Len(truth)
  BY DEF StoreShape, Handed

(* A sequence over a set is one over a larger set. *)
LEMMA SeqWidens == ASSUME NEW S, NEW T, S \subseteq T PROVE Seq(S) \subseteq Seq(T)
<1> SUFFICES ASSUME NEW q \in Seq(S) PROVE q \in Seq(T)
  OBVIOUS
<1>1. q \in [1 .. Len(q) -> S] /\ Len(q) \in Nat
  OBVIOUS
<1>2. q \in [1 .. Len(q) -> T]
  BY <1>1
<1>3. QED
  BY <1>1, <1>2

(* Publishing widens what was handed. *)
LEMMA PlacesWiden ==
  ASSUME Places, NEW T, Handed \subseteq T
  PROVE  /\ chan \in Seq(T)
         /\ jobs \in [Workers -> Seq(T)]
         /\ worker \in [Workers -> [at : {"taken", "applied"}, seq : T] \union {Idle}]
         /\ handled \subseteq T
<1>1. Seq(Handed) \subseteq Seq(T)
  BY SeqWidens
<1>2. [at : {"taken", "applied"}, seq : Handed] \subseteq [at : {"taken", "applied"}, seq : T]
  OBVIOUS
<1> HIDE DEF Handed
<1>3. chan \in Seq(T) /\ handled \subseteq T
  BY <1>1 DEF Places
<1>4. jobs \in [Workers -> Seq(T)]
  BY <1>1 DEF Places
<1>5. worker \in [Workers -> [at : {"taken", "applied"}, seq : T] \union {Idle}]
  BY <1>2 DEF Places
<1>6. QED
  BY <1>3, <1>4, <1>5

(* Records move between channel, queues and workers, and come from publishing.    *)
LEMMA PlacesStep == ASSUME IInv, Places, AnyStep \/ UNCHANGED vars PROVE Places'
<1> USE DEF chans, marks
<1>1. CASE (\E r \in Write : Commit(r)) \/ BatchApplied \/ StartRebuild \/ Seed
           \/ EndRebuild \/ UNCHANGED vars
  <2>1. UNCHANGED <<published, base, chan, jobs, worker, handled>>
    BY <1>1 DEF Commit, BatchApplied, StartRebuild, Seed, EndRebuild, vars
  <2>2. QED
    BY <2>1 DEF Places, Handed
<1>2. CASE Publish
  <2>1. /\ published' = published + 1 /\ chan' = Append(chan, published')
        /\ UNCHANGED <<base, jobs, worker, handled>>
    BY <1>2 DEF Publish
  <2>2. Handed \subseteq Handed' /\ published' \in Handed'
    BY <2>1 DEF IInv, Shape, StoreShape, Handed
  <2>3. /\ chan \in Seq(Handed') /\ jobs \in [Workers -> Seq(Handed')]
        /\ worker \in [Workers -> [at : {"taken", "applied"}, seq : Handed'] \union {Idle}]
        /\ handled \subseteq Handed'
    BY <2>2, PlacesWiden
  <2>4. chan' \in Seq(Handed')
    BY <2>1, <2>2, <2>3
  <2>5. QED
    BY <2>1, <2>3, <2>4 DEF Places
<1>3. CASE Dispatch
  <2>1. Head(chan) \in Handed /\ chan' \in Seq(Handed)
    BY <1>3 DEF Dispatch, Places
  <2>2. jobs' \in [Workers -> Seq(Handed)]
    <3>1. turn \in Workers /\ jobs' = [jobs EXCEPT ![turn] = Append(@, Head(chan))]
      BY <1>3 DEF Dispatch, IInv, Shape, ChannelShape
    <3>2. Append(jobs[turn], Head(chan)) \in Seq(Handed)
      BY <2>1, <3>1 DEF Places
    <3>3. QED
      BY <3>1, <3>2 DEF Places
  <2>3. UNCHANGED <<published, base, worker, handled>>
    BY <1>3 DEF Dispatch
  <2>4. QED
    BY <2>1, <2>2, <2>3 DEF Places, Handed
<1>4. ASSUME NEW w \in Workers, Take(w) PROVE Places'
  <2> DEFINE source == IF Pooled THEN jobs[w] ELSE chan
  <2>1. source \in Seq(Handed) /\ source # <<>>
    BY <1>4 DEF Take, Places
  <2>2. Head(source) \in Handed /\ Tail(source) \in Seq(Handed)
    BY <2>1
  <2>3. /\ worker' = [worker EXCEPT ![w] = [at |-> "taken", seq |-> Head(source)]]
        /\ IF Pooled THEN jobs' = [jobs EXCEPT ![w] = Tail(source)] /\ chan' = chan
                     ELSE chan' = Tail(source) /\ jobs' = jobs
        /\ UNCHANGED <<published, base, handled>>
    BY <1>4 DEF Take
  <2> HIDE DEF source
  <2>4. chan' \in Seq(Handed) /\ jobs' \in [Workers -> Seq(Handed)]
    BY <2>2, <2>3 DEF Places
  <2>5. worker' \in [Workers -> [at : {"taken", "applied"}, seq : Handed] \union {Idle}]
    BY <2>2, <2>3 DEF Places
  <2>6. \A v \in Workers : worker'[v].at = "applied" => worker'[v].seq \in handled
    BY <2>3 DEF Places
  <2>7. QED
    BY <2>3, <2>4, <2>5, <2>6 DEF Places, Handed
<1>5. ASSUME NEW w \in Workers, ApplyToIndex(w) PROVE Places'
  <2>1. /\ worker[w].at = "taken" /\ handled' = handled \union {worker[w].seq}
        /\ worker' = [worker EXCEPT ![w].at = "applied"]
        /\ UNCHANGED <<published, base, chan, jobs>>
    BY <1>5 DEF ApplyToIndex
  <2>2. worker[w] \in [at : {"taken", "applied"}, seq : Handed]
    BY <2>1 DEF Places, Idle
  <2>3. worker' \in [Workers -> [at : {"taken", "applied"}, seq : Handed] \union {Idle}]
    BY <2>1, <2>2 DEF Places
  <2>4. \A v \in Workers : worker'[v].at = "applied" => worker'[v].seq \in handled'
    BY <2>1, <2>2 DEF Places
  <2>5. QED
    BY <2>1, <2>2, <2>3, <2>4 DEF Places, Handed
<1>6. ASSUME NEW w \in Workers, Complete(w) PROVE Places'
  <2>1. /\ worker' = [worker EXCEPT ![w] = Idle]
        /\ UNCHANGED <<published, base, chan, jobs, handled>>
    BY <1>6 DEF Complete
  <2>2. \A v \in Workers : worker'[v].at = "applied" => worker'[v].seq \in handled
    BY <2>1 DEF Places, Idle
  <2>3. QED
    BY <2>1, <2>2 DEF Places, Handed
<1>7. CASE Opens
  <2>1. /\ chan' = <<>> /\ jobs' = [w \in Workers |-> <<>>]
        /\ worker' = [w \in Workers |-> Idle] /\ handled' = {}
    BY <1>7, OpenedAnew DEF IInv, Shape, StoreShape
  <2>2. QED
    BY <2>1 DEF Places, Idle
<1>8. QED
  BY <1>1, <1>2, <1>3, <1>4, <1>5, <1>6, <1>7 DEF AnyStep, Internal, Running, Work


(* The newest version of a grain is one of its versions. *)
LEMMA NewestOf ==
  ASSUME truth \in Seq(Write)
  PROVE  \A s, p : Of(s, p) # {} =>
           Max(Of(s, p)) \in Of(s, p) /\ \A j \in Of(s, p) : j <= Max(Of(s, p))
<1> SUFFICES ASSUME NEW s, NEW p, Of(s, p) # {}
             PROVE  Max(Of(s, p)) \in Of(s, p) /\ \A j \in Of(s, p) : j <= Max(Of(s, p))
  OBVIOUS
<1>1. Of(s, p) \in SUBSET (1 .. Len(truth)) /\ Len(truth) \in Nat
  BY DEF Of
<1>2. QED
  BY <1>1, MaxIsGreatest

(* What a scan returns are commits, each the newest of its grain. *)
LEMMA LiveIsNewest ==
  ASSUME truth \in Seq(Write)
  PROVE  /\ Live \subseteq 1 .. Len(truth)
         /\ \A i \in Live : \A j \in Of(truth[i].sid, truth[i].pred) : j <= i
<1>1. ASSUME NEW i \in Live
      PROVE  i \in 1 .. Len(truth) /\ \A j \in Of(truth[i].sid, truth[i].pred) : j <= i
  <2>1. PICK h \in Sids \X Preds : Of(h[1], h[2]) # {} /\ i = Max(Of(h[1], h[2]))
    BY DEF Live
  <2>2. i \in Of(h[1], h[2]) /\ \A j \in Of(h[1], h[2]) : j <= i
    BY <2>1, NewestOf
  <2>3. i \in DOMAIN truth /\ truth[i].sid = h[1] /\ truth[i].pred = h[2]
    BY <2>2 DEF Of
  <2>4. QED
    BY <2>2, <2>3
<1>2. QED
  BY <1>1

(* The newest version of a grain is scanned unless it is a deletion. *)
LEMMA NewestIsLive ==
  ASSUME truth \in Seq(Write), NEW i \in DOMAIN truth, truth[i].kind # "delete",
         \A j \in Of(truth[i].sid, truth[i].pred) : j <= i
  PROVE  i \in Live
<1> DEFINE s == truth[i].sid
           p == truth[i].pred
<1>1. truth[i] \in Write
  OBVIOUS
<1>2. <<s, p>> \in Sids \X Preds
  BY <1>1 DEF Write
<1>3. i \in Of(s, p)
  BY DEF Of
<1>4. Max(Of(s, p)) \in Of(s, p) /\ i <= Max(Of(s, p)) /\ Max(Of(s, p)) <= i
  BY <1>3, NewestOf
<1>5. Max(Of(s, p)) = i
  <2>1. i \in Nat /\ Max(Of(s, p)) \in Nat
    BY <1>4 DEF Of
  <2>2. QED
    BY <1>4, <2>1
<1>6. PICK h \in Sids \X Preds : h[1] = s /\ h[2] = p
  BY <1>2
<1>7. i = Max(Of(h[1], h[2])) /\ Of(h[1], h[2]) # {}
  BY <1>3, <1>5, <1>6
<1>8. QED
  BY <1>7 DEF Live

(* A scan is a sequence of what is live and leaves nothing of it out. *)
LEMMA ScanIsLive ==
  ASSUME truth \in Seq(Write), NEW q \in LiveScan
  PROVE  q \in Seq(1 .. Len(truth)) /\ \A i : (\E k \in DOMAIN q : q[k] = i) <=> i \in Live
<1>1. Live \subseteq 1 .. Len(truth) /\ Len(truth) \in Nat
  BY LiveIsNewest
<1>2. IsFiniteSet(Live) /\ Cardinality(Live) \in Nat
  <2>1. IsFiniteSet(1 .. Len(truth))
    BY <1>1, FS_Interval
  <2>2. IsFiniteSet(Live)
    BY <1>1, <2>1, FS_Subset
  <2>3. QED
    BY <2>2, FS_CardinalityType
<1>3. q \in [1 .. Cardinality(Live) -> Live] /\ ToSet(q) = Live
  BY DEF LiveScan
<1>4. q \in Seq(1 .. Len(truth))
  <2>1. q \in [1 .. Cardinality(Live) -> 1 .. Len(truth)]
    BY <1>1, <1>3
  <2>2. QED
    BY <1>2, <2>1
<1>5. QED
  BY <1>3, <1>4 DEF ToSet

LEMMA RestStep ==
  ASSUME IInv, Places, Rest, AnyStep \/ UNCHANGED vars PROVE Rest'
<1> USE DEF chans, marks
<1>0. truth \in Seq(Write) /\ Len(truth) \in Nat /\ Handed \subseteq 1 .. Len(truth)
  BY InHanded DEF IInv, Shape, StoreShape
<1>1. ASSUME NEW r \in Write, Commit(r) PROVE Rest'
  <2>1. /\ truth' = Append(truth, r) /\ Len(truth) < MaxCommits
        /\ UNCHANGED <<mode, open, publishing, next, pending, index, seeds, rebuild, epoch>>
    BY <1>1 DEF Commit
  <2>2. Len(truth') = Len(truth) + 1 /\ Len(truth') <= MaxCommits
    BY <1>0, <2>1, MaterializerAssumption
  <2>3. 0 .. Len(truth) \subseteq 0 .. Len(truth') /\ 1 .. Len(truth) \subseteq 1 .. Len(truth')
    BY <1>0, <2>2
  <2>4. index \in [Sids -> 0 .. Len(truth')]
    BY <2>3 DEF Rest
  <2>5. seeds \in Seq(1 .. Len(truth'))
    BY <2>3, SeqWidens DEF Rest
  <2>6. QED
    BY <2>1, <2>2, <2>4, <2>5 DEF Rest, Pooled
<1>2. CASE BatchApplied \/ Publish \/ Dispatch \/ UNCHANGED vars
  <2>1. UNCHANGED <<mode, open, truth, next, pending, index, seeds, rebuild, epoch>>
    BY <1>2 DEF BatchApplied, Publish, Dispatch, vars
  <2>2. publishing' \in BOOLEAN
    <3>1. publishing' = publishing \/ publishing' = TRUE \/ publishing' = (published' < Len(truth))
      BY <1>2 DEF BatchApplied, Publish, Dispatch, vars
    <3>2. (published' < Len(truth)) \in BOOLEAN
      OBVIOUS
    <3>3. QED
      BY <3>1, <3>2, Zenon DEF Rest
  <2>3. QED
    BY <2>1, <2>2 DEF Rest, Pooled
<1>3. ASSUME NEW w \in Workers, Take(w) PROVE Rest'
  BY <1>3 DEF Take, Rest, Pooled
<1>4. ASSUME NEW w \in Workers, ApplyToIndex(w) PROVE Rest'
  <2>1. /\ worker[w].at = "taken"
        /\ index' = [index EXCEPT ![truth[worker[w].seq].sid] = VectorOf(worker[w].seq, @)]
        /\ UNCHANGED <<mode, open, publishing, truth, next, pending, seeds, rebuild, epoch>>
    BY <1>4 DEF ApplyToIndex
  <2>2. worker[w].seq \in 1 .. Len(truth)
    BY <1>0, <2>1 DEF Places, Idle
  <2>3. \A o : VectorOf(worker[w].seq, o) \in 0 .. Len(truth)
    BY <1>0, <2>2 DEF VectorOf
  <2>4. index' \in [Sids -> 0 .. Len(truth)]
    BY <2>1, <2>3 DEF Rest
  <2>5. QED
    BY <2>1, <2>4 DEF Rest, Pooled
<1>5. ASSUME NEW w \in Workers, Complete(w) PROVE Rest'
  <2>1. /\ Advance(worker[w].seq)
        /\ UNCHANGED <<mode, open, publishing, truth, index, seeds, rebuild, epoch>>
    BY <1>5 DEF Complete
  <2>2. ~ Pooled => UNCHANGED <<next, pending>>
    BY <2>1 DEF Advance
  <2>3. QED
    BY <2>1, <2>2 DEF Rest, Pooled
<1>6. CASE StartRebuild
  <2>1. /\ seeds' \in LiveScan /\ rebuild' = "running"
        /\ UNCHANGED <<mode, open, publishing, truth, next, pending, index, epoch>>
    BY <1>6 DEF StartRebuild
  <2>2. seeds' \in Seq(1 .. Len(truth))
    BY <1>0, <2>1, ScanIsLive
  <2>3. QED
    BY <2>1, <2>2 DEF Rest, Pooled
<1>7. CASE Seed
  <2>1. /\ rebuild = "running" /\ seeds # <<>> /\ seeds' = Tail(seeds)
        /\ index' = IF truth[Head(seeds)].kind = "put"
                    THEN [index EXCEPT ![truth[Head(seeds)].sid] = Head(seeds)] ELSE index
        /\ UNCHANGED <<mode, open, publishing, truth, next, pending, rebuild, epoch>>
    BY <1>7 DEF Seed
  <2>2. Head(seeds) \in 1 .. Len(truth) /\ Tail(seeds) \in Seq(1 .. Len(truth))
    BY <2>1 DEF Rest
  <2>3. index' \in [Sids -> 0 .. Len(truth)]
    <3>1. Head(seeds) \in 0 .. Len(truth)
      BY <2>2
    <3>2. QED
      BY <2>1, <3>1 DEF Rest
  <2>4. QED
    BY <2>1, <2>2, <2>3 DEF Rest, Pooled
<1>8. CASE EndRebuild
  BY <1>8 DEF EndRebuild, Rest, Pooled
<1>9. CASE Opens
  <2>1. /\ epoch < MaxEpochs /\ epoch' = epoch + 1 /\ mode' \in Modes
        /\ open' = mode'.late /\ publishing' = FALSE
        /\ next' = 1 /\ pending' = {} /\ index' = NoVectors /\ seeds' = <<>>
        /\ rebuild' = "due" /\ truth' \in Seq(Write) /\ Len(truth') <= MaxCommits
    BY <1>0, <1>9, OpenedAnew
  <2>2. open' \in BOOLEAN
    BY <2>1, MaterializerAssumption
  <2>3. epoch' \in 1 .. MaxEpochs
    BY <2>1, MaterializerAssumption DEF Rest
  <2>4. index' \in [Sids -> 0 .. Len(truth')] /\ seeds' \in Seq(1 .. Len(truth'))
    BY <2>1 DEF NoVectors
  <2>5. QED
    BY <2>1, <2>2, <2>3, <2>4 DEF Rest, Pooled
<1>10. QED
  BY <1>1, <1>2, <1>3, <1>4, <1>5, <1>6, <1>7, <1>8, <1>9 DEF AnyStep, Internal, Running, Work

(* The types follow: what `next` passed over was handled, hence published.       *)
LEMMA TypesFromParts == IInv /\ Places /\ Rest => TypeOK
<1> SUFFICES ASSUME IInv, Places, Rest PROVE TypeOK
  OBVIOUS
<1>1. /\ Handed \subseteq 1 .. Len(truth) /\ Len(truth) \in Nat
      /\ published \in 0 .. Len(truth) /\ base \in 0 .. Len(truth)
  BY InHanded DEF IInv, Shape, StoreShape
<1>2. /\ chan \in Seq(1 .. Len(truth)) /\ jobs \in [Workers -> Seq(1 .. Len(truth))]
      /\ handled \subseteq 1 .. Len(truth)
      /\ worker \in [Workers -> [at : {"taken", "applied"}, seq : 1 .. Len(truth)]
                                \union {Idle}]
  BY <1>1, PlacesWiden
<1>3. worker \in [Workers -> [at : {"idle", "taken", "applied"}, seq : 0 .. Len(truth)]]
  BY <1>1, <1>2 DEF Idle
<1>4. next \in 1 .. Len(truth) + 1 /\ pending \subseteq 1 .. Len(truth)
      /\ watermark \in 0 .. Len(truth)
  <2>1. next \in Nat /\ 0 < next /\ watermark \in Nat
    BY DEF IInv, Shape, MarkShape
  <2>2. CASE Pooled
    <3>1. watermark = next - 1 /\ pending \subseteq handled
      BY <2>2 DEF IInv, PoolIsHonest
    <3>2. next = 1 \/ next - 1 \in handled
      <4>1. next # 1 => next - 1 \in Nat /\ 1 <= next - 1 /\ next - 1 < next
        BY <2>1
      <4>2. QED
        BY <2>2, <4>1 DEF IInv, PoolIsHonest
    <3>3. next = 1 \/ next - 1 \in 1 .. Len(truth)
      BY <1>2, <3>2
    <3>4. next \in 1 .. Len(truth) + 1 /\ watermark \in 0 .. Len(truth)
      BY <1>1, <2>1, <3>1, <3>3
    <3>5. QED
      BY <1>2, <3>1, <3>4
  <2>3. CASE ~ Pooled
    <3>1. next = 1 /\ pending = {} /\ watermark <= Taken
      BY <2>3 DEF Rest, IInv, SingleIsInOrder
    <3>2. Taken \in Int /\ Taken <= published
      BY DEF Taken, IInv, Shape, StoreShape, ChannelShape
    <3>3. QED
      BY <1>1, <2>1, <3>1, <3>2
  <2>4. QED
    BY <2>2, <2>3
<1>5. QED
  BY <1>1, <1>2, <1>3, <1>4 DEF TypeOK, Rest, IInv, Shape, StoreShape, ChannelShape

-----------------------------------------------------------------------------
(* No record is lost on its way to the index *)

Waits(q, i) == \E k \in DOMAIN q : q[k] = i

(* A record is in the channel, in a queue, with a worker or applied.              *)
Found(i) ==
  \/ i \in handled
  \/ Waits(chan, i)
  \/ \E w \in Workers : Waits(jobs[w], i)
  \/ \E w \in Workers : worker[w].at = "taken" /\ worker[w].seq = i

NothingIsLost == \A i \in Handed : Found(i)

(* What waits in a queue is its head or waits in its tail. *)
LEMMA TailWaits ==
  ASSUME NEW S, NEW q \in Seq(S), q # <<>>, NEW i, Waits(q, i)
  PROVE  i = Head(q) \/ Waits(Tail(q), i)
<1>1. PICK k \in DOMAIN q : q[k] = i
  BY DEF Waits
<1>2. /\ Len(q) \in Nat /\ k \in 1 .. Len(q)
      /\ DOMAIN Tail(q) = 1 .. Len(q) - 1
      /\ \A m \in 1 .. Len(q) - 1 : Tail(q)[m] = q[m + 1]
      /\ Head(q) = q[1]
  OBVIOUS
<1>3. CASE k = 1
  BY <1>1, <1>2, <1>3
<1>4. CASE k # 1
  <2>1. k - 1 \in 1 .. Len(q) - 1 /\ (k - 1) + 1 = k
    BY <1>2, <1>4
  <2>2. Tail(q)[k - 1] = i
    BY <1>1, <1>2, <2>1
  <2>3. QED
    BY <1>2, <2>1, <2>2 DEF Waits
<1>5. QED
  BY <1>3, <1>4

(* Appending makes one more wait. *)
LEMMA AppendWaits ==
  ASSUME NEW S, NEW q \in Seq(S), NEW e
  PROVE  Waits(Append(q, e), e) /\ \A i : Waits(q, i) => Waits(Append(q, e), i)
<1>1. /\ Len(q) \in Nat /\ DOMAIN q = 1 .. Len(q) /\ DOMAIN Append(q, e) = 1 .. Len(q) + 1
      /\ Append(q, e)[Len(q) + 1] = e
      /\ \A k \in 1 .. Len(q) : Append(q, e)[k] = q[k]
  OBVIOUS
<1>2. Len(q) + 1 \in 1 .. Len(q) + 1 /\ 1 .. Len(q) \subseteq 1 .. Len(q) + 1
  BY <1>1
<1>3. QED
  BY <1>1, <1>2 DEF Waits

(* Publishing puts a record in the channel; the dispatcher, a worker and apply hand *)
(* it on, whichever records they have and in whatever order they come.           *)
LEMMA NothingIsLostStep ==
  ASSUME IInv, Places, NothingIsLost, AnyStep \/ UNCHANGED vars PROVE NothingIsLost'
<1> USE DEF chans, marks
<1>1. CASE (\E r \in Write : Commit(r)) \/ BatchApplied \/ StartRebuild \/ Seed
           \/ EndRebuild \/ UNCHANGED vars
  <2>1. UNCHANGED <<published, base, chan, jobs, worker, handled>>
    BY <1>1 DEF Commit, BatchApplied, StartRebuild, Seed, EndRebuild, vars
  <2>2. QED
    BY <2>1 DEF NothingIsLost, Handed, Found
<1>2. CASE Publish
  <2>1. /\ published' = published + 1 /\ chan' = Append(chan, published')
        /\ UNCHANGED <<base, jobs, worker, handled>>
    BY <1>2 DEF Publish
  <2>2. \A i \in Handed' : i \in Handed \/ i = published'
    BY <2>1 DEF IInv, Shape, StoreShape, Handed
  <2>3. Waits(chan', published') /\ \A i : Waits(chan, i) => Waits(chan', i)
    BY <2>1, AppendWaits DEF Places
  <2>4. QED
    BY <2>1, <2>2, <2>3 DEF NothingIsLost, Found
<1>3. CASE Dispatch
  <2>1. /\ chan # <<>> /\ chan' = Tail(chan) /\ turn \in Workers
        /\ jobs' = [jobs EXCEPT ![turn] = Append(@, Head(chan))]
        /\ UNCHANGED <<published, base, worker, handled>>
    BY <1>3 DEF Dispatch, IInv, Shape, ChannelShape
  <2>2. \A i : Waits(chan, i) => i = Head(chan) \/ Waits(chan', i)
    BY <2>1, TailWaits DEF Places
  <2>3. jobs[turn] \in Seq(Handed)
    BY <2>1 DEF Places
  <2>4. /\ Waits(Append(jobs[turn], Head(chan)), Head(chan))
        /\ \A i : Waits(jobs[turn], i) => Waits(Append(jobs[turn], Head(chan)), i)
    BY <2>3, AppendWaits
  <2>5. \A w \in Workers : jobs'[w] = IF w = turn THEN Append(jobs[turn], Head(chan)) ELSE jobs[w]
    BY <2>1 DEF Places
  <2>6. /\ \A i : (\E w \in Workers : Waits(jobs[w], i)) => \E w \in Workers : Waits(jobs'[w], i)
        /\ \E w \in Workers : Waits(jobs'[w], Head(chan))
    BY <2>1, <2>4, <2>5
  <2>7. QED
    BY <2>1, <2>2, <2>6 DEF NothingIsLost, Found, Handed
<1>4. ASSUME NEW w \in Workers, Take(w) PROVE NothingIsLost'
  <2> DEFINE source == IF Pooled THEN jobs[w] ELSE chan
  <2>1. /\ source # <<>> /\ worker[w].at = "idle" /\ source \in Seq(Handed)
        /\ worker' = [worker EXCEPT ![w] = [at |-> "taken", seq |-> Head(source)]]
        /\ IF Pooled THEN jobs' = [jobs EXCEPT ![w] = Tail(source)] /\ chan' = chan
                     ELSE chan' = Tail(source) /\ jobs' = jobs
        /\ UNCHANGED <<published, base, handled>>
    BY <1>4 DEF Take, Places
  <2>2. \A i : Waits(source, i) => i = Head(source) \/ Waits(Tail(source), i)
    BY <2>1, TailWaits
  <2>3. worker'[w].at = "taken" /\ worker'[w].seq = Head(source)
    BY <2>1 DEF Places
  <2>4. \A v \in Workers : worker[v].at = "taken" => worker'[v] = worker[v]
    BY <2>1 DEF Places
  <2>5. \A v \in Workers : v # w => jobs'[v] = jobs[v]
    BY <2>1 DEF Places
  <2>6. IF Pooled THEN source = jobs[w] /\ jobs'[w] = Tail(source) ELSE source = chan
    BY <2>1 DEF Places
  <2> HIDE DEF source
  <2>7. \A i : Waits(chan, i) => Waits(chan', i) \/ i = Head(source)
    BY <2>1, <2>2, <2>6
  <2>8. \A i : (\E v \in Workers : Waits(jobs[v], i))
               => (\E v \in Workers : Waits(jobs'[v], i)) \/ i = Head(source)
    BY <2>1, <2>2, <2>5, <2>6
  <2>9. ASSUME NEW i \in Handed PROVE Found(i)'
    <3>1. Found(i) /\ handled' = handled
      BY <2>1 DEF NothingIsLost
    <3>2. CASE Waits(chan, i) \/ (\E v \in Workers : Waits(jobs[v], i))
      <4>1. \/ Waits(chan', i) \/ i = Head(source)
            \/ \E v \in Workers : Waits(jobs'[v], i)
        BY <2>7, <2>8, <3>2
      <4>2. QED
        BY <2>3, <4>1 DEF Found
    <3>3. QED
      BY <2>4, <3>1, <3>2 DEF Found
  <2>10. QED
    BY <2>1, <2>9 DEF NothingIsLost, Handed
<1>5. ASSUME NEW w \in Workers, ApplyToIndex(w) PROVE NothingIsLost'
  <2>1. /\ worker[w].at = "taken" /\ handled' = handled \union {worker[w].seq}
        /\ worker' = [worker EXCEPT ![w].at = "applied"]
        /\ UNCHANGED <<published, base, chan, jobs>>
    BY <1>5 DEF ApplyToIndex
  <2>2. \A v \in Workers : v # w => worker'[v] = worker[v]
    BY <2>1 DEF Places
  <2>3. QED
    BY <2>1, <2>2 DEF NothingIsLost, Found, Handed
<1>6. ASSUME NEW w \in Workers, Complete(w) PROVE NothingIsLost'
  <2>1. /\ worker[w].at = "applied" /\ worker' = [worker EXCEPT ![w] = Idle]
        /\ UNCHANGED <<published, base, chan, jobs, handled>>
    BY <1>6 DEF Complete
  <2>2. \A v \in Workers : worker[v].at = "taken" => worker'[v] = worker[v]
    BY <2>1 DEF Places
  <2>3. QED
    BY <2>1, <2>2 DEF NothingIsLost, Found, Handed
<1>7. CASE Opens
  <2>1. base' = published' /\ base' \in Nat /\ published' \in Nat
    BY <1>7, OpenedAnew DEF IInv, Shape, StoreShape
  <2>2. Handed' = base' + 1 .. base'
    BY <2>1 DEF Handed
  <2>3. \A n \in Nat : n + 1 .. n = {}
    OBVIOUS
  <2>4. Handed' = {}
    BY <2>1, <2>2, <2>3
  <2>5. QED
    BY <2>4 DEF NothingIsLost
<1>8. QED
  BY <1>1, <1>2, <1>3, <1>4, <1>5, <1>6, <1>7 DEF AnyStep, Internal, Running, Work

-----------------------------------------------------------------------------
(* What the index holds *)

(* A vector in the index is that of a write of its subject. *)
IndexIsOfSubjects ==
  \A s \in Sids :
    index[s] # 0 => truth[index[s]].sid = s /\ truth[index[s]].kind = "put"

(* No other commit has the subject of i. *)
Sole(i) == \A j \in DOMAIN truth : truth[j].sid = truth[i].sid => j = i

(* Once applied it stays in the index; once the rebuild runs, it is in the index   *)
(* or about to be seeded, if it was there when the store was opened.              *)
Stays(i) ==
  /\ i \in handled => index[truth[i].sid] = i
  /\ i <= base /\ rebuild # "due" => index[truth[i].sid] = i \/ Waits(seeds, i)

SolesAreIndexed ==
  \A i \in DOMAIN truth : Sole(i) /\ truth[i].kind = "put" => Stays(i)

(* A store that does not open before it is seeded has no commits of this opening. *)
OpensSeeded == ~ mode.late /\ ~ Seeded => ~ open /\ base = Len(truth)

IndexInv == IndexIsOfSubjects /\ SolesAreIndexed /\ OpensSeeded

(* A commit is of a subject. *)
LEMMA SidOf == ASSUME truth \in Seq(Write) PROVE \A i \in DOMAIN truth : truth[i].sid \in Sids
<1> SUFFICES ASSUME NEW i \in DOMAIN truth PROVE truth[i].sid \in Sids
  OBVIOUS
<1>1. truth[i] \in Write
  OBVIOUS
<1>2. QED
  BY <1>1 DEF Write

(* What apply does to the index. *)
LEMMA Applies ==
  ASSUME IInv, Places, Rest, NEW w \in Workers, ApplyToIndex(w)
  PROVE  \E j \in Handed :
           /\ worker[w].at = "taken" /\ worker[w].seq = j
           /\ j \in DOMAIN truth /\ truth[j].sid \in Sids
           /\ handled' = handled \union {j}
           /\ index' \in [Sids -> 0 .. Len(truth)]
           /\ \A s \in Sids : index'[s] =
                IF s = truth[j].sid THEN IF truth[j].kind = "put" THEN j ELSE 0 ELSE index[s]
<1> DEFINE j == worker[w].seq
<1>1. /\ worker[w].at = "taken" /\ handled' = handled \union {j} /\ truth \in Seq(Write)
      /\ index' = [index EXCEPT ![truth[j].sid] = VectorOf(j, @)]
  BY DEF ApplyToIndex, IInv, Shape, StoreShape
<1>2. j \in Handed
  BY <1>1 DEF Places, Idle
<1>3. VectorOf(j, index[truth[j].sid]) = IF truth[j].kind = "put" THEN j ELSE 0
  BY DEF VectorOf
<1> HIDE DEF j
<1>4. j \in DOMAIN truth /\ j \in 0 .. Len(truth) /\ 0 \in 0 .. Len(truth)
  <2>1. Handed \subseteq 1 .. Len(truth) /\ Len(truth) \in Nat /\ DOMAIN truth = 1 .. Len(truth)
    BY <1>1, InHanded DEF IInv, Shape
  <2>2. j \in 1 .. Len(truth)
    BY <1>2, <2>1
  <2>3. QED
    BY <2>1, <2>2
<1>5. truth[j].sid \in Sids
  BY <1>1, <1>4, SidOf
<1>6. index' \in [Sids -> 0 .. Len(truth)]
  BY <1>1, <1>3, <1>4 DEF Rest
<1>7. \A s \in Sids : index'[s] =
        IF s = truth[j].sid THEN IF truth[j].kind = "put" THEN j ELSE 0 ELSE index[s]
  BY <1>1, <1>3, <1>5 DEF Rest
<1>8. QED
  BY <1>1, <1>2, <1>4, <1>5, <1>6, <1>7 DEF j

(* What one step of the seeding does to the index. *)
LEMMA Seeds ==
  ASSUME IInv, Rest, Seed
  PROVE  \E j \in DOMAIN truth :
           /\ rebuild = "running" /\ seeds # <<>> /\ j = Head(seeds)
           /\ seeds' = Tail(seeds)
           /\ truth[j].sid \in Sids
           /\ \A s \in Sids : index'[s] =
                IF s = truth[j].sid /\ truth[j].kind = "put" THEN j ELSE index[s]
<1> DEFINE j == Head(seeds)
<1>1. /\ rebuild = "running" /\ seeds # <<>> /\ seeds' = Tail(seeds) /\ truth \in Seq(Write)
      /\ index' = IF truth[j].kind = "put" THEN [index EXCEPT ![truth[j].sid] = j] ELSE index
  BY DEF Seed, IInv, Shape, StoreShape
<1>2. j \in DOMAIN truth
  BY <1>1 DEF Rest
<1> HIDE DEF j
<1>3. truth[j].sid \in Sids
  BY <1>1, <1>2, SidOf
<1>4. \A s \in Sids : index'[s] =
        IF s = truth[j].sid /\ truth[j].kind = "put" THEN j ELSE index[s]
  BY <1>1, <1>3 DEF Rest
<1>5. QED
  BY <1>1, <1>2, <1>3, <1>4 DEF j

(* A commit comes after those there are and changes none. *)
LEMMA Commits ==
  ASSUME IInv, NEW r \in Write, Commit(r)
  PROVE  /\ truth \in Seq(Write) /\ Len(truth) \in Nat
         /\ DOMAIN truth = 1 .. Len(truth) /\ DOMAIN truth' = 1 .. Len(truth) + 1
         /\ Len(truth') = Len(truth) + 1
         /\ truth'[Len(truth) + 1] = r
         /\ \A i \in DOMAIN truth : i \in DOMAIN truth' /\ truth'[i] = truth[i]
         /\ \A i \in DOMAIN truth' : i \in DOMAIN truth \/ i = Len(truth) + 1
         /\ UNCHANGED <<mode, published, chan, worker, index, handled, seeds, rebuild, base>>
<1>1. truth \in Seq(Write) /\ truth' = Append(truth, r)
  BY DEF Commit, IInv, Shape, StoreShape
<1>2. UNCHANGED <<mode, published, chan, worker, index, handled, seeds, rebuild, base>>
  BY DEF Commit, chans
<1>3. QED
  BY <1>1, <1>2

LEMMA IndexIsOfSubjectsStep ==
  ASSUME IInv, Places, Rest, IndexIsOfSubjects, AnyStep \/ UNCHANGED vars
  PROVE  IndexIsOfSubjects'
<1> USE DEF chans, marks
<1>1. ASSUME NEW r \in Write, Commit(r) PROVE IndexIsOfSubjects'
  <2>1. index' = index /\ \A i \in DOMAIN truth : truth'[i] = truth[i]
    BY <1>1, Commits
  <2>2. \A s \in Sids : index[s] # 0 => index[s] \in DOMAIN truth
    BY DEF Rest, IInv, Shape, StoreShape
  <2>3. QED
    BY <2>1, <2>2 DEF IndexIsOfSubjects
<1>2. CASE BatchApplied \/ Publish \/ Dispatch \/ (\E w \in Workers : Take(w) \/ Complete(w))
           \/ StartRebuild \/ EndRebuild \/ UNCHANGED vars
  <2>1. UNCHANGED <<truth, index>>
    BY <1>2 DEF BatchApplied, Publish, Dispatch, Take, Complete, StartRebuild, EndRebuild, vars
  <2>2. QED
    BY <2>1 DEF IndexIsOfSubjects
<1>3. ASSUME NEW w \in Workers, ApplyToIndex(w) PROVE IndexIsOfSubjects'
  <2>1. truth' = truth
    BY <1>3 DEF ApplyToIndex
  <2>2. QED
    BY <1>3, <2>1, Applies DEF IndexIsOfSubjects
<1>4. CASE Seed
  <2>1. truth' = truth
    BY <1>4 DEF Seed
  <2>2. QED
    BY <1>4, <2>1, Seeds DEF IndexIsOfSubjects
<1>5. CASE Opens
  BY <1>5, OpenedAnew DEF NoVectors, IndexIsOfSubjects, IInv, Shape, StoreShape
<1>6. QED
  BY <1>1, <1>2, <1>3, <1>4, <1>5 DEF AnyStep, Internal, Running, Work

(* The only write of a subject is not overtaken by another.                     *)
LEMMA SolesAreIndexedStep ==
  ASSUME IInv, Places, Rest, SolesAreIndexed, AnyStep \/ UNCHANGED vars
  PROVE  SolesAreIndexed'
<1> USE DEF chans, marks
<1>1. ASSUME NEW r \in Write, Commit(r) PROVE SolesAreIndexed'
  <2> SUFFICES ASSUME NEW i \in DOMAIN truth', Sole(i)', truth'[i].kind = "put"
               PROVE  Stays(i)'
    BY DEF SolesAreIndexed
  <2>1. /\ Len(truth) \in Nat /\ DOMAIN truth = 1 .. Len(truth)
        /\ \A j \in DOMAIN truth : j \in DOMAIN truth' /\ truth'[j] = truth[j]
        /\ i \in DOMAIN truth \/ i = Len(truth) + 1
        /\ UNCHANGED <<published, index, handled, seeds, rebuild, base>>
    BY <1>1, Commits
  <2>2. CASE i \in DOMAIN truth
    <3>1. Sole(i)
      BY <2>1, <2>2 DEF Sole
    <3>2. QED
      BY <2>1, <2>2, <3>1 DEF SolesAreIndexed, Stays
  <2>3. CASE i = Len(truth) + 1
    <3>1. i \notin handled /\ ~ (i <= base)
      <4>1. handled \subseteq 1 .. Len(truth)
        BY InHanded DEF Places, IInv, Shape
      <4>2. base \in Nat /\ base <= Len(truth)
        BY <2>1 DEF IInv, Shape, StoreShape
      <4>3. QED
        BY <2>1, <2>3, <4>1, <4>2
    <3>2. QED
      BY <2>1, <3>1 DEF Stays
  <2>4. QED
    BY <2>1, <2>2, <2>3
<1>2. CASE BatchApplied \/ Publish \/ Dispatch \/ (\E w \in Workers : Take(w) \/ Complete(w))
           \/ UNCHANGED vars
  <2>1. UNCHANGED <<truth, index, handled, seeds, rebuild, base>>
    BY <1>2 DEF BatchApplied, Publish, Dispatch, Take, Complete, vars
  <2>2. QED
    BY <2>1 DEF SolesAreIndexed, Sole, Stays
<1>3. ASSUME NEW w \in Workers, ApplyToIndex(w) PROVE SolesAreIndexed'
  <2>1. UNCHANGED <<truth, seeds, rebuild, base>>
    BY <1>3 DEF ApplyToIndex
  <2>2. PICK j \in DOMAIN truth :
          /\ handled' = handled \union {j}
          /\ \A s \in Sids : index'[s] =
               IF s = truth[j].sid THEN IF truth[j].kind = "put" THEN j ELSE 0 ELSE index[s]
    BY <1>3, Applies
  <2> SUFFICES ASSUME NEW i \in DOMAIN truth, Sole(i), truth[i].kind = "put" PROVE Stays(i)'
    BY <2>1 DEF SolesAreIndexed, Sole
  <2>3. truth[i].sid \in Sids /\ Stays(i)
    BY SidOf DEF SolesAreIndexed, IInv, Shape, StoreShape
  <2>4. truth[j].sid = truth[i].sid => j = i
    BY <2>2 DEF Sole
  <2>5. QED
    BY <2>1, <2>2, <2>3, <2>4 DEF Stays
<1>4. CASE StartRebuild
  <2>1. seeds' \in LiveScan /\ UNCHANGED <<truth, index, handled, base>>
    BY <1>4 DEF StartRebuild
  <2> SUFFICES ASSUME NEW i \in DOMAIN truth, Sole(i), truth[i].kind = "put" PROVE Stays(i)'
    BY <2>1 DEF SolesAreIndexed, Sole
  <2>2. truth \in Seq(Write) /\ Stays(i)
    BY DEF SolesAreIndexed, IInv, Shape, StoreShape
  <2>3. \A j \in Of(truth[i].sid, truth[i].pred) : j <= i
    <3>1. \A j \in Of(truth[i].sid, truth[i].pred) : j = i
      BY DEF Of, Sole
    <3>2. i \in Nat
      BY <2>2
    <3>3. QED
      BY <3>1, <3>2
  <2>4. i \in Live
    BY <2>2, <2>3, NewestIsLive
  <2>5. Waits(seeds', i)
    BY <2>1, <2>2, <2>4, ScanIsLive DEF Waits
  <2>6. QED
    BY <2>1, <2>2, <2>5 DEF Stays
<1>5. CASE Seed
  <2>1. UNCHANGED <<truth, handled, rebuild, base>>
    BY <1>5 DEF Seed
  <2>2. PICK j \in DOMAIN truth :
          /\ rebuild = "running" /\ seeds # <<>> /\ j = Head(seeds) /\ seeds' = Tail(seeds)
          /\ \A s \in Sids : index'[s] =
               IF s = truth[j].sid /\ truth[j].kind = "put" THEN j ELSE index[s]
    BY <1>5, Seeds
  <2> SUFFICES ASSUME NEW i \in DOMAIN truth, Sole(i), truth[i].kind = "put" PROVE Stays(i)'
    BY <2>1 DEF SolesAreIndexed, Sole
  <2>3. truth[i].sid \in Sids /\ Stays(i)
    BY SidOf DEF SolesAreIndexed, IInv, Shape, StoreShape
  <2>4. truth[j].sid = truth[i].sid => j = i
    BY <2>2 DEF Sole
  <2>5. Waits(seeds, i) => j = i \/ Waits(seeds', i)
    BY <2>2, TailWaits DEF Rest
  <2>6. QED
    BY <2>1, <2>2, <2>3, <2>4, <2>5 DEF Stays
<1>6. CASE EndRebuild
  BY <1>6 DEF EndRebuild, SolesAreIndexed, Sole, Stays
<1>7. CASE Opens
  BY <1>7, OpenedAnew DEF SolesAreIndexed, Stays, IInv, Shape, StoreShape
<1>8. QED
  BY <1>1, <1>2, <1>3, <1>4, <1>5, <1>6, <1>7 DEF AnyStep, Internal, Running, Work

LEMMA OpensSeededStep ==
  ASSUME IInv, OpensSeeded, AnyStep \/ UNCHANGED vars PROVE OpensSeeded'
<1> USE DEF OpensSeeded, Seeded, chans, marks
<1>1. ASSUME NEW r \in Write, Commit(r) PROVE OpensSeeded'
  <2>1. open /\ UNCHANGED <<mode, open, rebuild>>
    BY <1>1 DEF Commit
  <2>2. QED
    BY <2>1, Zenon
<1>2. CASE EndRebuild
  BY <1>2 DEF EndRebuild
<1>3. CASE StartRebuild \/ Seed \/ BatchApplied \/ Publish \/ Dispatch
           \/ (\E w \in Workers : Work(w)) \/ UNCHANGED vars
  <2>1. /\ mode' = mode /\ open' = open /\ truth' = truth /\ base' = base
        /\ rebuild = "done" => rebuild' = "done"
    BY <1>3 DEF StartRebuild, Seed, BatchApplied, Publish, Dispatch, Work, Take, ApplyToIndex,
       Complete, vars
  <2>2. QED
    BY <2>1, Zenon
<1>4. CASE Opens
  <2>1. open' = mode'.late /\ base' = Len(truth')
    BY <1>4, OpenedAnew DEF IInv, Shape, StoreShape
  <2>2. QED
    BY <2>1, Zenon
<1>5. QED
  BY <1>1, <1>2, <1>3, <1>4 DEF AnyStep, Internal, Running

-----------------------------------------------------------------------------
(* The index of a single thread is the truth as of one commit *)

(* Expected, of any sequence of writes. *)
LatestOf(t, s, n) ==
  LET of == {i \in 1 .. n : t[i].sid = s}
  IN  IF of # {} /\ t[Max(of)].kind = "put" THEN Max(of) ELSE 0

LEMMA ExpectedIsLatest == \A s, n : Expected(s, n) = LatestOf(truth, s, n)
  BY DEF Expected, LatestOf

(* The last write of a subject decides. *)
LEMMA LatestIs ==
  ASSUME NEW t, NEW n \in Nat, NEW i \in 1 .. n, NEW s, t[i].sid = s,
         \A j \in 1 .. n : t[j].sid = s => j <= i
  PROVE  LatestOf(t, s, n) = IF t[i].kind = "put" THEN i ELSE 0
<1> DEFINE of == {j \in 1 .. n : t[j].sid = s}
<1>1. of \in SUBSET (1 .. n) /\ i \in of
  OBVIOUS
<1>2. Max(of) \in of /\ i <= Max(of)
  BY <1>1, MaxIsGreatest
<1>3. Max(of) \in 1 .. n /\ Max(of) <= i
  BY <1>2
<1>4. Max(of) = i
  BY <1>2, <1>3
<1>5. QED
  BY <1>1, <1>4 DEF LatestOf

(* What it finds is the last write of the subject, and a vector.                *)
LEMMA LatestHas ==
  ASSUME NEW t, NEW n \in Nat, NEW s, LatestOf(t, s, n) # 0
  PROVE  /\ LatestOf(t, s, n) \in 1 .. n
         /\ t[LatestOf(t, s, n)].sid = s
         /\ t[LatestOf(t, s, n)].kind = "put"
         /\ \A j \in 1 .. n : t[j].sid = s => j <= LatestOf(t, s, n)
<1> DEFINE of == {j \in 1 .. n : t[j].sid = s}
<1>1. of \in SUBSET (1 .. n) /\ of # {} /\ t[Max(of)].kind = "put" /\ LatestOf(t, s, n) = Max(of)
  BY DEF LatestOf
<1>2. Max(of) \in of /\ \A m \in of : m <= Max(of)
  BY <1>1, MaxIsGreatest
<1>3. QED
  BY <1>1, <1>2

(* It depends on the first n writes alone. *)
LEMMA LatestAgrees ==
  ASSUME NEW t, NEW u, NEW n \in Nat, NEW s, \A i \in 1 .. n : t[i] = u[i]
  PROVE  LatestOf(t, s, n) = LatestOf(u, s, n)
<1> DEFINE of == {j \in 1 .. n : t[j].sid = s}
<1>1. of = {j \in 1 .. n : u[j].sid = s}
  OBVIOUS
<1>2. of # {} => Max(of) \in 1 .. n
  BY MaxIsGreatest
<1>3. of # {} => t[Max(of)] = u[Max(of)]
  BY <1>2
<1>4. QED
  BY <1>1, <1>3 DEF LatestOf

(* One more write changes what is found for its subject and for no other.         *)
LEMMA LatestNext ==
  ASSUME NEW t, NEW n \in Nat, NEW s
  PROVE  LatestOf(t, s, n + 1) =
           IF t[n + 1].sid = s THEN IF t[n + 1].kind = "put" THEN n + 1 ELSE 0
                               ELSE LatestOf(t, s, n)
<1>1. n + 1 \in Nat /\ n + 1 \in 1 .. n + 1 /\ \A j \in 1 .. n + 1 : j <= n + 1
  OBVIOUS
<1>2. CASE t[n + 1].sid = s
  BY <1>1, <1>2, LatestIs
<1>3. CASE t[n + 1].sid # s
  <2>1. {j \in 1 .. n + 1 : t[j].sid = s} = {j \in 1 .. n : t[j].sid = s}
    BY <1>3
  <2>2. QED
    BY <1>3, <2>1 DEF LatestOf
<1>4. QED
  BY <1>2, <1>3

(* The index knows subjects, the truth subjects and predicates: a subject written   *)
(* under two predicates has two live values and one place in the index.           *)
OnePredPerSubject ==
  \A i, j \in DOMAIN truth : truth[i].sid = truth[j].sid => truth[i].pred = truth[j].pred

Ordered == ~ Pooled /\ ~ mode.late /\ OnePredPerSubject

(* Each subject has its last vector, or it is about to be seeded. *)
SeedingIsACut ==
  /\ \A k \in DOMAIN seeds :
       truth[seeds[k]].kind = "put"
         => seeds[k] = LatestOf(truth, truth[seeds[k]].sid, base)
  /\ \A s \in Sids :
       \/ index[s] = LatestOf(truth, s, base)
       \/ index[s] = 0 /\ Waits(seeds, LatestOf(truth, s, base))

CutInv ==
  Ordered =>
    /\ rebuild = "due" => \A s \in Sids : index[s] = 0
    /\ rebuild = "running" => SeedingIsACut
    /\ Seeded => \A s \in Sids : index[s] = LatestOf(truth, s, Applied)

(* Before a store that opens seeded is seeded there is nothing to apply.           *)
LEMMA NothingBeforeSeeded ==
  ASSUME IInv, Places, OpensSeeded, ~ mode.late, ~ Seeded
  PROVE  /\ published = base /\ base = Len(truth) /\ Applied = base
         /\ \A w \in Workers : worker[w].at = "idle"
<1>1. base = Len(truth) /\ published = base /\ base \in Nat
  BY DEF OpensSeeded, IInv, Shape, StoreShape
<1>2. \A i : i \notin Handed
  <2> SUFFICES ASSUME NEW i \in Handed PROVE FALSE
    OBVIOUS
  <2>1. i \in Nat /\ base < i /\ i <= published
    BY InHanded DEF IInv, Shape
  <2>2. QED
    BY <1>1, <2>1
<1>3. \A w \in Workers : worker[w].at = "idle"
  BY <1>2 DEF Places, Idle
<1>4. Len(chan) = 0
  <2>1. chan \in Seq(Handed)
    BY DEF Places
  <2>2. Len(chan) \in Nat /\ \A k \in 1 .. Len(chan) : chan[k] \in Handed
    BY <2>1
  <2>3. Len(chan) # 0 => 1 \in 1 .. Len(chan)
    BY <2>2
  <2>4. QED
    BY <1>2, <2>2, <2>3
<1>5. worker[0].at = "idle"
  BY <1>3, WorkersExist
<1>6. QED
  BY <1>1, <1>3, <1>4, <1>5 DEF Applied, Taken

(* How far the thread has come lies between what was seeded and what was published. *)
LEMMA AppliedBounds ==
  ASSUME IInv, ~ Pooled
  PROVE  /\ Applied \in Nat /\ Taken \in Nat
         /\ base <= Applied /\ Applied <= Taken /\ Taken <= published
         /\ published <= Len(truth) /\ watermark <= Applied
<1>1. /\ Taken \in Int /\ Taken <= published /\ published <= Len(truth)
      /\ base \in Nat /\ watermark \in Nat /\ published \in Nat
  BY DEF Taken, IInv, Shape, StoreShape, ChannelShape, MarkShape
<1>2. base <= Taken /\ watermark <= Taken
      /\ (worker[0].at # "idle" => base < Taken /\ watermark < Taken)
  BY DEF IInv, SingleIsInOrder
<1>3. QED
  BY <1>1, <1>2 DEF Applied

(* A scan seeds the last vector of every subject that has one. *)
LEMMA ScanIsACut ==
  ASSUME IInv, Places, Rest, IndexInv, CutInv, StartRebuild, Ordered
  PROVE  SeedingIsACut'
<1>1. /\ seeds' \in LiveScan /\ rebuild = "due"
      /\ truth' = truth /\ index' = index /\ base' = base
  BY DEF StartRebuild
<1>2. truth \in Seq(Write) /\ Len(truth) \in Nat /\ DOMAIN truth = 1 .. Len(truth)
  BY DEF IInv, Shape, StoreShape
<1>3. base = Len(truth) /\ \A s \in Sids : index[s] = 0
  BY <1>1, NothingBeforeSeeded DEF IndexInv, Ordered, Seeded, CutInv
<1>4. \A i, j \in DOMAIN truth :
        truth[j].sid = truth[i].sid => j \in Of(truth[i].sid, truth[i].pred)
  BY DEF Ordered, OnePredPerSubject, Of
<1>5. \A i : Waits(seeds', i) <=> i \in Live
  BY <1>1, <1>2, ScanIsLive DEF Waits
<1>6. ASSUME NEW k \in DOMAIN seeds', truth[seeds'[k]].kind = "put"
      PROVE  seeds'[k] = LatestOf(truth, truth[seeds'[k]].sid, base)
  <2>1. seeds'[k] \in Live
    BY <1>5 DEF Waits
  <2>2. seeds'[k] \in 1 .. base
        /\ \A j \in Of(truth[seeds'[k]].sid, truth[seeds'[k]].pred) : j <= seeds'[k]
    BY <1>2, <1>3, <2>1, LiveIsNewest
  <2>3. \A j \in 1 .. base : truth[j].sid = truth[seeds'[k]].sid => j <= seeds'[k]
    BY <1>2, <1>3, <1>4, <2>2
  <2>4. base \in Nat
    BY <1>2, <1>3
  <2>5. QED
    BY <1>6, <2>2, <2>3, <2>4, LatestIs
<1>7. ASSUME NEW s \in Sids
      PROVE  LatestOf(truth, s, base) = 0 \/ Waits(seeds', LatestOf(truth, s, base))
  <2> DEFINE i == LatestOf(truth, s, base)
  <2> SUFFICES ASSUME i # 0 PROVE Waits(seeds', i)
    OBVIOUS
  <2>1. /\ i \in 1 .. base /\ truth[i].sid = s /\ truth[i].kind = "put"
        /\ \A j \in 1 .. base : truth[j].sid = s => j <= i
    BY <1>2, <1>3, LatestHas
  <2> HIDE DEF i
  <2>2. i \in DOMAIN truth /\ \A j \in Of(truth[i].sid, truth[i].pred) : j <= i
    BY <1>2, <1>3, <2>1 DEF Of
  <2>3. i \in Live
    BY <1>2, <2>1, <2>2, NewestIsLive
  <2>4. QED
    BY <1>5, <2>3
<1>8. QED
  BY <1>1, <1>3, <1>6, <1>7 DEF SeedingIsACut

(* A seeded vector is the last of its subject and touches no other.              *)
LEMMA SeedIsACut ==
  ASSUME IInv, Places, Rest, IndexInv, CutInv, Seed, Ordered
  PROVE  SeedingIsACut'
<1>1. truth' = truth /\ base' = base
  BY DEF Seed
<1>2. PICK j \in DOMAIN truth :
        /\ rebuild = "running" /\ seeds # <<>> /\ j = Head(seeds) /\ seeds' = Tail(seeds)
        /\ \A s \in Sids : index'[s] =
             IF s = truth[j].sid /\ truth[j].kind = "put" THEN j ELSE index[s]
  BY Seeds
<1>3. SeedingIsACut
  BY <1>2 DEF CutInv
<1>4. seeds \in Seq(1 .. Len(truth)) /\ Len(seeds) \in Nat /\ base \in Nat
  BY DEF Rest, IInv, Shape, StoreShape
<1>5. /\ 1 \in DOMAIN seeds /\ seeds[1] = j
      /\ \A k \in DOMAIN seeds' : k + 1 \in DOMAIN seeds /\ seeds'[k] = seeds[k + 1]
  BY <1>2, <1>4
<1>6. ASSUME NEW k \in DOMAIN seeds', truth[seeds'[k]].kind = "put"
      PROVE  seeds'[k] = LatestOf(truth, truth[seeds'[k]].sid, base)
  BY <1>3, <1>5, <1>6 DEF SeedingIsACut
<1>7. truth[j].kind = "put" => j = LatestOf(truth, truth[j].sid, base)
  BY <1>3, <1>5 DEF SeedingIsACut
<1>8. ASSUME NEW s \in Sids
      PROVE  \/ index'[s] = LatestOf(truth, s, base)
             \/ index'[s] = 0 /\ Waits(seeds', LatestOf(truth, s, base))
  <2> DEFINE i == LatestOf(truth, s, base)
  <2>1. index[s] = i \/ (index[s] = 0 /\ Waits(seeds, i))
    BY <1>3 DEF SeedingIsACut
  <2>2. Waits(seeds, i) => i = j \/ Waits(seeds', i)
    BY <1>2, <1>4, TailWaits
  <2>3. i # 0 => truth[i].sid = s /\ truth[i].kind = "put"
    BY <1>4, LatestHas
  <2>4. Waits(seeds, i) => i # 0
    BY <1>4 DEF Waits
  <2> HIDE DEF i
  <2>5. CASE s = truth[j].sid /\ truth[j].kind = "put"
    BY <1>2, <1>7, <2>5 DEF i
  <2>6. CASE ~ (s = truth[j].sid /\ truth[j].kind = "put")
    <3>1. i # 0 => i # j
      BY <2>3, <2>6
    <3>2. index'[s] = index[s]
      BY <1>2, <2>6
    <3>3. QED
      BY <2>1, <2>2, <2>4, <3>1, <3>2 DEF i
  <2>7. QED
    BY <2>5, <2>6
<1>9. QED
  BY <1>1, <1>6, <1>8 DEF SeedingIsACut

(* The thread applies the record after the last it applied.                      *)
(* A record applied is the next one. *)
LEMMA ApplyMoves ==
  ASSUME IInv, ~ Pooled, NEW w \in Workers, ApplyToIndex(w)
  PROVE  /\ w = 0 /\ worker[w].seq = Taken
         /\ Applied \in Nat /\ Taken = Applied + 1 /\ Applied' = Taken
<1>1. worker[w].at = "taken"
  BY DEF ApplyToIndex
<1>2. w = 0 /\ worker[w].seq = Taken /\ 0 \in Workers
  BY <1>1, WorkersExist DEF IInv, SingleIsInOrder
<1>3. Applied \in Nat /\ Taken = Applied + 1
  <2>1. Applied = Taken - 1 /\ Taken \in Nat /\ Applied \in Nat
    BY <1>1, <1>2, AppliedBounds DEF Applied
  <2>2. QED
    BY <2>1
<1>4. Applied' = Taken
  <2>1. worker'[0].at = "applied" /\ Taken' = Taken
    BY <1>2 DEF ApplyToIndex, IInv, Shape, ChannelShape, Taken
  <2>2. QED
    BY <2>1 DEF Applied
<1>5. QED
  BY <1>2, <1>3, <1>4

(* Publishing puts a record where the thread has not come yet. *)
LEMMA PublishingMovesNothing ==
  ASSUME IInv, BatchApplied \/ Publish \/ UNCHANGED vars PROVE Applied' = Applied
<1> USE DEF chans, marks
<1>1. worker' = worker
  BY DEF BatchApplied, Publish, vars
<1>2. \/ chan' = chan /\ published' = published
      \/ chan' = Append(chan, published') /\ published' = published + 1
  BY DEF BatchApplied, Publish, vars
<1>3. chan \in Seq(Nat) /\ published \in Nat
  BY DEF IInv, Shape, StoreShape, ChannelShape
<1>4. Len(Append(chan, published')) = Len(chan) + 1
  BY <1>3
<1>5. Taken' = Taken
  BY <1>2, <1>3, <1>4 DEF Taken
<1>6. QED
  BY <1>1, <1>5 DEF Applied

(* The single thread is worker 0; taking and completing a record applies nothing. *)
LEMMA OnlyApplyMoves ==
  ASSUME IInv, ~ Pooled, NEW w \in Workers, Take(w) \/ Complete(w)
  PROVE  /\ w = 0 /\ Applied' = Applied
         /\ Complete(w) => worker[0].seq = Applied
<1>1. published' = published /\ 0 \in Workers
  BY WorkersExist DEF Take, Complete
<1>2. w = 0
  BY WorkersExist DEF Pooled, Take, Complete, IInv, Shape, StoreShape, SingleIsInOrder
<1>3. CASE Take(0)
  <2>1. /\ worker[0].at = "idle" /\ worker'[0].at = "taken"
        /\ chan # <<>> /\ chan' = Tail(chan) /\ chan \in Seq(Nat)
    BY <1>1, <1>3 DEF Take, IInv, Shape, ChannelShape
  <2>2. Len(chan) \in Nat /\ Len(chan') = Len(chan) - 1
    BY <2>1
  <2>3. Taken \in Int /\ Taken' = Taken + 1
    BY <1>1, <2>2 DEF Taken, IInv, Shape, StoreShape
  <2>4. Applied' = Applied /\ ~ Complete(0)
    BY <2>1, <2>3 DEF Applied, Complete
  <2>5. QED
    BY <1>2, <2>4
<1>4. CASE Complete(0)
  <2>1. worker[0].at = "applied" /\ worker'[0].at = "idle" /\ chan' = chan
    BY <1>1, <1>4 DEF Complete, Idle, IInv, Shape, ChannelShape
  <2>2. Applied' = Applied
    BY <1>1, <2>1 DEF Applied, Taken
  <2>3. worker[0].seq = Taken /\ Applied = Taken
    BY <2>1 DEF IInv, SingleIsInOrder, Applied
  <2>4. QED
    BY <1>2, <2>2, <2>3
<1>5. QED
  BY <1>2, <1>3, <1>4

LEMMA ApplyIsACut ==
  ASSUME IInv, IInv', Places, Rest, IndexInv, CutInv, Ordered,
         NEW w \in Workers, ApplyToIndex(w)
  PROVE  Seeded /\ \A s \in Sids : index'[s] = LatestOf(truth, s, Applied')
<1>1. PICK j \in Handed :
        /\ worker[w].at = "taken" /\ worker[w].seq = j /\ j \in DOMAIN truth
        /\ \A s \in Sids : index'[s] =
             IF s = truth[j].sid THEN IF truth[j].kind = "put" THEN j ELSE 0 ELSE index[s]
  BY Applies
<1>2. Seeded
  BY <1>1, NothingBeforeSeeded DEF Ordered, IndexInv
<1>3. w = 0 /\ j = Taken /\ Applied \in Nat /\ Taken = Applied + 1 /\ Applied' = Taken
  BY <1>1, ApplyMoves DEF Ordered
<1>6. ASSUME NEW s \in Sids PROVE index'[s] = LatestOf(truth, s, Taken)
  <2>1. index[s] = LatestOf(truth, s, Applied)
    BY <1>2 DEF CutInv
  <2>2. LatestOf(truth, s, Taken) =
          IF truth[Taken].sid = s THEN IF truth[Taken].kind = "put" THEN Taken ELSE 0
                                  ELSE LatestOf(truth, s, Applied)
    BY <1>3, LatestNext
  <2>3. QED
    BY <1>1, <1>3, <2>1, <2>2
<1>7. QED
  BY <1>2, <1>3, <1>6

LEMMA CutStep ==
  ASSUME IInv, IInv', Places, Rest, IndexInv, CutInv, AnyStep \/ UNCHANGED vars
  PROVE  CutInv'
<1> USE DEF chans, marks
<1> SUFFICES ASSUME Ordered'
             PROVE  /\ rebuild' = "due" => \A s \in Sids : index'[s] = 0
                    /\ rebuild' = "running" => SeedingIsACut'
                    /\ Seeded' => \A s \in Sids : index'[s] = LatestOf(truth', s, Applied')
  BY DEF CutInv
<1> DEFINE Kept ==
      /\ rebuild' = "due" => \A s \in Sids : index'[s] = 0
      /\ rebuild' = "running" => SeedingIsACut'
      /\ Seeded' => \A s \in Sids : index'[s] = LatestOf(truth', s, Applied')
<1>1. ASSUME UNCHANGED <<mode, truth>> PROVE Ordered
  BY <1>1 DEF Ordered, Pooled, OnePredPerSubject
<1>2. ASSUME NEW r \in Write, Commit(r) PROVE Kept
  <2>1. /\ Len(truth) \in Nat /\ DOMAIN truth = 1 .. Len(truth)
        /\ \A i \in DOMAIN truth : i \in DOMAIN truth' /\ truth'[i] = truth[i]
        /\ UNCHANGED <<mode, published, chan, worker, index, seeds, rebuild, base>>
    BY <1>2, Commits
  <2>2. Ordered
    BY <2>1 DEF Ordered, Pooled, OnePredPerSubject
  <2>3. ASSUME NEW n \in Nat, n <= Len(truth), NEW s
        PROVE  LatestOf(truth', s, n) = LatestOf(truth, s, n)
    <3>1. \A i \in 1 .. n : truth'[i] = truth[i]
      BY <2>1, <2>3
    <3>2. QED
      BY <3>1, LatestAgrees
  <2>4. base \in Nat /\ base <= Len(truth)
    BY <2>1 DEF IInv, Shape, StoreShape
  <2>5. Applied \in Nat /\ Applied <= Len(truth) /\ Applied' = Applied
    <3>1. /\ Applied \in Nat /\ Applied <= Taken /\ Taken <= published /\ Taken \in Nat
          /\ published <= Len(truth) /\ published \in Nat
      BY <2>2, AppliedBounds DEF Ordered, IInv, Shape, StoreShape
    <3>2. QED
      BY <2>1, <3>1 DEF Applied, Taken
  <2>6. rebuild' # "running"
    <3>1. open
      BY <1>2 DEF Commit
    <3>2. Seeded
      BY <2>2, <3>1 DEF IndexInv, OpensSeeded, Ordered
    <3>3. QED
      BY <2>1, <3>2 DEF Seeded
  <2>7. QED
    BY <2>1, <2>2, <2>3, <2>5, <2>6 DEF CutInv, Seeded
<1>3. CASE BatchApplied \/ Publish \/ UNCHANGED vars
  <2>1. UNCHANGED <<mode, truth, index, seeds, rebuild, base, worker>>
    BY <1>3 DEF BatchApplied, Publish, vars
  <2>3. Applied' = Applied
    BY <1>3, PublishingMovesNothing
  <2>4. QED
    BY <1>1, <2>1, <2>3 DEF CutInv, SeedingIsACut, Seeded
<1>4. CASE Dispatch
  BY <1>4 DEF Dispatch, Ordered, Pooled
<1>5. ASSUME NEW w \in Workers, Take(w) \/ Complete(w) PROVE Kept
  <2>1. UNCHANGED <<mode, truth, published, index, seeds, rebuild, base>>
    BY <1>5 DEF Take, Complete
  <2>2. Ordered
    BY <1>1, <2>1
  <2>3. Applied' = Applied
    BY <1>5, <2>2, OnlyApplyMoves DEF Ordered
  <2>4. QED
    BY <2>1, <2>2, <2>3 DEF CutInv, SeedingIsACut, Seeded
<1>6. ASSUME NEW w \in Workers, ApplyToIndex(w) PROVE Kept
  <2>1. UNCHANGED <<mode, truth, rebuild>>
    BY <1>6 DEF ApplyToIndex
  <2>2. Seeded /\ \A s \in Sids : index'[s] = LatestOf(truth, s, Applied')
    BY <1>1, <1>6, <2>1, ApplyIsACut
  <2>3. QED
    BY <2>1, <2>2 DEF Seeded
<1>7. CASE StartRebuild
  <2>1. UNCHANGED <<mode, truth>> /\ rebuild' = "running"
    BY <1>7 DEF StartRebuild
  <2>2. SeedingIsACut'
    BY <1>1, <1>7, <2>1, ScanIsACut
  <2>3. QED
    BY <2>1, <2>2 DEF Seeded
<1>8. CASE Seed
  <2>1. UNCHANGED <<mode, truth>> /\ rebuild' = "running"
    BY <1>8 DEF Seed
  <2>2. SeedingIsACut'
    BY <1>1, <1>8, <2>1, SeedIsACut
  <2>3. QED
    BY <2>1, <2>2 DEF Seeded
<1>9. CASE EndRebuild
  <2>1. /\ rebuild = "running" /\ seeds = <<>> /\ rebuild' = "done"
        /\ UNCHANGED <<mode, truth, index, base, published, chan, worker>>
    BY <1>9 DEF EndRebuild
  <2>2. Ordered
    BY <1>1, <2>1
  <2>3. Applied = base /\ Applied' = Applied
    BY <2>1, <2>2, NothingBeforeSeeded DEF Seeded, Ordered, IndexInv, Applied, Taken
  <2>4. \A s \in Sids : index[s] = LatestOf(truth, s, base)
    BY <2>1, <2>2 DEF CutInv, SeedingIsACut, Waits
  <2>5. QED
    BY <2>1, <2>3, <2>4
<1>10. CASE Opens
  BY <1>10, OpenedAnew DEF NoVectors, Seeded, IInv, Shape, StoreShape
<1>11. QED
  BY <1>2, <1>3, <1>4, <1>5, <1>6, <1>7, <1>8, <1>9, <1>10 DEF AnyStep, Internal, Running, Work

-----------------------------------------------------------------------------
(* The invariant of the engine, whoever owns it *)

(* Where nobody writes before the seeding there is nothing to complete before it.    *)
UntoldUntilSeeded == ~ mode.late /\ ~ Seeded => watermark = 0

LEMMA UntoldStep ==
  ASSUME IInv, Places, OpensSeeded, UntoldUntilSeeded, AnyStep \/ UNCHANGED vars
  PROVE  UntoldUntilSeeded'
<1> USE DEF marks
<1>1. ASSUME UNCHANGED <<mode, watermark>>, rebuild = "done" => rebuild' = "done"
      PROVE  UntoldUntilSeeded'
  BY <1>1 DEF UntoldUntilSeeded, Seeded
<1>2. CASE \E w \in Workers : Complete(w)
  <2>1. PICK w \in Workers : Complete(w)
    BY <1>2
  <2>2. worker[w].at = "applied" /\ UNCHANGED <<mode, rebuild>>
    BY <2>1 DEF Complete
  <2>3. mode.late \/ Seeded
    BY <2>2, NothingBeforeSeeded
  <2>4. QED
    BY <2>2, <2>3 DEF UntoldUntilSeeded, Seeded
<1>3. CASE Opens
  BY <1>3, OpenedAnew DEF UntoldUntilSeeded, IInv, Shape, StoreShape
<1>4. CASE \E r \in Write : Commit(r)
  BY <1>1, <1>4 DEF Commit
<1>5. CASE BatchApplied \/ Publish \/ Dispatch \/ UNCHANGED vars
  BY <1>1, <1>5 DEF BatchApplied, Publish, Dispatch, vars
<1>6. CASE \E w \in Workers : Take(w) \/ ApplyToIndex(w)
  BY <1>1, <1>6 DEF Take, ApplyToIndex
<1>7. CASE StartRebuild \/ Seed \/ EndRebuild
  BY <1>1, <1>7 DEF StartRebuild, Seed, EndRebuild
<1>8. QED
  BY <1>2, <1>3, <1>4, <1>5, <1>6, <1>7 DEF AnyStep, Internal, Running, Work

EngineInv ==
  IInv /\ Places /\ Rest /\ NothingIsLost /\ IndexInv /\ CutInv /\ UntoldUntilSeeded

LEMMA InitEngineInv == Init => EngineInv
<1> SUFFICES ASSUME Init PROVE EngineInv
  OBVIOUS
<1>1. IInv
  BY InitIInv
<1>2. Places /\ NothingIsLost
  <2>1. Handed = {}
    BY DEF Init, Handed
  <2>2. QED
    BY <2>1 DEF Init, Places, NothingIsLost, Idle
<1>3. Rest
  <2>1. mode \in Modes /\ open = mode.late /\ publishing = FALSE
    BY DEF Init
  <2>2. open \in BOOLEAN /\ publishing \in BOOLEAN
    BY <2>1, MaterializerAssumption
  <2>3. /\ truth = <<>> /\ epoch = 1 /\ index = NoVectors /\ seeds = <<>> /\ rebuild = "due"
        /\ next = 1 /\ pending = {}
    BY DEF Init
  <2>4. Len(truth) = 0 /\ Len(truth) <= MaxCommits /\ epoch \in 1 .. MaxEpochs
    BY <2>3, MaterializerAssumption
  <2>5. index \in [Sids -> 0 .. Len(truth)] /\ seeds \in Seq(1 .. Len(truth))
    BY <2>3, <2>4 DEF NoVectors
  <2>6. QED
    BY <2>2, <2>3, <2>4, <2>5 DEF Rest
<1>4. IndexIsOfSubjects
  BY DEF Init, IndexIsOfSubjects, NoVectors
<1>5. SolesAreIndexed
  BY DEF Init, SolesAreIndexed
<1>6. OpensSeeded
  <2>1. open = mode.late /\ base = Len(truth)
    BY DEF Init
  <2>2. QED
    BY <2>1, Zenon DEF OpensSeeded
<1>7. CutInv
  BY DEF Init, CutInv, NoVectors, Seeded
<1>8. UntoldUntilSeeded
  BY DEF Init, UntoldUntilSeeded
<1>9. QED
  BY <1>1, <1>2, <1>3, <1>4, <1>5, <1>6, <1>7, <1>8 DEF EngineInv, IndexInv

LEMMA EngineStep == ASSUME EngineInv, AnyStep \/ UNCHANGED vars PROVE EngineInv'
<1>1. IInv'
  BY StepIInv DEF EngineInv
<1>2. Places' /\ Rest' /\ NothingIsLost'
  BY PlacesStep, RestStep, NothingIsLostStep DEF EngineInv
<1>3. IndexInv'
  BY IndexIsOfSubjectsStep, SolesAreIndexedStep, OpensSeededStep DEF EngineInv, IndexInv
<1>4. CutInv'
  BY <1>1, CutStep DEF EngineInv
<1>5. UntoldUntilSeeded'
  BY UntoldStep DEF EngineInv, IndexInv
<1>6. QED
  BY <1>1, <1>2, <1>3, <1>4, <1>5 DEF EngineInv

(* When everything has been worked off, all that was handed was applied.           *)
LEMMA QuietIsHandled == EngineInv /\ Quiet => \A i \in DOMAIN truth : i <= base \/ i \in handled
<1> SUFFICES ASSUME EngineInv, Quiet, NEW i \in DOMAIN truth, ~ (i <= base)
             PROVE  i \in handled
  OBVIOUS
<1>1. i \in Handed
  BY InHanded DEF EngineInv, IInv, Shape, StoreShape, Quiet
<1>2. Found(i)
  BY <1>1 DEF EngineInv, NothingIsLost
<1>3. QED
  BY <1>2 DEF Quiet, Found, Waits, Idle

(* A subject written once has its vector in the index as soon as the write is      *)
(* applied or seeded, and nothing but it ever.                                  *)
LEMMA SoleIsIndexed ==
  ASSUME EngineInv, Seeded, NEW i \in DOMAIN truth, Sole(i), i <= base \/ i \in handled
  PROVE  index[truth[i].sid] = IF truth[i].kind = "put" THEN i ELSE 0
<1>1. CASE truth[i].kind = "put"
  <2>1. Stays(i)
    BY <1>1 DEF EngineInv, IndexInv, SolesAreIndexed
  <2>2. seeds = <<>> /\ rebuild # "due"
    BY DEF EngineInv, Rest, Seeded
  <2>3. ~ Waits(seeds, i)
    BY <2>2 DEF Waits
  <2>4. QED
    BY <1>1, <2>1, <2>2, <2>3 DEF Stays
<1>2. CASE truth[i].kind # "put"
  <2> SUFFICES ASSUME index[truth[i].sid] # 0 PROVE FALSE
    BY <1>2
  <2>1. truth \in Seq(Write) /\ truth[i].sid \in Sids
    BY SidOf DEF EngineInv, IInv, Shape, StoreShape
  <2>2. /\ truth[index[truth[i].sid]].sid = truth[i].sid
        /\ truth[index[truth[i].sid]].kind = "put"
    BY <2>1 DEF EngineInv, IndexInv, IndexIsOfSubjects
  <2>3. index[truth[i].sid] \in DOMAIN truth
    BY <2>1 DEF EngineInv, Rest
  <2>4. index[truth[i].sid] = i
    BY <2>2, <2>3 DEF Sole
  <2>5. QED
    BY <1>2, <2>2, <2>4
<1>3. QED
  BY <1>1, <1>2

LEMMA SoleWriteFromInv == EngineInv => SoleWriteIsIndexed
<1> SUFFICES ASSUME EngineInv, Seeded, NEW i \in DOMAIN truth,
                    i <= base \/ i <= watermark \/ Quiet,
                    \A j \in DOMAIN truth : truth[j].sid = truth[i].sid => j = i
             PROVE  index[truth[i].sid] = IF truth[i].kind = "put" THEN i ELSE 0
  BY DEF SoleWriteIsIndexed
<1>1. Sole(i)
  BY DEF Sole
<1>2. i <= base \/ i \in handled
  <2>1. CASE Quiet
    BY <2>1, QuietIsHandled
  <2>2. CASE i <= watermark
    <3>1. i \in Nat /\ base \in Nat /\ watermark \in Nat
      BY DEF EngineInv, IInv, Shape, StoreShape, MarkShape
    <3>2. WatermarkIsHonest
      BY HonestFromIInv DEF EngineInv
    <3>3. QED
      BY <2>2, <3>1, <3>2 DEF WatermarkIsHonest
  <2>3. QED
    BY <2>1, <2>2
<1>3. QED
  BY <1>1, <1>2, SoleIsIndexed

(* The commit the index is the truth of is the last the thread applied; before it is  *)
(* seeded nothing is.                                                        *)
LEMMA CutFromInv == EngineInv /\ OnePredPerSubject => IndexIsACut
<1> SUFFICES ASSUME EngineInv, OnePredPerSubject, ~ Pooled, ~ mode.late
             PROVE  IF Seeded
                    THEN \E n \in base .. published :
                           watermark <= n /\ \A s \in Sids : index[s] = Expected(s, n)
                    ELSE \A s \in Sids : index[s] \in {0, Expected(s, base)}
  BY DEF IndexIsACut
<1>1. CASE Seeded
  <2>1. \A s \in Sids : index[s] = LatestOf(truth, s, Applied)
    BY <1>1 DEF EngineInv, CutInv, Ordered
  <2>2. /\ Applied \in Nat /\ Taken \in Nat /\ base <= Applied /\ Applied <= Taken
        /\ Taken <= published /\ watermark <= Applied /\ base \in Nat /\ published \in Nat
    BY AppliedBounds DEF EngineInv, IInv, Shape, StoreShape
  <2>3. Applied \in base .. published
    BY <2>2
  <2>4. QED
    BY <1>1, <2>1, <2>2, <2>3, ExpectedIsLatest
<1>2. CASE ~ Seeded
  <2>1. rebuild = "due" \/ rebuild = "running"
    BY <1>2 DEF EngineInv, Rest, Seeded
  <2>2. \A s \in Sids : index[s] = 0 \/ index[s] = LatestOf(truth, s, base)
    BY <2>1 DEF EngineInv, CutInv, Ordered, SeedingIsACut
  <2>3. QED
    BY <1>2, <2>2, ExpectedIsLatest
<1>3. QED
  BY <1>1, <1>2

(* ... and when the thread rests, the last of the truth.                          *)
LEMMA QuietFromInv == EngineInv /\ Ordered => QuietIndexIsCurrent
<1> SUFFICES ASSUME EngineInv, Ordered, Quiet
             PROVE  \A s \in Sids : index[s] = Expected(s, Len(truth))
  BY DEF QuietIndexIsCurrent
<1>1. \A s \in Sids : index[s] = LatestOf(truth, s, Applied)
  BY DEF EngineInv, CutInv, Quiet
<1>2. Applied = Len(truth)
  <2>1. worker[0].at = "idle" /\ Len(chan) = 0 /\ published = Len(truth)
    BY WorkersExist DEF Quiet, Idle
  <2>2. published \in Nat
    BY DEF EngineInv, IInv, Shape, StoreShape
  <2>3. QED
    BY <2>1, <2>2 DEF Applied, Taken
<1>3. QED
  BY <1>1, <1>2, ExpectedIsLatest

-----------------------------------------------------------------------------
(* A single thread keeps a stale index *)

(* An index with the latest vectors is the truth as of a commit. *)
LEMMA LatestIsAsOf ==
  ASSUME NEW ix, NEW t, NEW n \in Nat, \A s \in Sids : ix[s] = LatestOf(t, s, n)
  PROVE  Stale!IsAsOf(ix, t, n)
<1> SUFFICES ASSUME NEW s \in Sids
             PROVE  LET Newest(i) == t[i].sid = s /\ \A j \in i + 1 .. n : t[j].sid # s
                    IN  \/ ix[s] \in 1 .. n /\ Newest(ix[s]) /\ t[ix[s]].kind = "put"
                        \/ ix[s] = 0 /\ \A i \in 1 .. n : Newest(i) => t[i].kind # "put"
  BY DEF Stale!IsAsOf
<1>1. ix[s] = LatestOf(t, s, n)
  OBVIOUS
<1>2. CASE ix[s] # 0
  <2>1. /\ ix[s] \in 1 .. n /\ t[ix[s]].sid = s /\ t[ix[s]].kind = "put"
        /\ \A j \in 1 .. n : t[j].sid = s => j <= ix[s]
    BY <1>1, <1>2, LatestHas
  <2>2. \A j \in ix[s] + 1 .. n : t[j].sid # s
    BY <2>1
  <2>3. QED
    BY <2>1, <2>2
<1>3. CASE ix[s] = 0
  <2>1. ASSUME NEW i \in 1 .. n, t[i].sid = s, \A j \in i + 1 .. n : t[j].sid # s,
               t[i].kind = "put"
        PROVE  FALSE
    <3>1. \A j \in 1 .. n : t[j].sid = s => j <= i
      BY <2>1
    <3>2. LatestOf(t, s, n) = i
      BY <2>1, <3>1, LatestIs
    <3>3. QED
      BY <1>1, <1>3, <3>2
  <2>2. QED
    BY <1>3, <2>1
<1>4. QED
  BY <1>2, <1>3

(* Where there is no stale index nothing of it is seen. *)
LEMMA UnseenSteps ==
  ASSUME ~ Current, ~ Current', truth' = truth PROVE UNCHANGED Stale!vars
<1>1. Current = FALSE /\ Current' = FALSE
  BY DEF Current
<1>2. QED
  BY <1>1 DEF Stale!vars, NoVectors

(* ... and what it shows is the index, how far it is and the watermark.            *)
LEMMA SeenSteps ==
  ASSUME Current' = Current, UNCHANGED <<truth, watermark, index>>, Current => Applied' = Applied
  PROVE  UNCHANGED Stale!vars
  BY DEF Stale!vars, NoVectors

LEMMA StaleInit == Init => Stale!Init
<1> SUFFICES ASSUME Init PROVE Stale!Init
  OBVIOUS
<1>1. truth = <<>> /\ Current = FALSE
  BY DEF Init, Current, Seeded
<1>2. QED
  BY <1>1 DEF Stale!Init, Stale!NoIndex, Stale!Blank, NoVectors

LEMMA StaleStep ==
  ASSUME EngineInv, EngineInv', OnePredPerSubject, AnyStep \/ UNCHANGED vars
  PROVE  [Stale!Next]_(Stale!vars)
<1> USE DEF chans, marks
<1>1. ASSUME NEW r \in Write, Commit(r) PROVE Stale!Grow
  <2>1. Stale!TruthKept
    BY <1>1, Commits DEF EngineInv, IInv, Shape, StoreShape, Stale!TruthKept
  <2>2. UNCHANGED <<mode, published, chan, worker, index, rebuild, watermark>>
    BY <1>1 DEF Commit
  <2>3. Current' = Current /\ Applied' = Applied
    BY <2>2 DEF Current, Seeded, Pooled, Applied, Taken
  <2>4. QED
    BY <2>1, <2>2, <2>3 DEF Stale!Grow, NoVectors
<1>2. CASE BatchApplied \/ Publish \/ UNCHANGED vars
  <2>1. UNCHANGED <<mode, rebuild, truth, watermark, index>>
    BY <1>2 DEF BatchApplied, Publish, vars
  <2>2. Current' = Current
    BY <2>1 DEF Current, Seeded, Pooled
  <2>3. Applied' = Applied
    BY <1>2, PublishingMovesNothing DEF EngineInv
  <2>4. QED
    BY <2>1, <2>2, <2>3, SeenSteps
<1>3. CASE Dispatch
  <2>1. Pooled /\ UNCHANGED <<mode, truth>>
    BY <1>3 DEF Dispatch
  <2>2. ~ Current /\ ~ Current'
    BY <2>1 DEF Current, Pooled
  <2>3. QED
    BY <2>1, <2>2, UnseenSteps
<1>4. ASSUME NEW w \in Workers, Take(w) PROVE UNCHANGED Stale!vars
  <2>1. UNCHANGED <<mode, rebuild, truth, watermark, index>>
    BY <1>4 DEF Take
  <2>2. Current' = Current
    BY <2>1 DEF Current, Seeded, Pooled
  <2>3. Current => Applied' = Applied
    BY <1>4, OnlyApplyMoves DEF EngineInv, Current
  <2>4. QED
    BY <2>1, <2>2, <2>3, SeenSteps
<1>5. ASSUME NEW w \in Workers, ApplyToIndex(w) PROVE Stale!Advance \/ UNCHANGED Stale!vars
  <2>1. UNCHANGED <<mode, rebuild, truth, watermark>>
    BY <1>5 DEF ApplyToIndex
  <2>2. Current' = Current
    BY <2>1 DEF Current, Seeded, Pooled
  <2>3. CASE ~ Current
    BY <2>1, <2>2, <2>3, UnseenSteps
  <2>4. CASE Current
    <3>1. Ordered /\ ~ Pooled
      BY <2>4 DEF Current, Ordered
    <3>2. Applied \in Nat /\ Applied' = Applied + 1
      BY <1>5, <3>1, ApplyMoves DEF EngineInv
    <3>3. Applied < Len(truth)
      <4>1. Taken = Applied + 1
        BY <1>5, <3>1, ApplyMoves DEF EngineInv
      <4>2. /\ Taken \in Nat /\ Taken <= published /\ published <= Len(truth)
            /\ published \in Nat /\ Len(truth) \in Nat
        BY <3>1, AppliedBounds DEF EngineInv, IInv, Shape, StoreShape
      <4>3. QED
        BY <3>2, <4>1, <4>2
    <3>4. \A s \in Sids : index'[s] = LatestOf(truth, s, Applied')
      BY <1>5, <3>1, ApplyIsACut DEF EngineInv
    <3>5. Stale!IsAsOf(index', truth, Applied')
      <4>1. Applied' \in Nat
        BY <3>2
      <4>2. QED
        BY <3>4, <4>1, LatestIsAsOf
    <3>6. QED
      BY <2>1, <2>2, <2>4, <3>2, <3>3, <3>5 DEF Stale!Advance
  <2>5. QED
    BY <2>3, <2>4
<1>6. ASSUME NEW w \in Workers, Complete(w) PROVE Stale!Tell \/ UNCHANGED Stale!vars
  <2>1. UNCHANGED <<mode, rebuild, truth, index>>
    BY <1>6 DEF Complete
  <2>2. Current' = Current
    BY <2>1 DEF Current, Seeded, Pooled
  <2>3. CASE ~ Current
    BY <2>1, <2>2, <2>3, UnseenSteps
  <2>4. CASE Current
    <3>1. ~ Pooled
      BY <2>4 DEF Current
    <3>2. w = 0 /\ Applied' = Applied /\ worker[0].seq = Applied
      BY <1>6, <3>1, OnlyApplyMoves DEF EngineInv
    <3>3. watermark' = Applied
      BY <1>6, <3>1, <3>2 DEF Complete, Advance
    <3>4. QED
      BY <2>1, <2>2, <2>4, <3>2, <3>3 DEF Stale!Tell
  <2>5. QED
    BY <2>3, <2>4
<1>7. CASE StartRebuild \/ Seed
  <2>1. ~ Current /\ ~ Current' /\ truth' = truth
    BY <1>7 DEF StartRebuild, Seed, Current, Seeded
  <2>2. QED
    BY <2>1, UnseenSteps
<1>8. CASE EndRebuild
  <2>1. ~ Current /\ ~ Seeded /\ Seeded'
    BY <1>8 DEF EndRebuild, Current, Seeded
  <2>2. UNCHANGED <<mode, truth, published, chan, worker, watermark, index>>
    BY <1>8 DEF EndRebuild
  <2>3. CASE ~ Current'
    BY <2>1, <2>2, <2>3, UnseenSteps
  <2>4. CASE Current'
    <3>1. Ordered /\ Ordered' /\ ~ mode.late
      BY <2>2, <2>4 DEF Current, Ordered, Pooled, OnePredPerSubject
    <3>2. Applied' = Applied /\ Applied = Len(truth) /\ Len(truth) \in Nat
      BY <2>1, <2>2, <3>1, NothingBeforeSeeded
         DEF EngineInv, IndexInv, Applied, Taken, IInv, Shape, StoreShape
    <3>3. watermark' = 0
      BY <2>1, <2>2, <3>1 DEF EngineInv, UntoldUntilSeeded
    <3>4. \A s \in Sids : index'[s] = LatestOf(truth, s, Applied')
      BY <2>1, <2>2, <3>1 DEF EngineInv, CutInv
    <3>5. Stale!IsAsOf(index', truth, Applied')
      BY <3>2, <3>4, LatestIsAsOf
    <3>6. QED
      <4>1. Current' = TRUE
        BY <2>4 DEF Current
      <4>2. Stale!Load
        BY <2>1, <2>2, <4>1, <3>2, <3>3, <3>5 DEF Stale!Load
      <4>3. QED
        BY <4>2 DEF Stale!Next
  <2>5. QED
    BY <2>3, <2>4
<1>9. CASE Opens
  <2>1. ~ Current' /\ Stale!TruthKept
    BY <1>9, OpenedAnew DEF Current, Seeded, Stale!TruthKept, EngineInv, IInv, Shape,
       StoreShape
  <2>2. CASE Current
    <3>1. Current' = FALSE
      BY <2>1 DEF Current
    <3>2. Stale!Lose
      BY <2>1, <2>2, <3>1 DEF Stale!Lose, Stale!NoIndex, Stale!Blank, NoVectors
    <3>3. QED
      BY <3>2 DEF Stale!Next
  <2>3. CASE ~ Current
    <3>1. Current = FALSE /\ Current' = FALSE
      BY <2>1, <2>3 DEF Current
    <3>2. Stale!Grow
      BY <2>1, <3>1 DEF Stale!Grow, NoVectors
    <3>3. QED
      BY <3>2 DEF Stale!Next
  <2>4. QED
    BY <2>2, <2>3
<1>10. QED
  BY <1>1, <1>2, <1>3, <1>4, <1>5, <1>6, <1>7, <1>8, <1>9
     DEF AnyStep, Internal, Running, Work, Stale!Next

-----------------------------------------------------------------------------
(* The engine on its own *)

(* A program that owns the engine takes no other steps. *)
LEMMA OwnerSteps == ASSUME EngineInv, [Next]_vars PROVE AnyStep \/ UNCHANGED vars
<1>1. CASE Reopen
  <2>1. <<>> \in Seq(Write) /\ Len(truth) + Len(<<>>) <= MaxCommits
    BY DEF EngineInv, Rest, IInv, Shape, StoreShape
  <2>2. Opens
    BY <1>1, <2>1 DEF Reopen, Opens
  <2>3. QED
    BY <2>2 DEF AnyStep
<1>2. QED
  BY <1>1 DEF Next, OwnerWrites, AnyStep

(* The invariant holds whoever owns the engine.                                *)
LEMMA EngineInvariance == Spec => []EngineInv
<1>1. EngineInv /\ [Next]_vars => EngineInv'
  <2> SUFFICES ASSUME EngineInv, [Next]_vars PROVE EngineInv'
    OBVIOUS
  <2>1. AnyStep \/ UNCHANGED vars
    BY OwnerSteps
  <2>2. QED
    BY <2>1, EngineStep
<1>2. QED
  BY <1>1, InitEngineInv, PTL DEF Spec

(* The state of the materializer has its types: what the watermark's counter      *)
(* passes and what waits behind it are commits published (Completion::complete).  *)
THEOREM EngineTypes == Spec => []TypeOK
<1>1. EngineInv => TypeOK
  BY TypesFromParts DEF EngineInv
<1>2. QED
  BY <1>1, EngineInvariance, PTL

(* The watermark of the engine never claims a commit whose index update was not *)
(* done (Completion::complete), for any number of workers, commits and openings. *)
THEOREM EngineWatermarkIsHonest == Spec => []WatermarkIsHonest
<1>1. EngineInv => WatermarkIsHonest
  BY HonestFromIInv DEF EngineInv
<1>2. QED
  BY <1>1, EngineInvariance, PTL

(* With one thread that seeds before clients write, the index once seeded is the   *)
(* truth as of one commit, at or past the watermark and not past what was          *)
(* published; while it is seeded it has of each subject what the truth was opened   *)
(* with or nothing.  This is for stores that write a subject under one predicate   *)
(* (materializer.rs apply; rebuild_index_from_truth): with two it need not be, the  *)
(* index has one place for a subject.                                          *)
THEOREM EngineIndexIsACut == Spec => [](OnePredPerSubject => IndexIsACut)
<1>1. EngineInv => (OnePredPerSubject => IndexIsACut)
  BY CutFromInv
<1>2. QED
  BY <1>1, EngineInvariance, PTL

(* ... and its changes are those of StaleIndex: it goes from one commit to the next,   *)
(* is lost with the process, comes back as the whole truth, and is never further     *)
(* back than what sync reported since.                                         *)
THEOREM EngineKeepsAStaleIndex == Spec /\ []OnePredPerSubject => ImplementsStaleIndex
<1>1. EngineInv /\ EngineInv' /\ OnePredPerSubject /\ [Next]_vars => [Stale!Next]_(Stale!vars)
  <2> SUFFICES ASSUME EngineInv, EngineInv', OnePredPerSubject, [Next]_vars
               PROVE  [Stale!Next]_(Stale!vars)
    OBVIOUS
  <2>1. AnyStep \/ UNCHANGED vars
    BY OwnerSteps
  <2>2. QED
    BY <2>1, StaleStep
<1>2. QED
  BY <1>1, StaleInit, EngineInvariance, PTL DEF Spec, ImplementsStaleIndex, Stale!Spec

(* ... so that when it rests the index is the truth.  A pool does not promise this. *)
THEOREM SingleThreadCatchesUp ==
  Spec => [](OnePredPerSubject /\ ~ Pooled /\ ~ mode.late => QuietIndexIsCurrent)
<1>1. EngineInv => (OnePredPerSubject /\ ~ Pooled /\ ~ mode.late => QuietIndexIsCurrent)
  BY QuietFromInv DEF Ordered
<1>2. QED
  BY <1>1, EngineInvariance, PTL

(* A pool that finishes in any order, and a rebuild that runs beside the writes,    *)
(* lose no record: once the rebuild is over, a subject written once is in the index *)
(* if it was recovered, if the watermark has passed it, or when all is worked off   *)
(* (materializer.rs spawn_pooled, engine.rs rebuild_index_from_truth), for any      *)
(* number of workers, predicates, commits and openings.                         *)
THEOREM EngineIndexesSoleWrites == Spec => []SoleWriteIsIndexed
<1>1. EngineInv => SoleWriteIsIndexed
  BY SoleWriteFromInv
<1>2. QED
  BY <1>1, EngineInvariance, PTL

-----------------------------------------------------------------------------
(* The server's store *)

Load == [at : {"idle", "putting", "waiting", "syncing"}, todo : Seq(Grain),
         sids : SUBSET Sids, seq : Nat, max : Nat]

(* What is left of a batch is grains; a handler that waits for the answer to a   *)
(* put has still the grain it put.                                            *)
LoaderShape ==
  /\ loader \in [Loaders -> Load]
  /\ \A l \in Loaders : loader[l].at = "waiting" => loader[l].todo # <<>>
  /\ lastSeq \in Nat

(* What is staged are writes, of a served store; one that is applied is there.      *)
LogShape ==
  /\ batch \in Seq(Write)
  /\ committer \in {"staging", "applying", "stopped"}
  /\ committer = "applying" => batch # <<>>
  /\ ~ mode.served => batch = <<>>
  /\ Len(truth) + Len(batch) <= MaxCommits

(* The log begins with the truth. *)
LEMMA LogIs ==
  ASSUME truth \in Seq(Write), batch \in Seq(Write)
  PROVE  /\ Log \in Seq(Write) /\ Len(Log) = Len(truth) + Len(batch)
         /\ Len(truth) \in Nat /\ Len(batch) \in Nat /\ Len(Log) \in Nat
         /\ DOMAIN Log = 1 .. Len(Log) /\ Len(truth) <= Len(Log)
         /\ \A i \in DOMAIN truth : i \in DOMAIN Log /\ Log[i] = truth[i]
         /\ \A i \in 1 .. Len(batch) :
              Len(truth) + i \in DOMAIN Log /\ Log[Len(truth) + i] = batch[i]
<1>1. Log = truth \o batch
  BY DEF Log
<1>2. /\ Log \in Seq(Write) /\ Len(Log) = Len(truth) + Len(batch)
      /\ Len(truth) \in Nat /\ Len(batch) \in Nat
  BY <1>1
<1>3. QED
  BY <1>1, <1>2

(* Applying the first staged write leaves the log as it was.                     *)
LEMMA ApplyingMovesNothing ==
  ASSUME NEW t \in Seq(Write), NEW b \in Seq(Write), b # <<>>
  PROVE  /\ Append(t, Head(b)) \o Tail(b) = t \o b
         /\ Head(b) \in Write /\ Tail(b) \in Seq(Write) /\ Len(Tail(b)) = Len(b) - 1
<1>1. /\ Head(b) \in Write /\ Tail(b) \in Seq(Write) /\ Len(Tail(b)) = Len(b) - 1
      /\ Len(b) \in Nat \ {0} /\ Len(t) \in Nat /\ Head(b) = b[1]
      /\ \A i \in 1 .. Len(b) - 1 : Tail(b)[i] = b[i + 1]
  OBVIOUS
<1> DEFINE u == Append(t, Head(b))
           v == u \o Tail(b)
           w == t \o b
<1>2. /\ u \in Seq(Write) /\ Len(u) = Len(t) + 1 /\ u[Len(t) + 1] = b[1]
      /\ \A i \in 1 .. Len(t) : u[i] = t[i]
  BY <1>1
<1> HIDE DEF u
<1>3. /\ v \in Seq(Write) /\ Len(v) = Len(t) + Len(b)
      /\ \A i \in 1 .. Len(t) + 1 : v[i] = u[i]
      /\ \A i \in 1 .. Len(b) - 1 : v[Len(t) + 1 + i] = Tail(b)[i]
  BY <1>1, <1>2
<1>4. /\ w \in Seq(Write) /\ Len(w) = Len(t) + Len(b)
      /\ \A i \in 1 .. Len(t) : w[i] = t[i]
      /\ \A i \in 1 .. Len(b) : w[Len(t) + i] = b[i]
  BY <1>1
<1> HIDE DEF v, w
<1>5. ASSUME NEW i \in 1 .. Len(t) + Len(b) PROVE v[i] = w[i]
  <2>1. CASE i <= Len(t)
    BY <1>1, <1>2, <1>3, <1>4, <2>1
  <2>2. CASE i = Len(t) + 1
    <3>1. v[i] = b[1]
      BY <1>1, <1>2, <1>3, <2>2
    <3>2. 1 \in 1 .. Len(b)
      BY <1>1
    <3>3. w[Len(t) + 1] = b[1]
      BY <1>4, <3>2
    <3>4. QED
      BY <2>2, <3>1, <3>3
  <2>3. CASE i > Len(t) + 1
    <3>1. PICK k \in 1 .. Len(b) - 1 : i = Len(t) + 1 + k
      <4>1. i - Len(t) - 1 \in 1 .. Len(b) - 1 /\ i = Len(t) + 1 + (i - Len(t) - 1)
        BY <1>1, <2>3
      <4>2. QED
        BY <4>1
    <3>2. v[i] = b[k + 1]
      BY <1>1, <1>3, <3>1
    <3>3. k + 1 \in 1 .. Len(b) /\ i = Len(t) + (k + 1)
      BY <1>1, <3>1
    <3>4. w[i] = b[k + 1]
      BY <1>4, <3>3
    <3>5. QED
      BY <3>2, <3>4
  <2>4. QED
    BY <1>1, <2>1, <2>2, <2>3
<1>6. v = w
  BY <1>1, <1>3, <1>4, <1>5
<1>7. QED
  BY <1>1, <1>6 DEF u, v, w

(* The greater of two numbers is one of them, and at least either. *)
LEMMA MaxOfTwo ==
  \A m, n \in Nat : /\ Max({m, n}) \in Nat
                    /\ m <= Max({m, n}) /\ n <= Max({m, n})
                    /\ \A b : m <= b /\ n <= b => Max({m, n}) <= b
<1> SUFFICES ASSUME NEW m \in Nat, NEW n \in Nat
             PROVE  /\ Max({m, n}) \in Nat
                    /\ m <= Max({m, n}) /\ n <= Max({m, n})
                    /\ \A b : m <= b /\ n <= b => Max({m, n}) <= b
  OBVIOUS
<1>1. \E x \in {m, n} : \A y \in {m, n} : x >= y
  BY m >= n \/ n >= m
<1>2. Max({m, n}) \in {m, n} /\ \A y \in {m, n} : Max({m, n}) >= y
  BY <1>1 DEF Max
<1>3. QED
  BY <1>2

(* A handler that begins or ends a load keeps its shape. *)
LEMMA LoadShape ==
  ASSUME LoaderShape, NEW l \in Loaders,
         StartLoad(l) \/ PutFails(l) \/ EndPuts(l) \/ SyncMet(l) \/ SyncTimesOut(l)
  PROVE  LoaderShape'
<1>1. Resting \in Load
  BY DEF Resting, Load
<1>2. CASE StartLoad(l)
  <2>1. PICK grains \in Batches :
          loader' = [loader EXCEPT ![l] =
            [Resting EXCEPT !.at = "putting", !.todo = grains, !.max = lastSeq,
                            !.sids = {grains[i].sid : i \in DOMAIN grains}]]
    BY <1>2 DEF StartLoad
  <2>2. grains \in Seq(Grain)
    BY ServerStoreAssumption DEF Grain
  <2>3. {grains[i].sid : i \in DOMAIN grains} \subseteq Sids
    <3>1. \A i \in DOMAIN grains : grains[i] \in Grain
      BY <2>2
    <3>2. QED
      BY <3>1 DEF Grain
  <2>4. QED
    BY <1>2, <2>1, <2>2, <2>3 DEF StartLoad, LoaderShape, Load, Resting
<1>3. CASE PutFails(l) \/ SyncMet(l) \/ SyncTimesOut(l)
  <2>1. loader' = [loader EXCEPT ![l] = Resting] /\ lastSeq' = lastSeq
    BY <1>3 DEF PutFails, SyncMet, SyncTimesOut
  <2>2. QED
    BY <1>1, <2>1 DEF LoaderShape, Resting
<1>4. CASE EndPuts(l)
  <2>1. lastSeq' \in Nat
    BY <1>4, MaxOfTwo DEF EndPuts, LoaderShape, Load
  <2>2. QED
    BY <1>4, <2>1 DEF EndPuts, LoaderShape, Load
<1>5. QED
  BY <1>2, <1>3, <1>4

(* So does one that puts a grain or gets the answer to a put.                   *)
LEMMA PutShape ==
  ASSUME LoaderShape, LogShape, truth \in Seq(Write), NEW l \in Loaders,
         PutKnown(l) \/ PutNew(l) \/ PutAnswered(l)
  PROVE  LoaderShape'
<1>1. ASSUME NEW n \in Nat, Answered(l, n), loader[l].todo # <<>>, lastSeq' = lastSeq
      PROVE  LoaderShape'
  <2>1. Tail(loader[l].todo) \in Seq(Grain) /\ Max({loader[l].max, n}) \in Nat
    <3>1. loader[l].max \in Nat
      BY DEF LoaderShape, Load
    <3>2. Max({loader[l].max, n}) \in Nat
      BY <3>1, MaxOfTwo
    <3>3. QED
      BY <1>1, <3>2 DEF LoaderShape, Load
  <2> DEFINE after == [loader[l] EXCEPT !.at = "putting", !.todo = Tail(loader[l].todo),
                                       !.seq = 0, !.max = Max({loader[l].max, n})]
  <2>2. after \in Load /\ after.at = "putting"
    BY <2>1 DEF LoaderShape, Load
  <2>3. loader' = [loader EXCEPT ![l] = after]
    BY <1>1 DEF Answered, LoaderShape, Load
  <2> HIDE DEF after
  <2>4. QED
    BY <1>1, <2>2, <2>3 DEF LoaderShape
<1>2. CASE PutKnown(l)
  <2>1. PICK i \in Original(Head(loader[l].todo).sid) : Answered(l, i)
    BY <1>2 DEF PutKnown
  <2>2. i \in Nat
    BY LogIs DEF Original, LogShape
  <2>3. QED
    BY <1>1, <1>2, <2>1, <2>2 DEF PutKnown, Meets
<1>3. CASE PutNew(l)
  <2>1. Len(Log) + 1 \in Nat
    BY LogIs DEF LogShape
  <2>2. QED
    BY <1>3, <2>1 DEF PutNew, Meets, LoaderShape, Load
<1>4. CASE PutAnswered(l)
  <2>1. loader[l].seq \in Nat /\ loader[l].todo # <<>>
    BY <1>4 DEF PutAnswered, LoaderShape, Load
  <2>2. QED
    BY <1>1, <1>4, <2>1 DEF PutAnswered
<1>5. QED
  BY <1>2, <1>3, <1>4

(* The write of a handler is one more in the log, the first of its subject.        *)
LEMMA PutNewStages ==
  ASSUME LoaderShape, LogShape, truth \in Seq(Write), mode.served,
         NEW l \in Loaders, PutNew(l)
  PROVE  /\ LogShape'
         /\ Len(Log') = Len(Log) + 1 /\ DOMAIN Log' = 1 .. Len(Log) + 1
         /\ \A i \in DOMAIN Log : i \in DOMAIN Log' /\ Log'[i] = Log[i]
         /\ Log'[Len(Log) + 1].sid = Head(loader[l].todo).sid
         /\ \A i \in DOMAIN Log : Log[i].sid # Head(loader[l].todo).sid
<1> DEFINE g == Head(loader[l].todo)
           r == [sid |-> g.sid, pred |-> 0, kind |-> g.kind]
<1>1. g \in Grain
  BY DEF PutNew, Meets, LoaderShape, Load
<1>2. r \in Write /\ r.sid = g.sid
  BY <1>1, ServerStoreAssumption DEF Grain, Write
<1>3. /\ batch' = Append(batch, r) /\ UNCHANGED vars /\ UNCHANGED committer
      /\ committer = "staging" /\ Original(g.sid) = {} /\ Len(Log) < MaxCommits
  BY DEF PutNew, Meets
<1> HIDE DEF g, r
<1>4. /\ Log \in Seq(Write) /\ Len(Log) = Len(truth) + Len(batch)
      /\ DOMAIN Log = 1 .. Len(Log) /\ Len(Log) \in Nat
      /\ Len(truth) \in Nat /\ Len(batch) \in Nat
  BY LogIs DEF LogShape
<1>5. batch' \in Seq(Write) /\ Len(batch') = Len(batch) + 1
  BY <1>2, <1>3 DEF LogShape
<1>6. mode.served => mode'.served
  BY <1>3 DEF vars
<1>7. LogShape'
  <2>1. Len(truth') + Len(batch') <= MaxCommits
    BY <1>3, <1>4, <1>5, MaterializerAssumption DEF vars
  <2>2. QED
    BY <1>3, <1>5, <1>6, <2>1 DEF LogShape
<1>8. Log' = Append(Log, r)
  <2>1. Log' = truth \o Append(batch, r)
    BY <1>3 DEF Log, vars
  <2>2. truth \o Append(batch, r) = Append(truth \o batch, r)
    BY <1>2 DEF LogShape
  <2>3. QED
    BY <2>1, <2>2 DEF Log
<1>9. \A i \in DOMAIN Log : Log[i].sid # g.sid
  BY <1>3 DEF Original
<1>10. /\ Len(Log') = Len(Log) + 1 /\ DOMAIN Log' = 1 .. Len(Log) + 1
       /\ \A i \in DOMAIN Log : i \in DOMAIN Log' /\ Log'[i] = Log[i]
       /\ Log'[Len(Log) + 1] = r
  <2>1. ASSUME NEW q \in Seq(Write), NEW p, p = Append(q, r)
        PROVE  /\ Len(p) = Len(q) + 1 /\ DOMAIN p = 1 .. Len(q) + 1
               /\ \A i \in DOMAIN q : i \in DOMAIN p /\ p[i] = q[i]
               /\ p[Len(q) + 1] = r
    BY <1>2, <2>1
  <2> HIDE DEF Log
  <2>2. Log \in Seq(Write) /\ Log' = Append(Log, r)
    BY <1>4, <1>8
  <2>3. QED
    BY ONLY <2>1, <2>2, Zenon
<1>11. QED
  BY <1>2, <1>7, <1>9, <1>10 DEF g

(* A step of the committer commits the first staged write, and the log stays.       *)
LEMMA ApplyCommits ==
  ASSUME LogShape, truth \in Seq(Write), Apply
  PROVE  LogShape' /\ Log' = Log /\ \E r \in Write : Commit(r)
<1>1. /\ batch \in Seq(Write) /\ batch # <<>> /\ Commit(Head(batch))
      /\ batch' = Tail(batch)
      /\ committer' = IF batch' = <<>> THEN "staging" ELSE "applying"
  BY DEF Apply, LogShape
<1>2. /\ Head(batch) \in Write /\ Tail(batch) \in Seq(Write)
      /\ Len(Tail(batch)) = Len(batch) - 1
      /\ Append(truth, Head(batch)) \o Tail(batch) = truth \o batch
  BY <1>1, ApplyingMovesNothing
<1>3. truth' = Append(truth, Head(batch)) /\ mode' = mode
  BY <1>1 DEF Commit
<1>4. Log' = Log
  BY <1>1, <1>2, <1>3 DEF Log
<1>5. Len(truth') = Len(truth) + 1 /\ Len(truth) \in Nat /\ Len(batch) \in Nat
  BY <1>1, <1>2, <1>3
<1>6. mode.served
  BY <1>1 DEF LogShape
<1>7. Len(truth') + Len(batch') <= MaxCommits
  BY <1>1, <1>2, <1>5, MaterializerAssumption DEF LogShape
<1>8. LogShape'
  BY <1>1, <1>2, <1>3, <1>6, <1>7 DEF LogShape
<1>9. QED
  BY <1>1, <1>2, <1>4, <1>8

(* A restart recovers a beginning of the log.                                   *)
LEMMA RestartOpens ==
  ASSUME LogShape, truth \in Seq(Write), Restart
  PROVE  /\ Opens /\ LogShape' /\ Log' = truth' /\ truth' \in Seq(Write)
         /\ \A i \in DOMAIN truth' : i \in DOMAIN Log /\ truth'[i] = Log[i]
<1>1. PICK u \in Unapplied : ReopenWith(u)
  BY DEF Restart
<1>2. /\ Log = truth \o batch /\ batch \in Seq(Write)
      /\ Len(truth) \in Nat /\ Len(batch) \in Nat
  BY DEF Log, LogShape
<1>3. /\ u \in Seq(Write) /\ Len(u) <= Len(batch) /\ Len(u) \in Nat
      /\ \A i \in 1 .. Len(u) : u[i] = batch[i]
  <2>1. u = batch \/ \E n \in 0 .. Len(batch) : u = SubSeq(batch, 1, n)
    BY DEF Unapplied
  <2>2. ASSUME NEW n \in 0 .. Len(batch)
        PROVE  /\ SubSeq(batch, 1, n) \in Seq(Write) /\ Len(SubSeq(batch, 1, n)) = n
               /\ \A i \in 1 .. n : SubSeq(batch, 1, n)[i] = batch[i]
    BY <1>2
  <2>3. CASE u = batch
    BY <1>2, <2>3
  <2>4. CASE \E n \in 0 .. Len(batch) : u = SubSeq(batch, 1, n)
    <3>1. PICK n \in 0 .. Len(batch) : u = SubSeq(batch, 1, n)
      BY <2>4
    <3>2. n \in Nat /\ n <= Len(batch)
      BY <1>2
    <3>3. u \in Seq(Write) /\ Len(u) = n /\ \A i \in 1 .. n : u[i] = batch[i]
      BY <2>2, <3>1
    <3>4. QED
      BY <3>2, <3>3
  <2>5. QED
    BY <2>1, <2>3, <2>4
<1>4. Len(truth) + Len(u) <= MaxCommits
  BY <1>2, <1>3, MaterializerAssumption DEF LogShape
<1>5. Opens
  BY <1>1, <1>3, <1>4 DEF Opens
<1>6. truth' = truth \o u /\ batch' = <<>> /\ committer' = "staging"
  BY <1>1 DEF ReopenWith, Restart
<1>7. truth' \in Seq(Write) /\ Len(truth') = Len(truth) + Len(u) /\ Log' = truth'
  BY <1>3, <1>6 DEF Log
<1>8. LogShape'
  BY <1>4, <1>6, <1>7 DEF LogShape
<1>9. ASSUME NEW i \in DOMAIN truth' PROVE i \in DOMAIN Log /\ truth'[i] = Log[i]
  <2>1. i \in 1 .. Len(truth) + Len(u)
    BY <1>7
  <2>2. CASE i <= Len(truth)
    BY <1>2, <1>3, <1>6, <2>1, <2>2
  <2>3. CASE i > Len(truth)
    <3>1. PICK k \in 1 .. Len(u) : i = Len(truth) + k
      <4>1. i - Len(truth) \in 1 .. Len(u) /\ i = Len(truth) + (i - Len(truth))
        BY <1>2, <1>3, <2>1, <2>3
      <4>2. QED
        BY <4>1
    <3>2. truth'[i] = u[k]
      BY <1>2, <1>3, <1>6, <3>1
    <3>3. k \in 1 .. Len(batch)
      BY <1>2, <1>3
    <3>4. Len(truth) + k \in DOMAIN Log /\ Log[Len(truth) + k] = batch[k]
      BY <1>2, <3>3, LogIs
    <3>5. QED
      BY <1>3, <3>1, <3>2, <3>4
  <2>4. QED
    BY <1>2, <2>1, <2>2, <2>3
<1>10. QED
  BY <1>5, <1>7, <1>8, <1>9

(* The engine below the handlers leaves what is staged.                          *)
LEMMA BelowKeepsLog ==
  ASSUME LogShape, truth \in Seq(Write), Rest', (OwnerWrites \/ Internal) /\ UNCHANGED storeVars
  PROVE  /\ LogShape'
         /\ \/ truth' = truth /\ mode' = mode /\ Log' = Log
            \/ ~ mode.served /\ ~ mode'.served
         /\ Len(Log) <= Len(Log')
         /\ \A i \in DOMAIN Log : i \in DOMAIN Log' /\ Log'[i] = Log[i]
<1>1. UNCHANGED <<batch, committer>>
  BY DEF storeVars
<1>2. CASE OwnerWrites
  <2>1. PICK r \in Write : Commit(r)
    BY <1>2 DEF OwnerWrites
  <2>2. /\ ~ mode.served /\ batch = <<>> /\ mode' = mode /\ truth' = Append(truth, r)
    BY <1>2, <2>1 DEF OwnerWrites, Commit, LogShape
  <2>3. Log = truth /\ Log' = truth' /\ truth' \in Seq(Write)
    BY <1>1, <2>2 DEF Log
  <2>4. Len(truth') + Len(batch') <= MaxCommits
    <3>1. Len(truth') <= MaxCommits /\ Len(batch') = 0 /\ Len(truth') \in Nat
      BY <1>1, <2>2, <2>3 DEF Rest
    <3>2. QED
      BY <3>1
  <2>5. LogShape'
    BY <1>1, <2>2, <2>4 DEF LogShape
  <2>6. QED
    BY <2>2, <2>3, <2>5
<1>3. CASE Internal
  <2>1. truth' = truth /\ mode' = mode
    BY <1>3 DEF Internal, Running, BatchApplied, Publish, Dispatch, Work, Take, ApplyToIndex,
       Complete, StartRebuild, Seed, EndRebuild
  <2>2. Log' = Log /\ LogShape'
    BY <1>1, <2>1 DEF Log, LogShape
  <2>3. Len(Log) \in Nat
    BY LogIs DEF LogShape
  <2>4. QED
    BY <2>1, <2>2, <2>3
<1>4. QED
  BY <1>2, <1>3

(* The server takes no step that the engine would not.                         *)
LEMMA StoreStep ==
  ASSUME LoaderShape, LogShape, truth \in Seq(Write), [StoreNext]_allVars
  PROVE  LoaderShape' /\ (AnyStep \/ UNCHANGED vars)
<1>1. CASE (OwnerWrites \/ AllApplied \/ Running) /\ UNCHANGED storeVars
  BY <1>1 DEF OwnerWrites, AllApplied, Internal, AnyStep, LoaderShape, storeVars
<1>2. ASSUME NEW l \in Loaders,
             StartLoad(l) \/ PutFails(l) \/ EndPuts(l) \/ SyncMet(l) \/ SyncTimesOut(l)
      PROVE  LoaderShape' /\ UNCHANGED vars
  BY <1>2, LoadShape DEF StartLoad, PutFails, EndPuts, SyncMet, SyncTimesOut
<1>3. ASSUME NEW l \in Loaders, PutKnown(l) \/ PutNew(l) \/ PutAnswered(l)
      PROVE  LoaderShape' /\ UNCHANGED vars
  BY <1>3, PutShape DEF PutKnown, PutNew, PutAnswered
<1>4. CASE WriteBatch \/ WriteFails
  BY <1>4 DEF WriteBatch, WriteFails, LoaderShape
<1>5. CASE Apply
  <2>1. LoaderShape'
    BY <1>5 DEF Apply, LoaderShape
  <2>2. QED
    BY <1>5, <2>1, ApplyCommits DEF AnyStep
<1>6. CASE Restart
  <2>1. LoaderShape'
    BY <1>6 DEF Restart, LoaderShape, Resting, Load
  <2>2. QED
    BY <1>6, <2>1, RestartOpens DEF AnyStep
<1>7. CASE UNCHANGED allVars
  BY <1>7 DEF allVars, storeVars, LoaderShape
<1>8. QED
  BY <1>1, <1>2, <1>3, <1>4, <1>5, <1>6, <1>7 DEF StoreNext, Put

(* A subject has one write in a served store, applied or staged, whichever handlers   *)
(* load it, however often, and across restarts.                                  *)
OneWritePerSubject ==
  mode.served => \A i, j \in DOMAIN Log : Log[i].sid = Log[j].sid => i = j

(* Only handlers of a server load. *)
LoadsAreServed == \A l \in Loaders : loader[l].at # "idle" => mode.served

LEMMA OneWriteStep ==
  ASSUME LoaderShape, LogShape, StoreShape, LoadsAreServed, OneWritePerSubject, Rest',
         [StoreNext]_allVars
  PROVE  LogShape' /\ OneWritePerSubject'
<1>0. truth \in Seq(Write)
  BY DEF StoreShape
<1>1. ASSUME Log' = Log, mode'.served => mode.served PROVE OneWritePerSubject'
  BY <1>1 DEF OneWritePerSubject
<1>2. ASSUME NEW l \in Loaders, PutNew(l) PROVE LogShape' /\ OneWritePerSubject'
  <2> DEFINE s == Head(loader[l].todo).sid
  <2>1. /\ LogShape' /\ Len(Log) \in Nat
        /\ DOMAIN Log = 1 .. Len(Log) /\ DOMAIN Log' = 1 .. Len(Log) + 1
        /\ \A i \in DOMAIN Log : i \in DOMAIN Log' /\ Log'[i] = Log[i]
        /\ Log'[Len(Log) + 1].sid = s
        /\ \A i \in DOMAIN Log : Log[i].sid # s
    <3>1. mode.served
      BY <1>2 DEF LoadsAreServed, PutNew, Meets
    <3>2. QED
      BY <1>0, <1>2, <3>1, PutNewStages, LogIs DEF LogShape
  <2>2. mode' = mode
    BY <1>2 DEF PutNew, vars
  <2> HIDE DEF s
  <2>3. QED
    BY <2>1, <2>2 DEF OneWritePerSubject
<1>3. CASE (OwnerWrites \/ AllApplied \/ Running) /\ UNCHANGED storeVars
  <2>1. (OwnerWrites \/ Internal) /\ UNCHANGED storeVars
    BY <1>3 DEF AllApplied, Internal
  <2>2. /\ LogShape'
        /\ \/ truth' = truth /\ mode' = mode /\ Log' = Log
           \/ ~ mode.served /\ ~ mode'.served
    BY <1>0, <2>1, BelowKeepsLog
  <2>3. QED
    BY <1>1, <2>2 DEF OneWritePerSubject
<1>4. CASE Apply
  <2>1. LogShape' /\ Log' = Log
    BY <1>0, <1>4, ApplyCommits
  <2>2. mode' = mode
    BY <1>4 DEF Apply, Commit
  <2>3. QED
    BY <1>1, <2>1, <2>2
<1>5. CASE Restart
  <2>1. /\ LogShape' /\ Log' = truth'
        /\ \A i \in DOMAIN truth' : i \in DOMAIN Log /\ truth'[i] = Log[i]
    BY <1>0, <1>5, RestartOpens
  <2>2. mode'.served => mode.served
    BY <1>5 DEF Restart, ReopenWith, Reopens
  <2>3. QED
    BY <2>1, <2>2 DEF OneWritePerSubject
<1>6. ASSUME UNCHANGED <<vars, batch, committer>> \/ WriteBatch \/ WriteFails
      PROVE  LogShape' /\ OneWritePerSubject'
  <2>1. UNCHANGED vars /\ UNCHANGED batch
    BY <1>6 DEF WriteBatch, WriteFails
  <2>2. \/ UNCHANGED committer
        \/ committer' = "applying" /\ batch # <<>>
        \/ committer' = "stopped"
    BY <1>6 DEF WriteBatch, WriteFails
  <2>3. LogShape' /\ Log' = Log
    BY <2>1, <2>2 DEF LogShape, Log, vars
  <2>4. mode' = mode
    BY <2>1 DEF vars
  <2>5. QED
    BY <1>1, <2>3, <2>4
<1>7. ASSUME NEW l \in Loaders,
             StartLoad(l) \/ PutKnown(l) \/ PutAnswered(l) \/ PutFails(l) \/ EndPuts(l)
             \/ SyncMet(l) \/ SyncTimesOut(l)
      PROVE  LogShape' /\ OneWritePerSubject'
  BY <1>6, <1>7 DEF StartLoad, PutKnown, PutAnswered, PutFails, EndPuts, SyncMet, SyncTimesOut
<1>8. CASE UNCHANGED allVars
  BY <1>6, <1>8 DEF allVars, storeVars
<1>9. QED
  BY <1>2, <1>3, <1>4, <1>5, <1>6, <1>7, <1>8 DEF StoreNext, Put

(* A grain of the batch is still to be put, or its commit is one the load waits   *)
(* for.                                                                      *)
Remains(l, s) == \E k \in DOMAIN loader[l].todo : loader[l].todo[k].sid = s

Gathered(l, s) == \E i \in DOMAIN Log : Log[i].sid = s /\ i <= loader[l].max

(* A commit of the subject was seeded or applied. *)
Secured(s) == \E i \in DOMAIN truth : truth[i].sid = s /\ (i <= base \/ i \in handled)

(* A load knows for every grain of its batch what to wait for.                   *)
LoadIsKnown(l) ==
  /\ loader[l].seq <= Len(Log) /\ loader[l].max <= Len(Log)
  /\ loader[l].at # "idle" =>
       mode.served /\ Seeded /\ \A s \in loader[l].sids : Remains(l, s) \/ Gathered(l, s)
  /\ loader[l].at = "waiting" =>
       /\ loader[l].seq \in DOMAIN Log
       /\ Log[loader[l].seq].sid = Head(loader[l].todo).sid
  /\ loader[l].at = "syncing" => loader[l].todo = <<>>

LoadedIsSecured ==
  /\ lastSeq <= Len(Log)
  /\ \A s \in loaded : s \in Sids /\ mode.served /\ Seeded /\ Secured(s)

LoadsAreKnown == (\A l \in Loaders : LoadIsKnown(l)) /\ LoadedIsSecured

(* While the store is open nothing committed, handled or seeded is undone.         *)
Grows ==
  /\ mode' = mode /\ base' = base
  /\ rebuild = "done" => rebuild' = "done"
  /\ handled \subseteq handled'
  /\ Len(truth) <= Len(truth')
  /\ \A i \in DOMAIN truth : i \in DOMAIN truth' /\ truth'[i] = truth[i]

(* ... nor anything staged. *)
LogGrows ==
  /\ Len(Log) <= Len(Log') /\ Len(Log) \in Nat /\ Len(Log') \in Nat
  /\ \A i \in DOMAIN Log : i \in DOMAIN Log' /\ Log'[i] = Log[i]

LEMMA EngineGrows ==
  ASSUME IInv, (\E r \in Write : Commit(r)) \/ Internal \/ UNCHANGED vars
  PROVE  Grows
<1> USE DEF chans, marks
<1>0. truth \in Seq(Write) /\ Len(truth) \in Nat
  BY DEF IInv, Shape, StoreShape
<1>1. ASSUME NEW r \in Write, Commit(r) PROVE Grows
  BY <1>0, <1>1, Commits DEF Grows
<1>2. CASE BatchApplied \/ Publish \/ Dispatch \/ UNCHANGED vars
  BY <1>0, <1>2 DEF BatchApplied, Publish, Dispatch, vars, Grows
<1>3. CASE StartRebuild \/ Seed \/ EndRebuild
  BY <1>0, <1>3 DEF StartRebuild, Seed, EndRebuild, Grows
<1>4. ASSUME NEW w \in Workers, Work(w) PROVE Grows
  <2>1. /\ mode' = mode /\ base' = base /\ rebuild' = rebuild /\ truth' = truth
        /\ handled' = handled \/ handled' = handled \union {worker[w].seq}
    BY <1>4 DEF Work, Take, ApplyToIndex, Complete
  <2>2. QED
    BY <1>0, <2>1 DEF Grows
<1>5. QED
  BY <1>1, <1>2, <1>3, <1>4 DEF Internal, Running

(* A load that does not move stays known. *)
LEMMA KnownGrows ==
  ASSUME LoaderShape, Grows, LogGrows,
         NEW l \in Loaders, LoadIsKnown(l), loader'[l] = loader[l]
  PROVE  LoadIsKnown(l)'
<1>1. loader[l].seq \in Nat /\ loader[l].max \in Nat
  BY DEF LoaderShape, Load
<1>2. loader'[l].seq <= Len(Log') /\ loader'[l].max <= Len(Log')
  BY <1>1 DEF LoadIsKnown, LogGrows
<1>3. \A s : Remains(l, s)' <=> Remains(l, s)
  BY DEF Remains
<1>4. \A s : Gathered(l, s) => Gathered(l, s)'
  BY DEF Gathered, LogGrows
<1>5. QED
  BY <1>2, <1>3, <1>4 DEF LoadIsKnown, Grows, LogGrows, Seeded

(* What was secured stays so. *)
LEMMA SecuredGrows ==
  ASSUME Grows, LogGrows, LoaderShape, LoadedIsSecured
  PROVE  /\ lastSeq <= Len(Log')
         /\ \A s \in loaded : s \in Sids /\ mode'.served /\ Seeded' /\ Secured(s)'
<1>1. lastSeq \in Nat
  BY DEF LoaderShape
<1>2. \A s : Secured(s) => Secured(s)'
  BY DEF Secured, Grows
<1>3. QED
  BY <1>1, <1>2 DEF LoadedIsSecured, Grows, LogGrows, Seeded

(* A handler that begins a load has its whole batch before it.                   *)
LEMMA StartIsKnown ==
  ASSUME EngineInv, LoaderShape, LogShape, LoadsAreKnown, NEW l \in Loaders, StartLoad(l)
  PROVE  LoadIsKnown(l)'
<1>1. PICK grains \in Batches :
        loader' = [loader EXCEPT ![l] =
          [Resting EXCEPT !.at = "putting", !.todo = grains, !.max = lastSeq,
                          !.sids = {grains[i].sid : i \in DOMAIN grains}]]
  BY DEF StartLoad
<1>2. /\ loader'[l].at = "putting" /\ loader'[l].todo = grains /\ loader'[l].seq = 0
      /\ loader'[l].max = lastSeq
      /\ loader'[l].sids = {grains[i].sid : i \in DOMAIN grains}
  BY <1>1 DEF LoaderShape, Resting
<1>3. mode.served /\ Seeded
  <2>1. mode.served /\ open /\ mode \in Modes
    BY DEF StartLoad, EngineInv, IInv, Shape, StoreShape
  <2>2. ~ mode.late
    BY <2>1, ServerStoreAssumption
  <2>3. QED
    BY <2>1, <2>2 DEF EngineInv, IndexInv, OpensSeeded
<1>4. UNCHANGED <<mode, rebuild, Log>> /\ lastSeq <= Len(Log) /\ 0 <= Len(Log)
  <2>1. Len(Log) \in Nat
    BY LogIs DEF LogShape, EngineInv, IInv, Shape, StoreShape
  <2>2. QED
    BY <2>1 DEF StartLoad, vars, LoadsAreKnown, LoadedIsSecured, Log
<1>5. \A s \in loader'[l].sids : Remains(l, s)'
  BY <1>2 DEF Remains
<1>6. QED
  BY <1>2, <1>3, <1>4, <1>5 DEF LoadIsKnown, Seeded

(* A put that is answered leaves a commit of its grain below what the load waits   *)
(* for.                                                                      *)
LEMMA AnsweredIsKnown ==
  ASSUME EngineInv, LoaderShape, LogShape, LoadsAreKnown, NEW l \in Loaders,
         loader[l].at # "idle", loader[l].todo # <<>>,
         NEW n \in DOMAIN Log, Log[n].sid = Head(loader[l].todo).sid,
         Answered(l, n), UNCHANGED <<vars, batch>>
  PROVE  LoadIsKnown(l)'
<1>1. /\ Len(Log) \in Nat /\ n \in 1 .. Len(Log)
      /\ loader[l].max \in Nat /\ loader[l].todo \in Seq(Grain)
      /\ LoadIsKnown(l)
  <2>1. Len(Log) \in Nat /\ n \in 1 .. Len(Log)
    BY LogIs DEF LogShape, EngineInv, IInv, Shape, StoreShape
  <2>2. QED
    BY <2>1 DEF LoaderShape, Load, LoadsAreKnown
<1>2. /\ loader'[l].at = "putting" /\ loader'[l].todo = Tail(loader[l].todo)
      /\ loader'[l].seq = 0 /\ loader'[l].max = Max({loader[l].max, n})
      /\ loader'[l].sids = loader[l].sids
  BY DEF Answered, LoaderShape, Load
<1>3. /\ loader[l].max <= loader'[l].max /\ n <= loader'[l].max
      /\ loader'[l].max <= Len(Log) /\ loader'[l].max \in Nat
  <2> DEFINE m == loader[l].max
  <2>1. m \in Nat /\ n \in Nat /\ m <= Len(Log) /\ n <= Len(Log)
    BY <1>1 DEF LoadIsKnown
  <2> HIDE DEF m
  <2>2. /\ Max({m, n}) \in Nat /\ m <= Max({m, n}) /\ n <= Max({m, n})
        /\ Max({m, n}) <= Len(Log)
    BY <2>1, MaxOfTwo
  <2>3. QED
    BY <1>2, <2>2 DEF m
<1>4. UNCHANGED <<mode, rebuild, Log>>
  BY DEF vars, Log
<1>5. ASSUME NEW s \in loader[l].sids PROVE Remains(l, s)' \/ Gathered(l, s)'
  <2>1. Remains(l, s) \/ Gathered(l, s)
    BY <1>1 DEF LoadIsKnown
  <2>2. CASE Remains(l, s)
    <3>1. PICK k \in DOMAIN loader[l].todo : loader[l].todo[k].sid = s
      BY <2>2 DEF Remains
    <3>2. CASE k = 1
      BY <1>1, <1>3, <1>4, <3>1, <3>2 DEF Gathered
    <3>3. CASE k # 1
      <4>1. k - 1 \in DOMAIN Tail(loader[l].todo)
            /\ Tail(loader[l].todo)[k - 1] = loader[l].todo[k]
        <5> DEFINE q == loader[l].todo
        <5>1. q \in Seq(Grain) /\ q # <<>> /\ k \in DOMAIN q
          BY <1>1, <3>1
        <5> HIDE DEF q
        <5>2. /\ Len(q) \in Nat /\ k \in 1 .. Len(q) /\ DOMAIN Tail(q) = 1 .. Len(q) - 1
              /\ \A m \in 1 .. Len(q) - 1 : Tail(q)[m] = q[m + 1]
          BY <5>1
        <5>3. k - 1 \in 1 .. Len(q) - 1 /\ (k - 1) + 1 = k
          BY <3>3, <5>2
        <5>4. QED
          BY <5>2, <5>3 DEF q
      <4>2. QED
        BY <1>2, <3>1, <4>1 DEF Remains
    <3>4. QED
      BY <3>2, <3>3
  <2>3. CASE Gathered(l, s)
    <3>1. PICK i \in DOMAIN Log : Log[i].sid = s /\ i <= loader[l].max
      BY <2>3 DEF Gathered
    <3>2. i \in Nat
      BY LogIs DEF LogShape, EngineInv, IInv, Shape, StoreShape
    <3>3. i <= loader'[l].max
      BY <1>1, <1>3, <3>1, <3>2
    <3>4. QED
      BY <1>4, <3>1, <3>3 DEF Gathered
  <2>4. QED
    BY <2>1, <2>2, <2>3
<1>6. QED
  BY <1>1, <1>2, <1>3, <1>4, <1>5 DEF LoadIsKnown, Seeded

(* A put knows the commit it waits for, a load that ends its puts all of them.     *)
LEMMA PutsAreKnown ==
  ASSUME EngineInv, LoaderShape, LogShape, LoadsAreKnown, NEW l \in Loaders,
         PutKnown(l) \/ PutNew(l) \/ PutAnswered(l) \/ EndPuts(l)
  PROVE  LoadIsKnown(l)'
<1>1. CASE PutKnown(l)
  <2>1. PICK i \in Original(Head(loader[l].todo).sid) : Answered(l, i)
    BY <1>1 DEF PutKnown
  <2>2. i \in DOMAIN Log /\ Log[i].sid = Head(loader[l].todo).sid
    BY DEF Original
  <2>3. QED
    BY <1>1, <2>1, <2>2, AnsweredIsKnown DEF PutKnown, Meets
<1>2. CASE PutAnswered(l)
  <2>1. /\ loader[l].seq \in DOMAIN Log /\ loader[l].todo # <<>>
        /\ Log[loader[l].seq].sid = Head(loader[l].todo).sid
    BY <1>2 DEF PutAnswered, LoadsAreKnown, LoadIsKnown, LoaderShape
  <2>2. QED
    BY <1>2, <2>1, AnsweredIsKnown DEF PutAnswered
<1>3. CASE PutNew(l)
  <2>1. LoadIsKnown(l) /\ mode.served
    BY <1>3 DEF LoadsAreKnown, LoadIsKnown, PutNew, Meets
  <2>2. /\ Len(Log) \in Nat /\ Len(Log') = Len(Log) + 1
        /\ DOMAIN Log' = 1 .. Len(Log) + 1
        /\ Log'[Len(Log) + 1].sid = Head(loader[l].todo).sid
        /\ \A i \in DOMAIN Log : i \in DOMAIN Log' /\ Log'[i] = Log[i]
        /\ UNCHANGED <<mode, rebuild>>
    <3>1. truth \in Seq(Write)
      BY DEF EngineInv, IInv, Shape, StoreShape
    <3>2. UNCHANGED <<mode, rebuild>>
      BY <1>3 DEF PutNew, vars
    <3>3. QED
      BY <1>3, <2>1, <3>1, <3>2, PutNewStages, LogIs DEF LogShape
  <2>3. /\ loader'[l].at = "waiting" /\ loader'[l].seq = Len(Log) + 1
        /\ loader'[l].todo = loader[l].todo /\ loader'[l].max = loader[l].max
        /\ loader'[l].sids = loader[l].sids /\ loader[l].at = "putting"
        /\ loader[l].max \in Nat
    BY <1>3 DEF PutNew, Meets, LoaderShape, Load
  <2>4. \A s : (Remains(l, s) => Remains(l, s)') /\ (Gathered(l, s) => Gathered(l, s)')
    BY <2>2, <2>3 DEF Remains, Gathered
  <2>5. loader'[l].max <= Len(Log') /\ loader'[l].seq <= Len(Log')
        /\ loader'[l].seq \in DOMAIN Log'
    BY <2>1, <2>2, <2>3 DEF LoadIsKnown
  <2>6. Log'[loader'[l].seq].sid = Head(loader'[l].todo).sid
    BY <2>2, <2>3
  <2>7. QED
    BY <2>1, <2>2, <2>3, <2>4, <2>5, <2>6 DEF LoadIsKnown, Seeded
<1>4. CASE EndPuts(l)
  <2>1. /\ loader'[l].at = "syncing" /\ loader'[l].todo = loader[l].todo
        /\ loader'[l].max = loader[l].max /\ loader'[l].seq = loader[l].seq
        /\ loader'[l].sids = loader[l].sids
        /\ loader[l].at = "putting" /\ loader[l].todo = <<>>
        /\ UNCHANGED <<mode, rebuild, Log>>
    BY <1>4 DEF EndPuts, LoaderShape, Load, vars, Log
  <2>2. \A s : (Remains(l, s) => Remains(l, s)') /\ (Gathered(l, s) => Gathered(l, s)')
    BY <2>1 DEF Remains, Gathered
  <2>3. LoadIsKnown(l)
    BY DEF LoadsAreKnown
  <2>4. QED
    BY <2>1, <2>2, <2>3 DEF LoadIsKnown, Seeded
<1>5. QED
  BY <1>1, <1>2, <1>3, <1>4

(* The watermark a load waited for covers every commit it gathered, and is not past    *)
(* what was applied.                                                         *)
LEMMA SyncSecures ==
  ASSUME EngineInv, LoaderShape, LogShape, LoadsAreKnown, NEW l \in Loaders, SyncMet(l)
  PROVE  \A s \in loader[l].sids : s \in Sids /\ mode.served /\ Seeded /\ Secured(s)
<1>1. /\ loader[l].at = "syncing" /\ loader[l].todo = <<>> /\ watermark >= loader[l].max
      /\ mode.served /\ Seeded
      /\ \A s \in loader[l].sids : Remains(l, s) \/ Gathered(l, s)
  BY DEF SyncMet, LoadsAreKnown, LoadIsKnown
<1>2. loader[l].max \in Nat /\ loader[l].sids \subseteq Sids
  BY DEF LoaderShape, Load
<1>3. WatermarkIsHonest /\ watermark \in Nat /\ base \in Nat /\ DOMAIN truth = 1 .. Len(truth)
  BY HonestFromIInv DEF EngineInv, IInv, Shape, StoreShape, MarkShape
<1>31. /\ watermark <= Len(truth) /\ Len(truth) \in Nat /\ DOMAIN Log = 1 .. Len(Log)
       /\ \A i \in DOMAIN truth : Log[i] = truth[i]
  <2>1. truth \in Seq(Write) /\ batch \in Seq(Write)
    BY DEF EngineInv, IInv, Shape, StoreShape, LogShape
  <2>2. watermark \in 0 .. Len(truth)
    BY TypesFromParts DEF EngineInv, TypeOK
  <2>3. QED
    BY <2>1, <2>2, LogIs
<1>4. ASSUME NEW s \in loader[l].sids PROVE Secured(s)
  <2>1. Gathered(l, s)
    BY <1>1 DEF Remains
  <2>2. PICK i \in DOMAIN Log : Log[i].sid = s /\ i <= loader[l].max
    BY <2>1 DEF Gathered
  <2>3. i \in Nat /\ 1 <= i /\ i <= watermark
    BY <1>1, <1>2, <1>3, <1>31, <2>2
  <2>4. i \in DOMAIN truth /\ truth[i].sid = s
    BY <1>3, <1>31, <2>2, <2>3
  <2>5. i <= base \/ i \in base + 1 .. watermark
    BY <1>3, <2>3
  <2>6. QED
    BY <1>3, <2>4, <2>5 DEF Secured, WatermarkIsHonest
<1>5. QED
  BY <1>1, <1>2, <1>4

(* Every step keeps the loads known and the loaded secured.                      *)
LEMMA LoadsAreKnownStep ==
  ASSUME EngineInv, EngineInv', LoaderShape, LogShape, LogShape', LoadsAreKnown,
         [StoreNext]_allVars
  PROVE  LoadsAreKnown'
<1>0. truth \in Seq(Write) /\ truth' \in Seq(Write) /\ IInv /\ Rest'
  BY DEF EngineInv, IInv, Shape, StoreShape
<1>1. Len(Log) \in Nat /\ Len(Log') \in Nat
  <2>1. Len(Log) \in Nat
    BY <1>0, LogIs DEF LogShape
  <2>2. Log' = truth' \o batch' /\ batch' \in Seq(Write)
    BY DEF Log, LogShape
  <2>3. Len(truth' \o batch') \in Nat
    BY <1>0, <2>2
  <2>4. QED
    BY <2>1, <2>2, <2>3
<1>2. ASSUME Log' = Log PROVE LogGrows
  BY <1>1, <1>2 DEF LogGrows
<1>3. ASSUME Grows, LogGrows, UNCHANGED <<loader, lastSeq, loaded>> PROVE LoadsAreKnown'
  <2>1. \A l \in Loaders : LoadIsKnown(l)'
    BY <1>3, KnownGrows DEF LoadsAreKnown
  <2>2. LoadedIsSecured'
    BY <1>3, SecuredGrows DEF LoadsAreKnown, LoadedIsSecured
  <2>3. QED
    BY <2>1, <2>2 DEF LoadsAreKnown
<1>4. CASE (OwnerWrites \/ AllApplied \/ Running) /\ UNCHANGED storeVars
  <2>1. (OwnerWrites \/ Internal) /\ UNCHANGED storeVars
    BY <1>4 DEF AllApplied, Internal
  <2>2. Grows
    BY <1>0, <2>1, EngineGrows DEF OwnerWrites
  <2>3. LogGrows
    BY <1>0, <1>1, <2>1, BelowKeepsLog DEF LogGrows
  <2>4. QED
    BY <1>3, <2>1, <2>2, <2>3 DEF storeVars
<1>5. CASE WriteBatch \/ WriteFails \/ UNCHANGED allVars
  <2>1. UNCHANGED vars /\ UNCHANGED <<batch, loader, lastSeq, loaded>>
    BY <1>5 DEF WriteBatch, WriteFails, allVars, storeVars
  <2>2. Log' = Log
    BY <2>1 DEF Log, vars
  <2>3. QED
    BY <1>0, <1>2, <1>3, <2>1, <2>2, EngineGrows
<1>6. CASE Apply
  <2>1. Log' = Log /\ \E r \in Write : Commit(r)
    BY <1>0, <1>6, ApplyCommits
  <2>2. UNCHANGED <<loader, lastSeq, loaded>>
    BY <1>6 DEF Apply
  <2>3. QED
    BY <1>0, <1>2, <1>3, <2>1, <2>2, EngineGrows
<1>7. CASE Restart
  <2>1. loader' = [l \in Loaders |-> Resting] /\ lastSeq' = 0 /\ loaded' = {}
    BY <1>7 DEF Restart
  <2>2. QED
    BY <1>1, <2>1 DEF LoadsAreKnown, LoadIsKnown, LoadedIsSecured, Resting
<1>8. ASSUME NEW l \in Loaders,
             StartLoad(l) \/ Put(l) \/ SyncMet(l) \/ SyncTimesOut(l)
      PROVE  LoadsAreKnown'
  <2>1. UNCHANGED vars
    BY <1>8 DEF StartLoad, Put, PutKnown, PutNew, PutAnswered, PutFails, EndPuts, SyncMet,
       SyncTimesOut
  <2>2. Grows
    BY <1>0, <2>1, EngineGrows
  <2>3. LogGrows
    <3>1. CASE PutNew(l)
      <4>1. mode.served
        BY <3>1 DEF PutNew, Meets, LoadsAreKnown, LoadIsKnown
      <4>2. /\ Len(Log') = Len(Log) + 1
            /\ \A i \in DOMAIN Log : i \in DOMAIN Log' /\ Log'[i] = Log[i]
        BY <1>0, <3>1, <4>1, PutNewStages
      <4>3. QED
        BY <1>1, <4>2 DEF LogGrows
    <3>2. CASE ~ PutNew(l)
      <4>1. batch' = batch
        BY <1>8, <3>2 DEF StartLoad, Put, PutKnown, PutAnswered, PutFails, EndPuts, SyncMet,
           SyncTimesOut
      <4>2. Log' = Log
        BY <2>1, <4>1 DEF Log, vars
      <4>3. QED
        BY <1>2, <4>2
    <3>3. QED
      BY <3>1, <3>2
  <2>4. \A k \in Loaders : k # l => loader'[k] = loader[k]
    BY <1>8 DEF StartLoad, Put, PutKnown, PutNew, PutAnswered, PutFails, EndPuts, SyncMet,
       SyncTimesOut, Answered, LoaderShape
  <2>5. LoadIsKnown(l)'
    <3>1. CASE StartLoad(l)
      BY <3>1, StartIsKnown
    <3>2. CASE PutKnown(l) \/ PutNew(l) \/ PutAnswered(l) \/ EndPuts(l)
      BY <3>2, PutsAreKnown
    <3>3. CASE PutFails(l) \/ SyncMet(l) \/ SyncTimesOut(l)
      <4>1. loader'[l] = Resting
        BY <3>3 DEF PutFails, SyncMet, SyncTimesOut, LoaderShape
      <4>2. QED
        BY <1>1, <4>1 DEF LoadIsKnown, Resting
    <3>4. QED
      BY <1>8, <3>1, <3>2, <3>3 DEF Put
  <2>6. ASSUME NEW k \in Loaders PROVE LoadIsKnown(k)'
    <3>1. CASE k = l
      BY <2>5, <3>1
    <3>2. CASE k # l
      <4>1. LoadIsKnown(k) /\ loader'[k] = loader[k]
        BY <2>4, <3>2 DEF LoadsAreKnown
      <4>2. QED
        BY <2>2, <2>3, <4>1, KnownGrows
    <3>3. QED
      BY <3>1, <3>2
  <2>7. LoadedIsSecured'
    <3>1. /\ lastSeq <= Len(Log')
          /\ \A s \in loaded : s \in Sids /\ mode'.served /\ Seeded' /\ Secured(s)'
      BY <2>2, <2>3, SecuredGrows DEF LoadsAreKnown
    <3>2. lastSeq' <= Len(Log')
      <4>1. CASE EndPuts(l)
        <5>1. lastSeq' = Max({lastSeq, loader[l].max})
          BY <4>1 DEF EndPuts
        <5>2. lastSeq \in Nat /\ loader[l].max \in Nat /\ loader[l].max <= Len(Log)
          BY DEF LoaderShape, Load, LoadsAreKnown, LoadIsKnown
        <5>3. loader[l].max <= Len(Log')
          BY <2>3, <5>2 DEF LogGrows
        <5>4. QED
          BY <3>1, <5>1, <5>2, <5>3, MaxOfTwo
      <4>2. CASE ~ EndPuts(l)
        <5>1. lastSeq' = lastSeq
          BY <1>8, <4>2 DEF StartLoad, Put, PutKnown, PutNew, PutAnswered, PutFails, SyncMet,
             SyncTimesOut
        <5>2. QED
          BY <3>1, <5>1
      <4>3. QED
        BY <4>1, <4>2
    <3>3. CASE SyncMet(l)
      <4>1. \A s \in loader[l].sids : s \in Sids /\ mode.served /\ Seeded /\ Secured(s)
        BY <3>3, SyncSecures
      <4>2. loaded' = loaded \union loader[l].sids
        BY <3>3 DEF SyncMet
      <4>3. \A s : Secured(s) => Secured(s)'
        BY <2>1 DEF vars, Secured
      <4>4. QED
        BY <2>1, <3>1, <3>2, <4>1, <4>2, <4>3 DEF LoadsAreKnown, LoadedIsSecured, vars, Seeded
    <3>4. CASE ~ SyncMet(l)
      <4>1. loaded' = loaded
        BY <1>8, <3>4 DEF StartLoad, Put, PutKnown, PutNew, PutAnswered, PutFails, EndPuts,
           SyncTimesOut
      <4>2. QED
        BY <3>1, <3>2, <4>1 DEF LoadsAreKnown, LoadedIsSecured
    <3>5. QED
      BY <3>3, <3>4
  <2>8. QED
    BY <2>6, <2>7 DEF LoadsAreKnown
<1>9. QED
  BY <1>4, <1>5, <1>6, <1>7, <1>8 DEF StoreNext

StoreIInv == EngineInv /\ LoaderShape /\ LogShape /\ OneWritePerSubject /\ LoadsAreKnown

(* The invariant of the engine, with that of the loads, is kept by the server.   *)
LEMMA StoreInvariance == StoreSpec => []StoreIInv
<1>1. StoreInit => StoreIInv
  <2> SUFFICES ASSUME StoreInit PROVE StoreIInv
    OBVIOUS
  <2>1. LoaderShape
    BY DEF StoreInit, NewStore, LoaderShape, Load, Resting
  <2>2. truth = <<>> /\ batch = <<>> /\ committer = "staging"
    BY DEF StoreInit, NewStore, Init
  <2>3. LogShape
    BY <2>2, MaterializerAssumption DEF LogShape
  <2>4. Log = <<>>
    <3>1. <<>> \in Seq(Write)
      OBVIOUS
    <3>2. Len(Log) = 0 /\ Log \in Seq(Write)
      BY <2>2, <3>1, LogIs
    <3>3. QED
      BY <3>2
  <2>5. OneWritePerSubject
    BY <2>4 DEF OneWritePerSubject
  <2>6. LoadsAreKnown
    BY <2>4 DEF StoreInit, NewStore, LoadsAreKnown, LoadIsKnown, LoadedIsSecured, Resting
  <2>7. QED
    BY <2>1, <2>3, <2>5, <2>6, InitEngineInv DEF StoreInit, StoreIInv
<1>2. StoreIInv /\ [StoreNext]_allVars => StoreIInv'
  <2> SUFFICES ASSUME StoreIInv, [StoreNext]_allVars PROVE StoreIInv'
    OBVIOUS
  <2>1. LoaderShape /\ LogShape /\ StoreShape /\ truth \in Seq(Write)
    BY DEF StoreIInv, EngineInv, IInv, Shape, StoreShape
  <2>2. LoaderShape' /\ (AnyStep \/ UNCHANGED vars)
    BY <2>1, StoreStep
  <2>3. EngineInv'
    BY <2>2, EngineStep DEF StoreIInv
  <2>4. LogShape' /\ OneWritePerSubject'
    <3>1. LoadsAreServed /\ Rest'
      BY <2>3 DEF StoreIInv, LoadsAreServed, LoadsAreKnown, LoadIsKnown, EngineInv
    <3>2. QED
      BY <2>1, <3>1, OneWriteStep DEF StoreIInv
  <2>5. LoadsAreKnown'
    BY <2>3, <2>4, LoadsAreKnownStep DEF StoreIInv
  <2>6. QED
    BY <2>2, <2>3, <2>4, <2>5 DEF StoreIInv
<1>3. QED
  BY <1>1, <1>2, PTL DEF StoreSpec

(* What is applied is in the log. *)
LEMMA ServedIsWrittenOnce ==
  StoreIInv /\ mode.served => \A i, j \in DOMAIN truth : truth[i].sid = truth[j].sid => i = j
<1> SUFFICES ASSUME StoreIInv, mode.served
             PROVE  \A i, j \in DOMAIN truth : truth[i].sid = truth[j].sid => i = j
  OBVIOUS
<1>1. truth \in Seq(Write) /\ batch \in Seq(Write)
  BY DEF StoreIInv, LogShape, EngineInv, IInv, Shape, StoreShape
<1>2. \A i \in DOMAIN truth : i \in DOMAIN Log /\ Log[i] = truth[i]
  BY <1>1, LogIs
<1>3. QED
  BY <1>2 DEF StoreIInv, OneWritePerSubject

(* The server's state has its types and so has the engine's under it: the seqs of   *)
(* the handlers are those of commits (load: max_seq, Store.last_seq).               *)
THEOREM StoreTypes == StoreSpec => [](TypeOK /\ StoreTypeOK)
<1>1. StoreIInv => TypeOK /\ StoreTypeOK
  <2> SUFFICES ASSUME StoreIInv PROVE TypeOK /\ StoreTypeOK
    OBVIOUS
  <2>1. TypeOK
    BY TypesFromParts DEF StoreIInv, EngineInv
  <2>2. /\ Len(Log) \in Nat /\ Len(Log) = Len(truth) + Len(batch) /\ lastSeq \in Nat
        /\ lastSeq <= Len(Log)
    <3>1. truth \in Seq(Write) /\ batch \in Seq(Write)
      BY DEF StoreIInv, LogShape, EngineInv, IInv, Shape, StoreShape
    <3>2. QED
      BY <3>1, LogIs DEF StoreIInv, LoaderShape, LoadsAreKnown, LoadedIsSecured
  <2>3. /\ committer \in {"staging", "applying", "stopped"} /\ loaded \subseteq Sids
        /\ batch \in Seq(Write) /\ Len(Log) <= MaxCommits
    BY <2>2 DEF StoreIInv, LoadsAreKnown, LoadedIsSecured, LogShape
  <2>4. ASSUME NEW l \in Loaders
        PROVE  loader[l] \in
          [at : {"idle", "putting", "waiting", "syncing"},
           todo : Seq([sid : Sids, kind : {"put", "opaque"}]),
           sids : SUBSET Sids, seq : 0 .. Len(Log), max : 0 .. Len(Log)]
    <3>1. loader[l] \in Load /\ loader[l].seq <= Len(Log) /\ loader[l].max <= Len(Log)
      BY DEF StoreIInv, LoaderShape, LoadsAreKnown, LoadIsKnown
    <3>2. QED
      BY <2>2, <3>1 DEF Load, Grain
  <2>5. loader \in [Loaders ->
          [at : {"idle", "putting", "waiting", "syncing"},
           todo : Seq([sid : Sids, kind : {"put", "opaque"}]),
           sids : SUBSET Sids, seq : 0 .. Len(Log), max : 0 .. Len(Log)]]
    BY <2>4 DEF StoreIInv, LoaderShape
  <2>6. lastSeq \in 0 .. Len(Log)
    BY <2>2
  <2>7. QED
    BY <2>1, <2>3, <2>5, <2>6 DEF StoreTypeOK
<1>2. QED
  BY <1>1, StoreInvariance, PTL

(* However many handlers load, fail and restart: the watermark a load waits for *)
(* never claims a commit whose index update was not done (Completion::complete). *)
THEOREM StoreWatermarkIsHonest == StoreSpec => []WatermarkIsHonest
<1>1. StoreIInv => WatermarkIsHonest
  BY HonestFromIInv DEF StoreIInv, EngineInv
<1>2. QED
  BY <1>1, StoreInvariance, PTL

(* ... it never moves back while the store is open, so that a wait that was met  *)
(* stays met (Completion::complete, engine.rs sync).                            *)
THEOREM StoreWatermarkNeverRetreats == StoreSpec => WatermarkNeverRetreats
<1>1. StoreIInv /\ [StoreNext]_allVars => [epoch' = epoch => watermark <= watermark']_vars
  <2> SUFFICES ASSUME StoreIInv, [StoreNext]_allVars, epoch' = epoch
               PROVE  watermark <= watermark'
    OBVIOUS
  <2>1. AnyStep \/ UNCHANGED vars
    BY StoreStep DEF StoreIInv, EngineInv, IInv, Shape, StoreShape
  <2>2. QED
    BY <2>1, StepIInv DEF StoreIInv, EngineInv
<1>2. QED
  BY <1>1, StoreInvariance, PTL DEF StoreSpec, WatermarkNeverRetreats

(* So it is in the served store that one thread feeds, before it is seeded and        *)
(* after: there a subject has one write, hence one predicate (load, pred 0), and    *)
(* it is seeded before clients come (Store::open).                               *)
THEOREM ServedIndexIsACut ==
  StoreSpec => [](mode.served \/ OnePredPerSubject => IndexIsACut)
<1>1. StoreIInv => (mode.served \/ OnePredPerSubject => IndexIsACut)
  <2> SUFFICES ASSUME StoreIInv, mode.served \/ OnePredPerSubject PROVE IndexIsACut
    OBVIOUS
  <2>1. mode.served => OnePredPerSubject
    BY ServedIsWrittenOnce DEF StoreIInv, OnePredPerSubject
  <2>2. QED
    BY <2>1, CutFromInv DEF StoreIInv
<1>2. QED
  BY <1>1, StoreInvariance, PTL

(* ... and no restart, failed write or race of handlers makes it behave otherwise      *)
(* than StaleIndex does (Store::open, materializer.rs apply).                      *)
THEOREM ServerKeepsAStaleIndex ==
  StoreSpec /\ [](mode.served \/ OnePredPerSubject) => ImplementsStaleIndex
<1>1. StoreInit => Stale!Init
  BY StaleInit DEF StoreInit
<1>2. StoreIInv /\ StoreIInv' /\ (mode.served \/ OnePredPerSubject) /\ [StoreNext]_allVars
        => [Stale!Next]_(Stale!vars)
  <2> SUFFICES ASSUME StoreIInv, StoreIInv', mode.served \/ OnePredPerSubject,
                      [StoreNext]_allVars
               PROVE  [Stale!Next]_(Stale!vars)
    OBVIOUS
  <2>1. AnyStep \/ UNCHANGED vars
    BY StoreStep DEF StoreIInv, EngineInv, IInv, Shape, StoreShape
  <2>2. OnePredPerSubject
    BY ServedIsWrittenOnce DEF StoreIInv, OnePredPerSubject
  <2>3. QED
    BY <2>1, <2>2, StaleStep DEF StoreIInv
<1>3. QED
  BY <1>1, <1>2, StoreInvariance, PTL DEF StoreSpec, ImplementsStaleIndex, Stale!Spec

(* Under the server too no record is lost between the channel, a pool's queues and   *)
(* workers, and the seeding: what the watermark has passed and what was recovered    *)
(* is in the index, though batches fail and a crash leaves part of one in the log.    *)
THEOREM StoreIndexesSoleWrites == StoreSpec => []SoleWriteIsIndexed
<1>1. StoreIInv => SoleWriteIsIndexed
  BY SoleWriteFromInv DEF StoreIInv
<1>2. QED
  BY <1>1, StoreInvariance, PTL

(* A load whose wait succeeded has its grains in the index, its own and those it     *)
(* repeated from an earlier opening, for any number of handlers, workers and        *)
(* batches (load, "blocks until queryable"): every commit it waited for was handled  *)
(* or seeded, and as the only one of its subject it is not overtaken.  A load that   *)
(* was answered before the write of its batch failed is not let through.            *)
THEOREM LoadsAreQueryable == StoreSpec => []LoadedIsQueryable
<1>1. StoreIInv => LoadedIsQueryable
  <2> SUFFICES ASSUME StoreIInv, NEW s \in loaded
               PROVE  index[s] = Expected(s, Len(truth))
    BY DEF LoadedIsQueryable
  <2>1. s \in Sids /\ mode.served /\ Seeded /\ Secured(s)
    BY DEF StoreIInv, LoadsAreKnown, LoadedIsSecured
  <2>2. PICK i \in DOMAIN truth : truth[i].sid = s /\ (i <= base \/ i \in handled)
    BY <2>1 DEF Secured
  <2>3. \A j \in DOMAIN truth : truth[j].sid = s => j = i
    BY <2>1, <2>2, ServedIsWrittenOnce
  <2>4. Sole(i)
    BY <2>2, <2>3 DEF Sole
  <2>5. index[s] = IF truth[i].kind = "put" THEN i ELSE 0
    BY <2>1, <2>2, <2>4, SoleIsIndexed DEF StoreIInv
  <2>6. Len(truth) \in Nat /\ DOMAIN truth = 1 .. Len(truth)
    BY DEF StoreIInv, EngineInv, IInv, Shape, StoreShape
  <2>7. LatestOf(truth, s, Len(truth)) = IF truth[i].kind = "put" THEN i ELSE 0
    <3>1. i \in 1 .. Len(truth) /\ \A j \in 1 .. Len(truth) : truth[j].sid = s => j <= i
      BY <2>2, <2>3, <2>6
    <3>2. QED
      BY <2>2, <2>6, <3>1, LatestIs
  <2>8. QED
    BY <2>5, <2>7, ExpectedIsLatest
<1>2. QED
  BY <1>1, StoreInvariance, PTL

=============================================================================
