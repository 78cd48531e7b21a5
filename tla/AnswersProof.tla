------------------------------- MODULE AnswersProof -------------------------------
(***************************************************************************)
(* What clients and subscribers are told: answers agree about the timestamp   *)
(* of a key, a key is committed once, clients read what they were answered,    *)
(* subscribers get every write in order, and a clean restart changes nothing.  *)
(***************************************************************************)
EXTENDS GroupCommitProof

(* A key is committed under one timestamp, across restarts and power losses,    *)
(* where no crash cuts a frame: two answers stand for two places of the log     *)
(* (wal.rs dedup, recovery.rs).                                              *)
THEOREM EachKeyIsCommittedOnce ==
  ASSUME ~ TornTails
  PROVE  Spec => []ExactlyOnce
<1>1. ASSUME TInv, LogInv, AckedIsRecoverable PROVE ExactlyOnce
  <2> SUFFICES ASSUME NEW a \in acks, NEW b \in acks, a.via = "batch", b.via = "batch"
               PROVE  a.rec.req.idem = b.rec.req.idem <=> a.rec.seq = b.rec.seq
    BY DEF ExactlyOnce
  <2>1. PICK i \in Intact(file) : file[i] = a.rec
    BY <1>1 DEF AckedIsRecoverable
  <2>2. PICK j \in Intact(file) : file[j] = b.rec
    BY <1>1 DEF AckedIsRecoverable
  <2>3. i \in Int /\ j \in Int /\ file[i].seq \in Int /\ file[j].seq \in Int
    BY <1>1, FileType DEF TInv
  <2>4. i = j \/ (i < j \/ j < i)
    BY <2>3
  <2>5. i # j => file[i].seq # file[j].seq /\ file[i].req.idem # file[j].req.idem
    BY <1>1, <2>3, <2>4 DEF LogInv, LogWellFormed
  <2>6. QED
    BY <2>1, <2>2, <2>5
<1>2. QED
  BY <1>1, Invariance, AckedCanBeRecovered, PTL

-----------------------------------------------------------------------------
(* Answers agree *)

(* The dedup map gives every key a timestamp of its own, none after the clock. *)
IdemIsInjective ==
  /\ \A k \in Idems : idem[k] <= hlc
  /\ \A k, l \in Idems : idem[k] = idem[l] /\ idem[k] # 0 => k = l

(* No answer is of a later opening; those of this one are in the dedup map.    *)
AcksAreRemembered ==
  /\ \A a \in acks : a.epoch <= epoch
  /\ pc # "down" => \A a \in acks : a.epoch = epoch => idem[a.rec.req.idem] = a.rec.seq

AnswerInv == IdemIsInjective /\ AcksAreRemembered /\ AnswersAgree

(* What an answer says is a timestamp from 1 for a key. *)
LEMMA AckShape ==
  \A a \in [rec : WalRecord, via : {"batch", "dedup"}, epoch : 0 .. MaxEpochs] :
    /\ a.rec \in WalRecord /\ a.rec.req.idem \in Idems
    /\ a.rec.seq \in 1 .. MaxTs /\ a.rec.seq # 0 /\ a.epoch \in Nat
  BY MvccAssumption, GroupCommitAssumption DEF WalRecord, WriteReq

(* The types of answers and of what they are checked against. *)
LEMMA AckType ==
  ASSUME TypeOK
  PROVE  /\ \A a \in acks : /\ a.rec \in WalRecord /\ a.rec.req.idem \in Idems
                            /\ a.rec.seq \in 1 .. MaxTs /\ a.epoch \in Nat
         /\ epoch \in Nat /\ hlc \in Nat /\ MaxTs \in Nat /\ idem \in [Idems -> 0 .. MaxTs]
  BY AckShape, MvccAssumption, GroupCommitAssumption DEF TypeOK

(* The first entry of a key is one: a well-formed log has one at most.          *)
LEMMA FirstIsThere ==
  ASSUME TypeOK, LogWellFormed, NEW k \in Idems, WithIdem(file, k) # {}
  PROVE  FirstWithIdem(file, k) \in WithIdem(file, k)
<1>1. PICK i \in WithIdem(file, k) : TRUE
  OBVIOUS
<1>2. \A j \in WithIdem(file, k) : j = i /\ j \in Int
  BY <1>1, FileType DEF WithIdem, LogWellFormed
<1>3. \E m \in WithIdem(file, k) : \A j \in WithIdem(file, k) : m <= j
  BY <1>1, <1>2
<1>4. QED
  BY <1>3 DEF FirstWithIdem

(* What recovery rebuilds from the log is a map of that kind.                  *)
LEMMA ReplayedIdemIsInjective ==
  ASSUME TypeOK, LogWellFormed, NEW h \in HighWatermarks(file)
  PROVE  /\ \A k \in Idems : ReplayedIdem(file)[k] <= h
         /\ \A k, l \in Idems :
              ReplayedIdem(file)[k] = ReplayedIdem(file)[l] /\ ReplayedIdem(file)[k] # 0
                => k = l
<1>1. \A k \in Idems : WithIdem(file, k) # {} => FirstWithIdem(file, k) \in WithIdem(file, k)
  BY FirstIsThere
<1>2. ASSUME NEW k \in Idems, ReplayedIdem(file)[k] # 0
      PROVE  \E i \in Intact(file) : file[i].req.idem = k /\ ReplayedIdem(file)[k] = file[i].seq
  BY <1>1, <1>2 DEF ReplayedIdem, WithIdem
<1>3. \A i \in Intact(file) : file[i].seq <= h
  BY DEF HighWatermarks
<1>4. 0 <= h
  BY DEF HighWatermarks
<1>5. ASSUME NEW i \in Intact(file), NEW j \in Intact(file), file[i].seq = file[j].seq
      PROVE  i = j
  <2>1. i \in Int /\ j \in Int /\ file[i].seq \in Int /\ file[j].seq \in Int
    BY FileType
  <2>2. i = j \/ i < j \/ j < i
    BY <2>1
  <2>3. QED
    BY <1>5, <2>1, <2>2 DEF LogWellFormed
<1>6. QED
  BY <1>2, <1>3, <1>4, <1>5

(* If the answers A of the opening `now` are in the map D and the earlier ones   *)
(* agreed, all do.                                                           *)
LEMMA RememberedAgree ==
  ASSUME NEW A, NEW D, NEW now,
         \A a \in A : a.rec.req.idem \in Idems /\ a.rec.seq # 0,
         \A k, l \in Idems : D[k] = D[l] /\ D[k] # 0 => k = l,
         \A a \in A : a.epoch = now => D[a.rec.req.idem] = a.rec.seq,
         \A a, b \in A : a.epoch = b.epoch /\ a.epoch # now =>
           (a.rec.req.idem = b.rec.req.idem <=> a.rec.seq = b.rec.seq)
  PROVE  \A a, b \in A : a.epoch = b.epoch =>
           (a.rec.req.idem = b.rec.req.idem <=> a.rec.seq = b.rec.seq)
<1> SUFFICES ASSUME NEW a \in A, NEW b \in A, a.epoch = b.epoch
             PROVE  a.rec.req.idem = b.rec.req.idem <=> a.rec.seq = b.rec.seq
  OBVIOUS
<1>1. CASE a.epoch = now
  <2>1. D[a.rec.req.idem] = a.rec.seq /\ D[b.rec.req.idem] = b.rec.seq
    BY <1>1
  <2>2. QED
    BY <2>1
<1>2. CASE a.epoch # now
  BY <1>2
<1>3. QED
  BY <1>1, <1>2

(* A step that answers someone answers what the dedup map says.                *)
LEMMA NewAnswerAgrees ==
  ASSUME TypeOK, TypeOK', AnswerInv, NEW e, acks' = acks \union {e}, e.epoch = epoch,
         idem[e.rec.req.idem] = e.rec.seq, UNCHANGED <<idem, hlc, epoch>>, pc' # "down",
         pc # "down"
  PROVE  AnswerInv'
<1>1. IdemIsInjective'
  BY DEF AnswerInv, IdemIsInjective
<1>2. AcksAreRemembered'
  BY AckType DEF AnswerInv, AcksAreRemembered
<1>3. \A a, b \in acks' : a.epoch = b.epoch /\ a.epoch # epoch' =>
           (a.rec.req.idem = b.rec.req.idem <=> a.rec.seq = b.rec.seq)
  BY DEF AnswerInv, AnswersAgree
<1>4. \A a \in acks' : a.rec.req.idem \in Idems /\ a.rec.seq # 0
  BY AckShape DEF TypeOK
<1>5. \A a \in acks' : a.epoch = epoch' => idem'[a.rec.req.idem] = a.rec.seq
  BY <1>2 DEF AcksAreRemembered
<1>6. \A k, l \in Idems : idem'[k] = idem'[l] /\ idem'[k] # 0 => k = l
  BY <1>1 DEF IdemIsInjective
<1>7. AnswersAgree'
  <2> DEFINE A == acks'
             D == idem'
             now == epoch'
  <2>1. \A a, b \in A : a.epoch = b.epoch =>
           (a.rec.req.idem = b.rec.req.idem <=> a.rec.seq = b.rec.seq)
    <3> HIDE DEF A, D, now
    <3>1. QED
      BY <1>3, <1>4, <1>5, <1>6, RememberedAgree DEF A, D, now
  <2>2. QED
    BY <2>1 DEF AnswersAgree
<1>8. QED
  BY <1>1, <1>2, <1>7 DEF AnswerInv

(* Every step keeps the agreement. *)
LEMMA AnswerStep ==
  ASSUME TInv, LogInv, AnswerInv, [Next]_vars, TInv'
  PROVE  AnswerInv'
<1>1. CASE Open
  <2>1. /\ idem' = ReplayedIdem(file) /\ hlc' \in HighWatermarks(file) /\ acks' = acks
        /\ epoch' = epoch + 1
    BY <1>1 DEF Open
  <2>2. IdemIsInjective'
    <3>1. TypeOK /\ LogWellFormed
      BY DEF TInv, LogInv
    <3>2. QED
      BY <2>1, <3>1, ReplayedIdemIsInjective DEF IdemIsInjective
  <2>3. AcksAreRemembered'
    BY <2>1, AckType DEF TInv, AnswerInv, AcksAreRemembered
  <2>4. AnswersAgree'
    BY <2>1 DEF AnswerInv, AnswersAgree
  <2>5. QED
    BY <2>2, <2>3, <2>4 DEF AnswerInv
<1>2. CASE StageDup
  <2> DEFINE p == Head(batch)
             e == Ack([req |-> p.req, seq |-> idem[p.req.idem]], "dedup")
  <2>1. acks' = acks \union {e} /\ UNCHANGED <<pc, idem, hlc, epoch>> /\ pc = "stage"
    BY <1>2 DEF StageDup, volatileVars
  <2>2. e.epoch = epoch /\ idem[e.rec.req.idem] = e.rec.seq
    BY DEF Ack
  <2> HIDE DEF e
  <2>3. QED
    BY <2>1, <2>2, NewAnswerAgrees DEF TInv
<1>3. CASE Answer
  <2> DEFINE e == Ack(staged[cursor].rec, "batch")
  <2>1. acks' = acks \union {e} /\ UNCHANGED <<idem, hlc, epoch>>
        /\ pc = "ack" /\ pc' # "down" /\ cursor \in DOMAIN staged
    BY <1>3, FileType DEF Answer, Loop, volatileVars, TInv, LoopShape
  <2>2. e.epoch = epoch /\ e.rec = staged[cursor].rec
    BY DEF Ack
  <2>3. idem[e.rec.req.idem] = e.rec.seq
    BY <2>1, <2>2 DEF LogInv, StagedIsRemembered, Remembered
  <2> HIDE DEF e
  <2>4. QED
    BY <2>1, <2>2, <2>3, NewAnswerAgrees DEF TInv
<1>4. CASE StageNew
  <2> DEFINE k == Head(batch).req.idem
  <2>1. /\ idem[k] = 0 /\ idem' = [idem EXCEPT ![k] = hlc + 1] /\ hlc' = hlc + 1
        /\ UNCHANGED <<acks, epoch, pc>> /\ pc = "stage"
    BY <1>4 DEF StageNew
  <2>2. k \in Idems
    BY <1>4, PendingHead DEF StageNew, TInv
  <2> HIDE DEF k
  <2>3. IdemIsInjective'
    <3>1. \A l \in Idems : idem[l] \in Nat /\ idem[l] <= hlc /\ hlc \in Nat
      BY AckType DEF TInv, AnswerInv, IdemIsInjective
    <3>2. \A l \in Idems : idem'[l] = IF l = k THEN hlc + 1 ELSE idem[l]
      BY <2>1, AckType DEF TInv
    <3>3. QED
      BY <2>1, <3>1, <3>2 DEF AnswerInv, IdemIsInjective
  <2>4. AcksAreRemembered'
    <3>1. \A a \in acks : a.epoch = epoch => a.rec.req.idem # k
      BY <2>1, AckType DEF TInv, AnswerInv, AcksAreRemembered
    <3>2. QED
      BY <2>1, <3>1 DEF AnswerInv, AcksAreRemembered
  <2>5. AnswersAgree'
    BY <2>1 DEF AnswerInv, AnswersAgree
  <2>6. QED
    BY <2>3, <2>4, <2>5 DEF AnswerInv
<1>5. CASE LoseVolatile
  <2>1. IdemIsInjective'
    BY <1>5 DEF LoseVolatile, IdemIsInjective, NoIdem
  <2>2. AcksAreRemembered' /\ AnswersAgree'
    BY <1>5 DEF LoseVolatile, AnswerInv, AcksAreRemembered, AnswersAgree
  <2>3. QED
    BY <2>1, <2>2 DEF AnswerInv
<1>6. ASSUME UNCHANGED <<idem, hlc, acks, epoch>>, pc # "down" \/ UNCHANGED pc
      PROVE  AnswerInv'
  BY <1>6 DEF AnswerInv, IdemIsInjective, AcksAreRemembered, AnswersAgree
<1>7. QED
  BY <1>1, <1>2, <1>3, <1>4, <1>5, <1>6 DEF Next, Committer, Submit, Drain, AllDuplicates,
     BatchStaged, Write, Fsync, StopWithError, Apply, Publish, Loop, ProcessCrash, PowerFail,
     Close, committerVars, volatileVars, vars

(* The agreement holds in every behaviour. *)
LEMMA AnswerInvariance == Spec => []AnswerInv
<1>1. Init => AnswerInv
  BY DEF Init, AnswerInv, IdemIsInjective, AcksAreRemembered, AnswersAgree, NoIdem
<1>2. TInv /\ LogInv /\ AnswerInv /\ [Next]_vars => AnswerInv'
  BY AnswerStep, TypeStep DEF LogInv
<1>3. QED
  BY <1>1, <1>2, Invariance, PTL DEF Spec

(* Within one opening a key is answered with one timestamp, and two keys with  *)
(* two, retries and duplicates within a batch included (committer_loop dedup).  *)
THEOREM AnswersNeverDisagree == Spec => []AnswersAgree
<1>1. AnswerInv => AnswersAgree
  BY DEF AnswerInv
<1>2. QED
  BY <1>1, AnswerInvariance, PTL

-----------------------------------------------------------------------------
(* Subscribers *)

(* The batch has the timestamps up to the clock, one after the other.          *)
StagedIsDense == \A j \in 1 .. Len(staged) : staged[j].rec.seq = hlc - Len(staged) + j

(* How much of the batch was published. *)
Sent == IF pc = "publish" THEN cursor - 1 ELSE IF pc = "ack" THEN Len(staged) ELSE 0

(* The records of f have the timestamps up to b, one after the other. *)
DenseUpTo(f, b) == \A i \in 1 .. Len(f) : f[i].seq = b - (Len(f) - i)

(* The feed is dense, and while the committer runs it ends where the batch      *)
(* begins, or with what of it was published.                                  *)
FeedIsDense ==
  \E b \in Int : /\ DenseUpTo(feed, b)
                 /\ pc # "stopped" => b = hlc - Len(staged) + Sent

FeedIsReadable == \A i \in 1 .. Len(feed) : VersionOf(feed[i]) \in kv

(* The part of the batch the apply loop has done is in the store.              *)
StagedIsApplied ==
  /\ pc = "apply" => \A j \in 1 .. cursor - 1 : VersionOf(staged[j].rec) \in kv
  /\ pc \in {"publish", "ack"} =>
       applied = hlc /\ \A j \in 1 .. Len(staged) : VersionOf(staged[j].rec) \in kv

(* What was answered at the end of a batch of this opening is in the store, at   *)
(* or below the applied watermark.                                           *)
AckedIsReadable ==
  pc # "down" =>
    \A a \in acks : a.via = "batch" /\ a.epoch = epoch =>
      VersionOf(a.rec) \in kv /\ a.rec.seq <= applied

FeedInv ==
  StagedIsDense /\ FeedIsDense /\ FeedIsReadable /\ StagedIsApplied /\ AckedIsReadable

(* A version stays in the store when one with another timestamp is put.         *)
LEMMA PutKeepsOthers ==
  ASSUME NEW K \in SUBSET Version, NEW v \in Version, NEW w \in K, w.seq # v.seq
  PROVE  w \in PutGrain(K, v)
<1>1. MaxTs \in Nat /\ w.seq \in 0 .. MaxTs /\ v.seq \in 0 .. MaxTs
  BY MvccAssumption DEF Version
<1>2. KeyOf(w) # KeyOf(v)
  BY <1>1 DEF KeyOf, GrainKey, Complement
<1>3. QED
  BY <1>2 DEF PutGrain

(* The feed and the batch are sequences of records with timestamps. *)
LEMMA FeedType ==
  ASSUME TypeOK
  PROVE  /\ feed \in Seq(WalRecord) /\ Len(feed) \in Nat
         /\ \A i \in 1 .. Len(feed) : feed[i] \in WalRecord /\ feed[i].seq \in Nat
         /\ staged \in Seq(Staged) /\ Len(staged) \in Nat
         /\ \A j \in 1 .. Len(staged) : /\ staged[j].rec \in WalRecord
                                        /\ staged[j].rec.seq \in Nat
         /\ hlc \in Nat /\ applied \in Nat /\ cursor \in Nat /\ kv \in SUBSET Version
<1>1. /\ feed \in Seq(WalRecord) /\ staged \in Seq(Staged) /\ MaxTs \in Nat
      /\ hlc \in Nat /\ applied \in Nat /\ cursor \in Nat /\ kv \in SUBSET Version
  BY MvccAssumption DEF TypeOK
<1>2. Len(feed) \in Nat /\ Len(staged) \in Nat
  BY <1>1, LenProperties
<1>3. /\ \A i \in 1 .. Len(feed) : feed[i] \in WalRecord
      /\ \A j \in 1 .. Len(staged) : staged[j] \in Staged
  BY <1>1, <1>2, ElementOfSeq
<1>4. \A r \in WalRecord : r.seq \in Nat
  BY <1>1 DEF WalRecord
<1>5. \A j \in 1 .. Len(staged) : staged[j].rec \in WalRecord
  BY <1>3 DEF Staged
<1>6. QED
  BY <1>1, <1>2, <1>3, <1>4, <1>5

(* One more record with the next timestamp. *)
LEMMA AppendIsDense ==
  ASSUME NEW f \in Seq(WalRecord), NEW b \in Int, DenseUpTo(f, b),
         NEW r \in WalRecord, r.seq = b + 1
  PROVE  DenseUpTo(Append(f, r), b + 1)
<1>1. Len(f) \in Nat /\ Len(Append(f, r)) = Len(f) + 1
  BY LenProperties, AppendProperties
<1>2. \A i \in 1 .. Len(f) + 1 :
        Append(f, r)[i] = IF i <= Len(f) THEN f[i] ELSE r
  BY <1>1, AppendProperties
<1>3. ASSUME NEW i \in 1 .. Len(f) + 1
      PROVE  Append(f, r)[i].seq = (b + 1) - ((Len(f) + 1) - i)
  <2>1. CASE i <= Len(f)
    <3>1. i \in 1 .. Len(f) /\ Append(f, r)[i] = f[i]
      BY <1>1, <1>2, <2>1
    <3>2. f[i].seq = b - (Len(f) - i)
      BY <3>1 DEF DenseUpTo
    <3>3. QED
      BY <1>1, <3>1, <3>2
  <2>2. CASE ~ (i <= Len(f))
    <3>1. i = Len(f) + 1 /\ Append(f, r)[i] = r
      BY <1>1, <1>2, <2>2
    <3>2. QED
      BY <1>1, <3>1
  <2>3. QED
    BY <2>1, <2>2
<1>4. QED
  BY <1>1, <1>3 DEF DenseUpTo

(* Dense records follow each other without a gap up to the last. *)
LEMMA DenseIsGapFree ==
  ASSUME NEW f \in Seq(WalRecord), NEW b \in Int, DenseUpTo(f, b)
  PROVE  /\ \A i \in 1 .. Len(f) - 1 : f[i + 1].seq = f[i].seq + 1
         /\ f # <<>> => f[Len(f)].seq = b
<1>1. Len(f) \in Nat /\ (f # <<>> => Len(f) \in 1 .. Len(f))
  BY LenProperties, EmptySeq
<1>2. ASSUME NEW i \in 1 .. Len(f) - 1 PROVE f[i + 1].seq = f[i].seq + 1
  <2>1. i \in 1 .. Len(f) /\ i + 1 \in 1 .. Len(f)
    BY <1>1
  <2>2. f[i].seq = b - (Len(f) - i) /\ f[i + 1].seq = b - (Len(f) - (i + 1))
    BY <2>1 DEF DenseUpTo
  <2>3. QED
    BY <1>1, <2>2
<1>3. f # <<>> => f[Len(f)].seq = b
  <2> SUFFICES ASSUME f # <<>> PROVE f[Len(f)].seq = b
    OBVIOUS
  <2>1. f[Len(f)].seq = b - (Len(f) - Len(f))
    BY <1>1 DEF DenseUpTo
  <2>2. QED
    BY <1>1, <2>1
<1>4. QED
  BY <1>2, <1>3

(* What subscribers are promised follows from the invariant.                   *)
LEMMA FeedInvGapFree ==
  ASSUME TInv, FeedInv
  PROVE  FeedIsGapFree
<1>1. PICK b \in Int : DenseUpTo(feed, b) /\ (pc # "stopped" => b = hlc - Len(staged) + Sent)
  BY DEF FeedInv, FeedIsDense
<1>2. feed \in Seq(WalRecord) /\ hlc \in Nat /\ DOMAIN feed = 1 .. Len(feed)
  BY FeedType, LenProperties DEF TInv
<1>3. pc = "recv" => b = hlc
  <2> SUFFICES ASSUME pc = "recv" PROVE b = hlc
    OBVIOUS
  <2>1. Sent = 0 /\ staged = <<>>
    BY DEF Sent, TInv, LoopShape
  <2>2. Len(staged) = 0
    BY <2>1, EmptySeq
  <2>3. QED
    BY <1>1, <1>2, <2>1, <2>2
<1>4. QED
  BY <1>1, <1>2, <1>3, DenseIsGapFree DEF FeedInv, FeedIsReadable, FeedIsGapFree
(* Steps that touch neither the batch nor the feed nor the store. *)
LEMMA FeedUntouched ==
  ASSUME TInv, FeedInv, UNCHANGED <<staged, hlc, feed, kv, applied, epoch>>,
         \A a \in acks' : a.via = "batch" => a \in acks,
         \/ UNCHANGED <<pc, cursor>>
         \/ pc \in {"recv", "stage", "write", "fsync"}
            /\ pc' \in {"recv", "stage", "write", "fsync"}
         \/ pc = "fsync" /\ pc' = "apply" /\ cursor' = 1
  PROVE  FeedInv'
<1>1. StagedIsDense' /\ FeedIsReadable'
  BY DEF FeedInv, StagedIsDense, FeedIsReadable
<1>2. FeedIsDense'
  <2>1. Sent' = Sent
    BY DEF Sent
  <2>2. pc' # "stopped" => pc # "stopped"
    OBVIOUS
  <2>3. QED
    BY <2>1, <2>2 DEF FeedInv, FeedIsDense, DenseUpTo
<1>3. StagedIsApplied'
  <2>1. \A j \in 1 .. 1 - 1 : FALSE
    OBVIOUS
  <2>2. QED
    BY <2>1 DEF FeedInv, StagedIsApplied
<1>4. AckedIsReadable'
  BY DEF FeedInv, AckedIsReadable
<1>5. QED
  BY <1>1, <1>2, <1>3, <1>4 DEF FeedInv

(* An opening starts with an empty batch and an empty feed, and so does a store  *)
(* that went away.                                                           *)
LEMMA FeedStartsEmpty ==
  ASSUME staged' = <<>>, feed' = <<>>, pc' \in {"recv", "down"}, hlc' \in Nat,
         pc' # "down" => \A a \in acks' : a.epoch # epoch'
  PROVE  FeedInv'
<1>1. Len(<<>>) = 0
  BY EmptySeq
<1>2. \A i \in 1 .. 0 : FALSE
  OBVIOUS
<1>3. StagedIsDense' /\ FeedIsReadable'
  BY <1>1, <1>2 DEF StagedIsDense, FeedIsReadable
<1>4. Sent' = 0
  BY DEF Sent
<1>5. FeedIsDense'
  <2>0. \A n \in Nat : n \in Int /\ n = n - 0 + 0
    OBVIOUS
  <2>1. hlc' \in Int /\ hlc' = hlc' - 0 + 0
    BY <2>0
  <2>2. DenseUpTo(<<>>, hlc')
    BY <1>1, <1>2 DEF DenseUpTo
  <2>3. QED
    BY <1>1, <1>4, <2>1, <2>2 DEF FeedIsDense
<1>6. StagedIsApplied' /\ AckedIsReadable'
  BY DEF StagedIsApplied, AckedIsReadable
<1>7. QED
  BY <1>3, <1>5, <1>6 DEF FeedInv

(* Putting a version keeps all that is in the store, for the timestamps of the   *)
(* batch are new.                                                            *)
LEMMA ApplyKeepsFeed ==
  ASSUME TInv, LogInv, FeedInv, Apply
  PROVE  FeedInv'
<1> DEFINE v == VersionOf(staged[cursor].rec)
           m == Len(staged)
<1>1. /\ pc = "apply" /\ cursor \in 1 .. m /\ kv' = PutGrain(kv, v)
      /\ IF cursor = m THEN pc' = "publish" /\ cursor' = 1 /\ applied' = hlc
                       ELSE pc' = "apply" /\ cursor' = cursor + 1 /\ applied' = applied
      /\ UNCHANGED <<staged, hlc, feed, acks, epoch>>
  BY DEF Apply, Loop, TInv, LoopShape
<1>2. /\ kv \in SUBSET Version /\ m \in Nat /\ hlc \in Nat /\ applied \in Nat
      /\ cursor \in Nat /\ \A j \in 1 .. m : staged[j].rec.seq \in Nat
  BY FeedType DEF TInv
<1>3. v \in Version
  BY <1>1, StagedElement
<1>4. v.seq = staged[cursor].rec.seq
  BY DEF VersionOf
<1>5. v.seq = hlc - m + cursor
  BY <1>1, <1>4 DEF FeedInv, StagedIsDense
<1>6. v \in kv'
  BY <1>1 DEF PutGrain
<1>7. \A w \in kv : w.seq # v.seq => w \in kv'
  BY <1>1, <1>2, <1>3, PutKeepsOthers
<1>8. \A j \in 1 .. m : VersionOf(staged[j].rec).seq = staged[j].rec.seq
  BY DEF VersionOf
<1>9. \A j \in 1 .. m : staged[j].rec.seq = hlc - m + j
  BY DEF FeedInv, StagedIsDense
<1>10. VersionOf(staged[cursor].rec) \in kv'
  BY <1>6
<1> HIDE DEF v, m
<1>11. ASSUME NEW j \in 1 .. cursor - 1 PROVE VersionOf(staged[j].rec) \in kv'
  <2>1. VersionOf(staged[j].rec) \in kv
    BY <1>1 DEF FeedInv, StagedIsApplied
  <2>2. j \in 1 .. m /\ j # cursor
    BY <1>1, <1>2
  <2>3. VersionOf(staged[j].rec).seq # v.seq
    BY <1>2, <1>5, <1>8, <1>9, <2>2
  <2>4. QED
    BY <1>7, <2>1, <2>3
<1>12. ASSUME NEW j \in 1 .. cursor PROVE VersionOf(staged[j].rec) \in kv'
  <2>1. j \in 1 .. cursor - 1 \/ j = cursor
    BY <1>2
  <2>2. QED
    BY <1>10, <1>11, <2>1
<1>13. StagedIsApplied'
  <2>1. CASE cursor = m
    <3>1. pc' = "publish" /\ applied' = hlc /\ hlc' = hlc /\ staged' = staged
      BY <1>1, <2>1
    <3>2. \A j \in 1 .. Len(staged') : VersionOf(staged'[j].rec) \in kv'
      BY <1>12, <2>1, <3>1 DEF m
    <3>3. QED
      BY <3>1, <3>2 DEF StagedIsApplied
  <2>2. CASE cursor # m
    <3>1. pc' = "apply" /\ cursor' = cursor + 1 /\ staged' = staged
      BY <1>1, <2>2
    <3>2. cursor' - 1 = cursor
      BY <1>2, <3>1
    <3>3. QED
      BY <1>12, <3>1, <3>2 DEF StagedIsApplied
  <2>3. QED
    BY <2>1, <2>2
<1>14. AckedIsReadable'
  <2> SUFFICES ASSUME NEW a \in acks, a.via = "batch", a.epoch = epoch
               PROVE  VersionOf(a.rec) \in kv' /\ a.rec.seq <= applied'
    BY <1>1 DEF AckedIsReadable
  <2>1. VersionOf(a.rec) \in kv /\ a.rec.seq <= applied /\ a.rec.seq \in Nat
    BY <1>1, AckType DEF FeedInv, AckedIsReadable, TInv
  <2>2. applied <= hlc
    BY DEF LogInv, AppliedIsOld
  <2>3. DOMAIN staged = 1 .. m
    BY FileType DEF TInv, m
  <2>4. applied < v.seq
    BY <1>1, <1>4, <2>3 DEF LogInv, AppliedIsOld
  <2>5. VersionOf(a.rec).seq = a.rec.seq
    BY DEF VersionOf
  <2>6. a.rec.seq # v.seq /\ a.rec.seq <= hlc
    BY <1>2, <1>5, <2>1, <2>2, <2>4, <1>1
  <2>7. QED
    BY <1>1, <1>7, <2>1, <2>5, <2>6
<1>15. StagedIsDense' /\ FeedIsDense'
  <2>1. Sent = 0 /\ Sent' = 0
    BY <1>1, <1>2 DEF Sent
  <2>2. QED
    BY <1>1, <2>1 DEF FeedInv, StagedIsDense, FeedIsDense, DenseUpTo
<1>16. FeedIsReadable'
  <2> SUFFICES ASSUME NEW i \in 1 .. Len(feed) PROVE VersionOf(feed[i]) \in kv'
    BY <1>1 DEF FeedIsReadable
  <2>1. PICK b \in Int : DenseUpTo(feed, b) /\ b = hlc - m + 0
    BY <1>1 DEF FeedInv, FeedIsDense, Sent, m
  <2>2. feed[i].seq = b - (Len(feed) - i)
    BY <2>1 DEF DenseUpTo
  <2>3. Len(feed) \in Nat /\ i \in Nat /\ i <= Len(feed)
    BY FeedType DEF TInv
  <2>4. cursor >= 1
    BY <1>1, <1>2
  <2>5. feed[i].seq # v.seq
    BY <1>2, <1>5, <2>1, <2>2, <2>3, <2>4
  <2>6. VersionOf(feed[i]).seq = feed[i].seq /\ VersionOf(feed[i]) \in kv
    BY DEF VersionOf, FeedInv, FeedIsReadable
  <2>7. QED
    BY <1>7, <2>5, <2>6
<1>17. QED
  BY <1>13, <1>14, <1>15, <1>16 DEF FeedInv
(* A new write lengthens the batch and advances the clock. *)
LEMMA StageNewKeepsFeed ==
  ASSUME TInv, FeedInv, StageNew, TInv'
  PROVE  FeedInv'
<1> DEFINE m == Len(staged)
<1>1. PICK c \in Staged : staged' = Append(staged, c) /\ c.rec.seq = hlc + 1
  <2> DEFINE c == [client |-> Head(batch).client,
                   rec |-> [req |-> Head(batch).req, seq |-> hlc + 1]]
  <2>1. hlc < MaxTs /\ hlc \in Nat /\ MaxTs \in Nat
    BY MvccAssumption, FeedType DEF StageNew, TInv
  <2>2. hlc + 1 \in 1 .. MaxTs
    BY <2>1
  <2>3. c \in Staged
    BY <2>2, PendingHead DEF StageNew, TInv, Staged, WalRecord
  <2>4. QED
    BY <2>3 DEF StageNew
<1>2. /\ hlc' = hlc + 1 /\ pc = "stage" /\ pc' = "stage"
      /\ UNCHANGED <<cursor, kv, applied, feed, epoch, acks>>
  BY DEF StageNew
<1>3. m \in Nat /\ hlc \in Nat /\ staged \in Seq(Staged)
  BY FeedType DEF TInv
<1>4. /\ Len(staged') = m + 1
      /\ \A j \in 1 .. m + 1 : staged'[j] = IF j <= m THEN staged[j] ELSE c
  BY <1>1, <1>3, AppendProperties
<1>5. \A j \in 1 .. m : staged[j].rec.seq = hlc - m + j
  BY DEF FeedInv, StagedIsDense
<1>6. m + 1 \in Nat /\ hlc + 1 - (m + 1) = hlc - m
  BY <1>3
<1> HIDE DEF m
<1>7. StagedIsDense'
  <2>1. ASSUME NEW j \in 1 .. m + 1 PROVE staged'[j].rec.seq = (hlc + 1) - (m + 1) + j
    <3>1. CASE j <= m
      <4>1. j \in 1 .. m /\ staged'[j] = staged[j]
        BY <1>3, <1>4, <3>1
      <4>2. QED
        BY <1>3, <1>5, <4>1
    <3>2. CASE ~ (j <= m)
      <4>1. j = m + 1 /\ staged'[j] = c
        BY <1>3, <1>4, <3>2
      <4>2. QED
        BY <1>1, <1>3, <4>1
    <3>3. QED
      BY <3>1, <3>2
  <2>2. QED
    BY <1>2, <1>4, <2>1 DEF StagedIsDense
<1>8. FeedIsDense'
  <2>1. Sent = 0 /\ Sent' = 0
    BY <1>2 DEF Sent
  <2>2. PICK b \in Int : DenseUpTo(feed, b) /\ b = hlc - m + 0
    BY <1>2, <2>1 DEF FeedInv, FeedIsDense, m
  <2>3. b = (hlc + 1) - (m + 1) + 0
    BY <1>3, <2>2
  <2>4. QED
    BY <1>2, <1>4, <2>1, <2>2, <2>3 DEF FeedIsDense, DenseUpTo
<1>9. FeedIsReadable' /\ StagedIsApplied' /\ AckedIsReadable'
  BY <1>2 DEF FeedInv, FeedIsReadable, StagedIsApplied, AckedIsReadable
<1>10. QED
  BY <1>7, <1>8, <1>9 DEF FeedInv

(* The next record of the batch is published. *)
LEMMA PublishKeepsFeed ==
  ASSUME TInv, FeedInv, Publish
  PROVE  FeedInv'
<1> DEFINE m == Len(staged)
           r == staged[cursor].rec
<1>1. /\ pc = "publish" /\ cursor \in 1 .. m /\ feed' = Append(feed, r)
      /\ IF cursor = m THEN pc' = "ack" /\ cursor' = 1
                       ELSE pc' = "publish" /\ cursor' = cursor + 1
      /\ UNCHANGED <<staged, hlc, kv, applied, epoch, acks>>
  BY DEF Publish, Loop, TInv, LoopShape
<1>2. /\ m \in Nat /\ hlc \in Nat /\ feed \in Seq(WalRecord) /\ Len(feed) \in Nat
      /\ cursor \in Nat
  BY FeedType DEF TInv
<1>3. r \in WalRecord
  BY <1>1, FeedType DEF TInv
<1>4. r.seq = hlc - m + cursor /\ VersionOf(r) \in kv
  BY <1>1 DEF FeedInv, StagedIsDense, StagedIsApplied
<1>5. PICK b \in Int : DenseUpTo(feed, b) /\ b = hlc - m + (cursor - 1)
  BY <1>1 DEF FeedInv, FeedIsDense, Sent
<1>6. /\ Len(feed') = Len(feed) + 1
      /\ \A i \in 1 .. Len(feed) + 1 : feed'[i] = IF i <= Len(feed) THEN feed[i] ELSE r
  BY <1>1, <1>2, <1>3, AppendProperties
<1> HIDE DEF m, r
<1>7. FeedIsDense'
  <2>1. r.seq = b + 1 /\ b + 1 \in Int
    BY <1>2, <1>4, <1>5
  <2>2. DenseUpTo(Append(feed, r), b + 1)
    BY <1>2, <1>3, <1>5, <2>1, AppendIsDense
  <2>3. Sent' = cursor
    <3>1. CASE cursor = m
      BY <1>1, <3>1 DEF Sent, m
    <3>2. CASE cursor # m
      <4>1. pc' = "publish" /\ cursor' = cursor + 1
        BY <1>1, <3>2
      <4>2. cursor' - 1 = cursor
        BY <1>2, <4>1
      <4>3. QED
        BY <4>1, <4>2 DEF Sent
    <3>3. QED
      BY <3>1, <3>2
  <2>4. b + 1 = hlc - m + cursor
    BY <1>2, <1>5
  <2>5. hlc' = hlc /\ Len(staged') = m
    BY <1>1 DEF m
  <2>6. QED
    BY <1>1, <2>1, <2>2, <2>3, <2>4, <2>5 DEF FeedIsDense, DenseUpTo
<1>8. FeedIsReadable'
  <2>1. ASSUME NEW i \in 1 .. Len(feed) + 1 PROVE VersionOf(feed'[i]) \in kv
    <3>1. CASE i <= Len(feed)
      BY <1>2, <1>6, <3>1 DEF FeedInv, FeedIsReadable
    <3>2. CASE ~ (i <= Len(feed))
      BY <1>4, <1>6, <3>2
    <3>3. QED
      BY <3>1, <3>2
  <2>2. QED
    BY <1>1, <1>6, <2>1 DEF FeedIsReadable
<1>9. StagedIsDense' /\ StagedIsApplied' /\ AckedIsReadable'
  BY <1>1 DEF FeedInv, StagedIsDense, StagedIsApplied, AckedIsReadable
<1>10. QED
  BY <1>7, <1>8, <1>9 DEF FeedInv

(* A client is answered what is in the store; the batch ends with the last.      *)
LEMMA AnswerKeepsFeed ==
  ASSUME TInv, FeedInv, Answer
  PROVE  FeedInv'
<1> DEFINE m == Len(staged)
           r == staged[cursor].rec
<1>1. /\ pc = "ack" /\ cursor \in 1 .. m /\ acks' = acks \union {Ack(r, "batch")}
      /\ IF cursor = m THEN pc' = "recv" /\ staged' = <<>>
                       ELSE pc' = "ack" /\ staged' = staged
      /\ UNCHANGED <<feed, hlc, kv, applied, epoch>>
  BY DEF Answer, Loop, TInv, LoopShape, volatileVars
<1>2. m \in Nat /\ hlc \in Nat /\ cursor \in Nat
  BY FeedType DEF TInv
<1>3. /\ r.seq = hlc - m + cursor /\ VersionOf(r) \in kv /\ applied = hlc
  BY <1>1 DEF FeedInv, StagedIsDense, StagedIsApplied
<1>4. Len(<<>>) = 0 /\ \A j \in 1 .. 0 : FALSE
  BY EmptySeq
<1>5. AckedIsReadable'
  <2>1. Ack(r, "batch").rec = r
    BY DEF Ack
  <2>2. r.seq <= applied
    BY <1>1, <1>2, <1>3
  <2>3. QED
    BY <1>1, <1>3, <2>1, <2>2 DEF FeedInv, AckedIsReadable
<1>6. StagedIsDense' /\ StagedIsApplied'
  <2>1. CASE staged' = <<>> /\ pc' = "recv"
    BY <1>4, <2>1 DEF StagedIsDense, StagedIsApplied
  <2>2. CASE staged' = staged /\ pc' = "ack"
    BY <1>1, <2>2 DEF FeedInv, StagedIsDense, StagedIsApplied
  <2>3. QED
    BY <1>1, <2>1, <2>2
<1>7. FeedIsDense'
  <2>1. PICK b \in Int : DenseUpTo(feed, b) /\ b = hlc - m + m
    BY <1>1 DEF FeedInv, FeedIsDense, Sent
  <2>2. CASE staged' = <<>> /\ pc' = "recv"
    <3>1. Len(staged') = 0 /\ Sent' = 0
      BY <1>4, <2>2 DEF Sent
    <3>2. b = hlc - 0 + 0
      BY <1>2, <2>1
    <3>3. QED
      BY <1>1, <2>1, <3>1, <3>2 DEF FeedIsDense, DenseUpTo
  <2>3. CASE staged' = staged /\ pc' = "ack"
    <3>1. Sent' = m /\ Len(staged') = m
      BY <2>3 DEF Sent
    <3>2. QED
      BY <1>1, <2>1, <3>1 DEF FeedIsDense, DenseUpTo
  <2>4. QED
    BY <1>1, <2>2, <2>3
<1>8. FeedIsReadable'
  BY <1>1 DEF FeedInv, FeedIsReadable
<1>9. QED
  BY <1>5, <1>6, <1>7, <1>8 DEF FeedInv

(* Every step keeps what subscribers and readers rely on. *)
LEMMA FeedStep ==
  ASSUME TInv, LogInv, AnswerInv, FeedInv, [Next]_vars, TInv'
  PROVE  FeedInv'
<1>1. CASE Open
  <2>1. /\ pc = "down" /\ pc' = "recv" /\ feed' = <<>> /\ staged' = staged
        /\ epoch' = epoch + 1 /\ acks' = acks
    BY <1>1 DEF Open
  <2>2. staged' = <<>>
    BY <2>1 DEF TInv, LoopShape
  <2>3. \A a \in acks : a.epoch # epoch + 1
    BY AckType DEF TInv, AnswerInv, AcksAreRemembered
  <2>4. hlc' \in Nat
    BY MvccAssumption DEF TInv, TypeOK
  <2>5. QED
    BY <2>1, <2>2, <2>3, <2>4, FeedStartsEmpty
<1>2. CASE LoseVolatile
  BY <1>2, FeedStartsEmpty DEF LoseVolatile
<1>3. CASE StopWithError
  <2>1. /\ pc' = "stopped" /\ staged' = <<>> /\ pc # "down"
        /\ UNCHANGED <<feed, hlc, kv, applied, acks, epoch>>
    BY <1>3 DEF StopWithError, volatileVars
  <2>2. Len(<<>>) = 0 /\ \A j \in 1 .. 0 : FALSE
    BY EmptySeq
  <2>3. QED
    BY <2>1, <2>2 DEF FeedInv, StagedIsDense, FeedIsDense, DenseUpTo, FeedIsReadable,
       StagedIsApplied, AckedIsReadable
<1>4. CASE AllDuplicates
  <2>1. /\ pc = "stage" /\ pc' = "recv" /\ applied' = hlc
        /\ UNCHANGED <<staged, feed, hlc, kv, acks, epoch>>
    BY <1>4 DEF AllDuplicates
  <2>2. FeedIsDense'
    <3>1. Sent = 0 /\ Sent' = 0
      BY <2>1 DEF Sent
    <3>2. QED
      BY <2>1, <3>1 DEF FeedInv, FeedIsDense, DenseUpTo
  <2>3. AckedIsReadable'
    <3>1. applied <= hlc /\ applied \in Nat /\ hlc \in Nat
      BY FeedType DEF TInv, LogInv, AppliedIsOld
    <3>2. \A a \in acks : a.rec.seq \in Nat
      BY AckType DEF TInv
    <3>3. \A a \in acks : a.rec.seq <= applied => a.rec.seq <= hlc
      BY <3>1, <3>2
    <3>4. QED
      BY <2>1, <3>3 DEF FeedInv, AckedIsReadable
  <2>4. QED
    BY <2>1, <2>2, <2>3 DEF FeedInv, StagedIsDense, FeedIsReadable, StagedIsApplied
<1>5. CASE StageDup
  <2>1. /\ UNCHANGED <<pc, cursor, staged, hlc, feed, kv, applied, epoch>>
        /\ \E rec : acks' = acks \union {Ack(rec, "dedup")}
    BY <1>5 DEF StageDup, volatileVars
  <2>2. \A a \in acks' : a.via = "batch" => a \in acks
    BY <2>1 DEF Ack
  <2>3. QED
    BY <2>1, <2>2, FeedUntouched
<1>6. CASE Drain \/ BatchStaged \/ Write
  BY <1>6, FeedUntouched DEF Drain, BatchStaged, Write, volatileVars
<1>7. CASE Fsync
  BY <1>7, FeedUntouched DEF Fsync, volatileVars, TInv, LoopShape
<1>8. ASSUME UNCHANGED <<pc, cursor, staged, hlc, feed, kv, applied, epoch, acks>>
      PROVE  FeedInv'
  BY <1>8, FeedUntouched
<1>9. QED
  BY <1>1, <1>2, <1>3, <1>4, <1>5, <1>6, <1>7, <1>8, ApplyKeepsFeed, PublishKeepsFeed,
     StageNewKeepsFeed, AnswerKeepsFeed DEF Next, Committer, Submit, ProcessCrash, PowerFail,
     Close, committerVars, volatileVars, vars

(* The invariant of feed and readers holds in every behaviour. *)
LEMMA FeedInvariance == Spec => []FeedInv
<1>1. Init => FeedInv
  <2> SUFFICES ASSUME Init PROVE FeedInv
    OBVIOUS
  <2>1. Len(<<>>) = 0 /\ \A j \in 1 .. 0 : FALSE
    BY EmptySeq
  <2>2. staged = <<>> /\ feed = <<>> /\ pc = "down" /\ hlc = 0
    BY DEF Init
  <2>3. StagedIsDense /\ FeedIsReadable /\ StagedIsApplied /\ AckedIsReadable
    BY <2>1, <2>2 DEF StagedIsDense, FeedIsReadable, StagedIsApplied, AckedIsReadable
  <2>4. Sent = 0 /\ 0 \in Int /\ 0 = 0 - 0 + 0 /\ DenseUpTo(<<>>, 0)
    BY <2>1, <2>2 DEF Sent, DenseUpTo
  <2>5. FeedIsDense
    BY <2>1, <2>2, <2>4 DEF FeedIsDense
  <2>6. QED
    BY <2>3, <2>5 DEF FeedInv
<1>2. TInv /\ LogInv /\ AnswerInv /\ FeedInv /\ [Next]_vars => FeedInv'
  BY FeedStep, TypeStep DEF LogInv
<1>3. QED
  BY <1>1, <1>2, Invariance, AnswerInvariance, PTL DEF Spec

(* Subscribers get the writes of an opening in log order without a gap, each    *)
(* once it is readable, whatever the batches, failures and restarts            *)
(* (committer_loop, cdc.rs publish).                                          *)
THEOREM SubscribersMissNothing == Spec => []FeedIsGapFree
<1>1. TInv /\ FeedInv => FeedIsGapFree
  BY FeedInvGapFree
<1>2. QED
  BY <1>1, Invariance, FeedInvariance, PTL

-----------------------------------------------------------------------------
(* Readers *)

(* A client that was answered at the end of its batch reads its own write or a  *)
(* newer one for as long as the store is open (committer_loop, truth.rs get).    *)
THEOREM ClientsReadTheirWrites == Spec => []ReadYourWrites
<1>1. ASSUME TInv, LogInv, FeedInv PROVE ReadYourWrites
  <2> SUFFICES ASSUME pc # "down", NEW a \in acks, a.via = "batch", a.epoch = epoch
               PROVE  \E v \in Newest(Visible(kv, a.rec.req.sid, a.rec.req.pred, hlc)) :
                        v.seq >= a.rec.seq
    BY DEF ReadYourWrites
  <2> DEFINE K == Visible(kv, a.rec.req.sid, a.rec.req.pred, hlc)
             w == VersionOf(a.rec)
             T == {v.seq : v \in K}
  <2>1. hlc \in Nat /\ applied \in Nat /\ kv \in SUBSET Version /\ applied <= hlc
    BY <1>1, FeedType DEF TInv, LogInv, AppliedIsOld
  <2>2. a.rec.seq \in Nat
    BY <1>1, AckType DEF TInv
  <2>3. w \in kv /\ a.rec.seq <= applied
    BY <1>1 DEF FeedInv, AckedIsReadable
  <2>4. w.sid = a.rec.req.sid /\ w.pred = a.rec.req.pred /\ w.seq = a.rec.seq
    BY DEF VersionOf
  <2>5. w.seq <= hlc
    BY <2>1, <2>2, <2>3, <2>4
  <2>6. w \in K
    BY <2>3, <2>4, <2>5 DEF Visible
  <2>7. \A v \in K : v \in Version /\ v.seq <= hlc
    BY <2>1 DEF Visible
  <2>8. \A v \in K : v.seq \in Nat
    BY <2>7, MvccAssumption DEF Version
  <2>9. T \in SUBSET Nat /\ T # {} /\ \A t \in T : t <= hlc
    BY <2>6, <2>7, <2>8
  <2>10. PICK x \in T : \A y \in T : y <= x
    <3> HIDE DEF T
    <3>1. QED
      BY <2>1, <2>9, LargestNumber
  <2>11. PICK v \in K : v.seq = x
    BY <2>10
  <2>12. v \in Newest(K)
    BY <2>10, <2>11 DEF Newest
  <2>13. v.seq >= a.rec.seq
    BY <2>2, <2>4, <2>6, <2>8, <2>10, <2>11
  <2>14. QED
    BY <2>12, <2>13
<1>2. QED
  BY <1>1, Invariance, FeedInvariance, PTL
-----------------------------------------------------------------------------
(* What a clean restart changes *)

Frames == {file[i] : i \in DOMAIN file}

Batch == {staged[j].rec : j \in DOMAIN staged}

ToApply == {staged[j].rec : j \in cursor .. Len(staged)}

(* Memory holds nothing that is not in the log or staged, and all of the log but  *)
(* what the apply loop has still to do.                                        *)
MemoryIsLog ==
  pc \notin {"down", "stopped"} /\ Torn \notin Frames =>
    /\ hlc = 0 \/ \E r \in Frames \union Batch : r.seq = hlc
    /\ \A k \in Idems : idem[k] = 0 \/ \E r \in Frames \union Batch :
                                         r.req.idem = k /\ r.seq = idem[k]
    /\ \A v \in kv : \E r \in Frames : v = VersionOf(r)
    /\ \A r \in Frames : VersionOf(r) \in kv \/ (pc \in {"fsync", "apply"} /\ r \in ToApply)

(* Recovery reaches all of a log without a torn frame, and its timestamps are     *)
(* those of one frame each.                                                   *)
LEMMA WholeLog ==
  ASSUME TInv, LogInv, Torn \notin Frames
  PROVE  /\ Intact(file) = DOMAIN file
         /\ \A r \in Frames : /\ r \in WalRecord /\ r.seq \in 1 .. MaxTs /\ r.seq # 0
                             /\ r.req.idem \in Idems
         /\ \A r, q \in Frames : r.seq = q.seq \/ r.req.idem = q.req.idem => r = q
         /\ pc # "down" => \A r \in Frames : r.seq <= hlc /\ idem[r.req.idem] = r.seq
<1>1. Intact(file) = DOMAIN file
  BY DEF Intact, Frames
<1>2. \A i \in DOMAIN file : /\ file[i] \in WalRecord /\ file[i].seq \in 1 .. MaxTs
                            /\ file[i].req.idem \in Idems /\ i \in Int
  BY <1>1, FileType DEF TInv
<1>3. \A n \in 1 .. MaxTs : n # 0
  BY MvccAssumption
<1>4. ASSUME NEW i \in DOMAIN file, NEW j \in DOMAIN file,
             file[i].seq = file[j].seq \/ file[i].req.idem = file[j].req.idem
      PROVE  file[i] = file[j]
  <2>1. i = j \/ i < j \/ j < i
    BY <1>2
  <2>2. file[i].seq \in Int /\ file[j].seq \in Int
    BY <1>2
  <2>3. i < j => file[i].seq < file[j].seq /\ file[i].req.idem # file[j].req.idem
    BY <1>1 DEF LogInv, LogWellFormed
  <2>4. j < i => file[j].seq < file[i].seq /\ file[j].req.idem # file[i].req.idem
    BY <1>1 DEF LogInv, LogWellFormed
  <2>5. QED
    BY <1>4, <2>1, <2>2, <2>3, <2>4
<1>5. pc # "down" => \A i \in DOMAIN file : Remembered(file[i])
  BY <1>1 DEF LogInv, LogIsRemembered
<1>6. QED
  BY <1>1, <1>2, <1>3, <1>4, <1>5 DEF Frames, Remembered

(* A replay of such a log gives the version of every frame. *)
LEMMA ReplayIsWholeLog ==
  ASSUME TInv, LogInv, Torn \notin Frames
  PROVE  ReplayedKv(file) = {VersionOf(r) : r \in Frames}
<1>1. ASSUME NEW i \in DOMAIN file, NEW j \in Intact(file), j > i
      PROVE  KeyOf(VersionOf(file[j])) # KeyOf(VersionOf(file[i]))
  <2>1. /\ i \in Intact(file) /\ i \in Int /\ j \in Int /\ MaxTs \in Nat
        /\ file[i].seq \in Nat /\ file[j].seq \in Nat
    BY WholeLog, FileType, MvccAssumption DEF TInv
  <2>2. i < j
    BY <1>1, <2>1
  <2>3. file[i].seq < file[j].seq
    BY <2>1, <2>2 DEF LogInv, LogWellFormed
  <2>4. MaxTs - file[i].seq # MaxTs - file[j].seq
    BY <2>1, <2>3
  <2>5. QED
    BY <2>4 DEF KeyOf, GrainKey, Complement, VersionOf
<1>2. \A i \in DOMAIN file : VersionOf(file[i]) \in ReplayedKv(file)
  BY <1>1, WholeLog DEF ReplayedKv
<1>3. \A v \in ReplayedKv(file) : \E i \in DOMAIN file : v = VersionOf(file[i])
  BY WholeLog DEF ReplayedKv
<1>4. QED
  BY <1>2, <1>3 DEF Frames

(* What is written of the batch is in the log. *)
LEMMA BatchIsLogged ==
  ASSUME TInv, LogInv, pc \in {"fsync", "apply", "publish", "ack"}
  PROVE  Batch \subseteq Frames
<1>1. /\ Len(file) \in Nat /\ Len(staged) \in Nat /\ DOMAIN file = 1 .. Len(file)
      /\ DOMAIN staged = 1 .. Len(staged)
  BY FileType DEF TInv
<1>2. ASSUME NEW j \in 1 .. Len(staged) PROVE staged[j].rec \in Frames
  <2>1. /\ Len(staged) <= Len(file)
        /\ file[Len(file) - Len(staged) + j] = staged[j].rec
    BY DEF LogInv, StagedIsWritten
  <2>2. Len(file) - Len(staged) + j \in 1 .. Len(file)
    BY <1>1, <2>1
  <2>3. QED
    BY <1>1, <2>1, <2>2 DEF Frames
<1>3. QED
  BY <1>1, <1>2 DEF Batch

(* Opening rebuilds memory from the log. *)
LEMMA OpenRebuilds ==
  ASSUME TInv, LogInv, Open
  PROVE  MemoryIsLog'
<1>1. /\ kv' = ReplayedKv(file) /\ idem' = ReplayedIdem(file)
      /\ hlc' \in HighWatermarks(file) /\ file' = file
  BY DEF Open, OpenForAppend
<1>2. Frames' = Frames
  BY <1>1 DEF Frames
<1> SUFFICES ASSUME Torn \notin Frames PROVE MemoryIsLog'
  BY <1>2 DEF MemoryIsLog
<1>3. hlc' = 0 \/ \E r \in Frames : r.seq = hlc'
  BY <1>1, WholeLog DEF HighWatermarks, Frames
<1>4. ASSUME NEW k \in Idems, idem'[k] # 0
      PROVE  \E r \in Frames : r.req.idem = k /\ r.seq = idem'[k]
  <2>1. WithIdem(file, k) # {} /\ idem'[k] = file[FirstWithIdem(file, k)].seq
    BY <1>1, <1>4 DEF ReplayedIdem
  <2>5. FirstWithIdem(file, k) \in WithIdem(file, k)
    BY <2>1, FirstIsThere DEF TInv, LogInv
  <2>6. QED
    BY <2>1, <2>5, WholeLog DEF WithIdem, Frames
<1>5. kv' = {VersionOf(r) : r \in Frames}
  BY <1>1, ReplayIsWholeLog
<1>6. QED
  BY <1>2, <1>3, <1>4, <1>5 DEF MemoryIsLog

(* Steps that leave memory, log and batch alone. *)
LEMMA MemoryUntouched ==
  ASSUME MemoryIsLog, UNCHANGED <<file, staged, kv, idem, hlc>>,
         pc' \notin {"down", "stopped"} =>
           /\ pc \notin {"down", "stopped"}
           /\ pc \in {"fsync", "apply"} => pc' \in {"fsync", "apply"} /\ cursor' = cursor
  PROVE  MemoryIsLog'
<1>1. Frames' = Frames /\ Batch' = Batch
  BY DEF Frames, Batch
<1>2. pc' \in {"fsync", "apply"} /\ pc \in {"fsync", "apply"} => ToApply' = ToApply
  BY DEF ToApply
<1>3. QED
  BY <1>1, <1>2 DEF MemoryIsLog

(* A write joins the batch, the clock and the dedup map together. *)
LEMMA StageNewRemembers ==
  ASSUME TInv, LogInv, MemoryIsLog, StageNew
  PROVE  MemoryIsLog'
<1> DEFINE k == Head(batch).req.idem
           c == [client |-> Head(batch).client, rec |-> [req |-> Head(batch).req, seq |-> hlc + 1]]
<1>1. /\ idem' = [idem EXCEPT ![k] = hlc + 1] /\ hlc' = hlc + 1 /\ staged' = Append(staged, c)
      /\ UNCHANGED <<file, kv, pc, cursor>> /\ pc = "stage"
  BY DEF StageNew
<1>2. c \in Staged /\ k \in Idems /\ idem \in [Idems -> 0 .. MaxTs]
  <2>1. hlc < MaxTs /\ hlc \in Nat /\ MaxTs \in Nat
    BY MvccAssumption, FeedType DEF StageNew, TInv
  <2>2. hlc + 1 \in 1 .. MaxTs
    BY <2>1
  <2>3. QED
    BY <2>2, PendingHead DEF StageNew, TInv, TypeOK, Staged, WalRecord
<1>3. c.rec.seq = hlc + 1 /\ c.rec.req.idem = k
  OBVIOUS
<1> HIDE DEF k, c
<1>4. /\ staged \in Seq(Staged) /\ Len(staged) \in Nat /\ DOMAIN staged = 1 .. Len(staged)
  BY FileType DEF TInv
<1>5. /\ staged' \in Seq(Staged) /\ Len(staged') = Len(staged) + 1
      /\ \A j \in 1 .. Len(staged) : staged'[j] = staged[j]
      /\ staged'[Len(staged) + 1] = c
  BY <1>1, <1>2, <1>4, AppendProperties
<1>6. DOMAIN staged' = 1 .. Len(staged) + 1
  BY <1>5, LenProperties
<1>7. Batch \subseteq Batch' /\ c.rec \in Batch'
  <2>1. Len(staged) + 1 \in DOMAIN staged' /\ \A j \in DOMAIN staged : j \in DOMAIN staged'
    BY <1>4, <1>6
  <2>2. \A j \in DOMAIN staged : staged'[j] = staged[j]
    BY <1>4, <1>5
  <2>3. QED
    BY <1>5, <2>1, <2>2 DEF Batch
<1>8. Frames' = Frames
  BY <1>1 DEF Frames
<1>9. \A l \in Idems : idem'[l] = IF l = k THEN hlc + 1 ELSE idem[l]
  BY <1>1, <1>2
<1>10. QED
  BY <1>1, <1>3, <1>7, <1>8, <1>9 DEF MemoryIsLog

(* The batch joins the log, to be applied. *)
LEMMA WriteLogs ==
  ASSUME TInv, LogInv, MemoryIsLog, Write
  PROVE  MemoryIsLog'
<1>1. /\ pc = "write" /\ pc' = "fsync" /\ file' = file \o FramesOf(staged)
      /\ UNCHANGED <<hlc, idem, kv, staged, cursor>>
  BY DEF Write, volatileVars
<1>2. /\ file' \in Seq(Frame) /\ Len(file') = Len(file) + Len(staged)
      /\ \A i \in 1 .. Len(file) : file'[i] = file[i]
      /\ \A j \in 1 .. Len(staged) : file'[Len(file) + j] = staged[j].rec
  BY <1>1, AppendedBatchIsInOrder
<1>3. /\ Len(file) \in Nat /\ Len(staged) \in Nat /\ DOMAIN file = 1 .. Len(file)
      /\ DOMAIN file' = 1 .. Len(file) + Len(staged) /\ DOMAIN staged = 1 .. Len(staged)
      /\ cursor = 1
  BY <1>1, <1>2, FileType, LenProperties DEF TInv, LoopShape
<1>4. Frames' = Frames \union Batch
  <2>1. ASSUME NEW i \in DOMAIN file' PROVE file'[i] \in Frames \union Batch
    <3>1. CASE i <= Len(file)
      BY <1>2, <1>3, <3>1 DEF Frames
    <3>2. CASE ~ (i <= Len(file))
      <4>1. i - Len(file) \in 1 .. Len(staged) /\ i = Len(file) + (i - Len(file))
        BY <1>3, <3>2
      <4>2. file'[i] = staged[i - Len(file)].rec
        BY <1>2, <4>1
      <4>3. QED
        BY <1>3, <4>1, <4>2 DEF Batch
    <3>3. QED
      BY <3>1, <3>2
  <2>2. ASSUME NEW i \in DOMAIN file PROVE file[i] \in Frames'
    <3>1. i \in DOMAIN file' /\ file'[i] = file[i]
      BY <1>2, <1>3
    <3>2. QED
      BY <3>1 DEF Frames
  <2>3. ASSUME NEW j \in DOMAIN staged PROVE staged[j].rec \in Frames'
    <3>1. Len(file) + j \in DOMAIN file' /\ file'[Len(file) + j] = staged[j].rec
      BY <1>2, <1>3
    <3>2. QED
      BY <3>1 DEF Frames
  <2>4. QED
    BY <2>1, <2>2, <2>3 DEF Frames, Batch
<1>5. Batch' = Batch /\ ToApply' = Batch
  BY <1>1, <1>3 DEF Batch, ToApply
<1>6. QED
  BY <1>1, <1>4, <1>5 DEF MemoryIsLog

(* One write of the batch leaves what is to be applied and enters the store. *)
LEMMA ApplyApplies ==
  ASSUME TInv, LogInv, MemoryIsLog, Apply
  PROVE  MemoryIsLog'
<1> DEFINE r == staged[cursor].rec
           v == VersionOf(r)
<1>1. /\ pc = "apply" /\ cursor \in 1 .. Len(staged) /\ kv' = PutGrain(kv, v)
      /\ IF cursor = Len(staged) THEN pc' = "publish" ELSE pc' = "apply" /\ cursor' = cursor + 1
      /\ UNCHANGED <<staged, file, hlc, idem>>
  BY DEF Apply, Loop, TInv, LoopShape
<1>2. /\ kv \in SUBSET Version /\ Len(staged) \in Nat /\ DOMAIN staged = 1 .. Len(staged)
      /\ cursor \in Nat
  BY FileType, FeedType DEF TInv
<1>3. v \in Version /\ v.seq = r.seq
  BY <1>1, StagedElement DEF VersionOf
<1>4. Frames' = Frames /\ Batch' = Batch /\ r \in Frames
  <2>1. Frames' = Frames /\ Batch' = Batch
    BY <1>1 DEF Frames, Batch
  <2>2. r \in Batch
    BY <1>1, <1>2 DEF Batch
  <2>3. QED
    BY <1>1, <2>1, <2>2, BatchIsLogged
<1> SUFFICES ASSUME Torn \notin Frames PROVE MemoryIsLog'
  BY <1>4 DEF MemoryIsLog
<1>5. \A w \in kv : w.seq # v.seq => w \in kv'
  BY <1>1, <1>2, <1>3, PutKeepsOthers
<1>6. v \in kv' /\ \A w \in kv' : w = v \/ w \in kv
  BY <1>1 DEF PutGrain
<1>7. \A q \in Frames : VersionOf(q).seq = q.seq
  BY DEF VersionOf
<1>8. \A q \in ToApply : q = r \/ (pc' = "apply" /\ q \in ToApply')
  <2> SUFFICES ASSUME NEW j \in cursor .. Len(staged)
               PROVE  staged[j].rec = r \/ (pc' = "apply" /\ staged[j].rec \in ToApply')
    BY DEF ToApply
  <2>1. CASE j = cursor
    BY <2>1
  <2>2. CASE j # cursor
    <3>0. cursor \in Nat /\ Len(staged) \in Nat
      BY <1>2
    <3>1. cursor # Len(staged) /\ j \in cursor + 1 .. Len(staged)
      BY <2>2, <3>0
    <3>2. pc' = "apply" /\ cursor' = cursor + 1
      BY <1>1, <3>1
    <3>3. QED
      BY <1>1, <3>1, <3>2 DEF ToApply
  <2>3. QED
    BY <2>1, <2>2
<1> HIDE DEF r
<1>9. ASSUME NEW q \in Frames
      PROVE  VersionOf(q) \in kv' \/ (pc' = "apply" /\ q \in ToApply')
  <2>1. CASE q = r
    BY <1>6, <2>1
  <2>2. CASE q # r
    <3>1. q.seq # r.seq
      BY <1>4, <2>2, WholeLog
    <3>2. VersionOf(q) \in kv \/ q \in ToApply
      BY <1>1 DEF MemoryIsLog
    <3>3. QED
      BY <1>3, <1>5, <1>7, <1>8, <2>2, <3>1, <3>2
  <2>3. QED
    BY <2>1, <2>2
<1>10. \A w \in kv' : \E q \in Frames : w = VersionOf(q)
  BY <1>1, <1>4, <1>6 DEF MemoryIsLog
<1>11. QED
  BY <1>1, <1>4, <1>9, <1>10 DEF MemoryIsLog

(* Every step keeps memory and log together. *)
LEMMA MemoryStep ==
  ASSUME TInv, LogInv, MemoryIsLog, [Next]_vars
  PROVE  MemoryIsLog'
<1>1. CASE Answer
  <2>1. /\ pc = "ack" /\ pc' \in {"ack", "recv"} /\ UNCHANGED <<file, kv, idem, hlc>>
    BY <1>1 DEF Answer, Loop, volatileVars
  <2>2. Frames' = Frames
    BY <2>1 DEF Frames
  <2>3. Batch \subseteq Frames
    BY <2>1, BatchIsLogged
  <2>4. QED
    BY <2>1, <2>2, <2>3 DEF MemoryIsLog
<1>2. CASE pc' \in {"down", "stopped"}
  BY <1>2 DEF MemoryIsLog
<1>3. CASE Publish
  BY <1>3, MemoryUntouched DEF Publish, Loop
<1>4. CASE Drain \/ StageDup \/ AllDuplicates \/ BatchStaged \/ Fsync
  BY <1>4, MemoryUntouched DEF Drain, StageDup, AllDuplicates, BatchStaged, Fsync, volatileVars
<1>5. ASSUME UNCHANGED <<pc, cursor, file, staged, kv, idem, hlc>>
      PROVE  MemoryIsLog'
  BY <1>5, MemoryUntouched
<1>6. CASE Open
  BY <1>6, OpenRebuilds
<1>7. CASE StageNew
  BY <1>7, StageNewRemembers
<1>8. CASE Write
  BY <1>8, WriteLogs
<1>9. CASE Apply
  BY <1>9, ApplyApplies
<1>10. QED
  BY <1>1, <1>2, <1>3, <1>4, <1>5, <1>6, <1>7, <1>8, <1>9 DEF Next, Committer, Submit,
     StopWithError, ProcessCrash, PowerFail, Close, LoseVolatile, committerVars, volatileVars, vars

(* Whenever the committer waits for work, a recovery of the log would rebuild     *)
(* what is in memory: a clean restart changes no version, no dedup entry and      *)
(* not the clock (recover, committer_loop).                                     *)
THEOREM RestartChangesNothing == Spec => []IdleEqualsReplay
<1>1. Init => MemoryIsLog
  BY DEF Init, MemoryIsLog
<1>2. TInv /\ LogInv /\ MemoryIsLog /\ [Next]_vars => MemoryIsLog'
  BY MemoryStep
<1>3. ASSUME TInv, LogInv, MemoryIsLog PROVE IdleEqualsReplay
  <2> SUFFICES ASSUME pc = "recv", Torn \notin Frames
               PROVE  /\ kv = ReplayedKv(file) /\ idem = ReplayedIdem(file)
                      /\ hlc \in HighWatermarks(file)
    BY DEF IdleEqualsReplay, Frames
  <2>1. Batch = {}
    BY <1>3 DEF TInv, LoopShape, Batch
  <2>2. /\ hlc = 0 \/ \E r \in Frames : r.seq = hlc
        /\ \A k \in Idems : idem[k] = 0 \/ \E r \in Frames : r.req.idem = k /\ r.seq = idem[k]
        /\ \A v \in kv : \E r \in Frames : v = VersionOf(r)
        /\ \A r \in Frames : VersionOf(r) \in kv
    BY <1>3, <2>1 DEF MemoryIsLog
  <2>3. /\ Intact(file) = DOMAIN file
        /\ \A r \in Frames : r \in WalRecord /\ r.seq \in 1 .. MaxTs /\ r.seq # 0
        /\ \A r, q \in Frames : r.seq = q.seq \/ r.req.idem = q.req.idem => r = q
        /\ \A r \in Frames : r.seq <= hlc /\ idem[r.req.idem] = r.seq
    BY <1>3, WholeLog
  <2>4. hlc \in HighWatermarks(file)
    <3>1. hlc \in {file[i].seq : i \in Intact(file)} \union {0}
      BY <2>2, <2>3 DEF Frames
    <3>2. \A n \in {file[i].seq : i \in Intact(file)} \union {0} : n <= hlc
      <4>1. 0 <= hlc
        BY <1>3, FileType DEF TInv
      <4>2. QED
        BY <2>3, <4>1 DEF Frames
    <3>3. QED
      BY <3>1, <3>2 DEF HighWatermarks
  <2>5. ASSUME NEW k \in Idems PROVE idem[k] = ReplayedIdem(file)[k]
    <3>1. CASE WithIdem(file, k) = {}
      <4>1. \A r \in Frames : r.req.idem # k
        BY <2>3, <3>1 DEF WithIdem, Frames
      <4>2. idem[k] = 0
        BY <2>2, <4>1
      <4>3. QED
        BY <3>1, <4>2 DEF ReplayedIdem
    <3>2. CASE WithIdem(file, k) # {}
      <4>4. FirstWithIdem(file, k) \in WithIdem(file, k)
        BY <1>3, <3>2, FirstIsThere DEF TInv, LogInv
      <4>5. idem[k] = file[FirstWithIdem(file, k)].seq
        BY <2>3, <4>4 DEF WithIdem, Frames
      <4>6. QED
        BY <3>2, <4>5 DEF ReplayedIdem
    <3>3. QED
      BY <3>1, <3>2
  <2>6. idem = ReplayedIdem(file)
    BY <1>3, <2>5 DEF TInv, TypeOK, ReplayedIdem
  <2>7. kv = ReplayedKv(file)
    BY <1>3, <2>2, ReplayIsWholeLog
  <2>8. QED
    BY <2>4, <2>6, <2>7
<1>4. QED
  BY <1>1, <1>2, <1>3, Invariance, PTL DEF Spec
=============================================================================
