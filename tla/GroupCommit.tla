-------------------------------- MODULE GroupCommit --------------------------------
(***************************************************************************)
(* The truth store's write path: clients hand writes to one committer      *)
(* thread, which takes everything queued as one batch, drops duplicates,   *)
(* stamps the rest, appends them to the log with one write and one fsync,  *)
(* applies them to the key-value store, publishes them to subscribers and  *)
(* answers the clients (wal.rs).  Opening the store replays the log         *)
(* (recovery.rs, truth.rs).                                                *)
(*                                                                         *)
(* The log file is a sequence of frames; Torn is a partial frame, which    *)
(* decode_frame rejects and recovery stops at.  `synced` is how many       *)
(* elements of the file an fsync (or a reboot) has made durable.            *)
(*                                                                         *)
(* Environment: the process may crash (what was written stays in the page  *)
(* cache), the machine may lose power (any suffix that was not synced may  *)
(* go, or be cut inside a frame), a write or fsync may fail.               *)
(***************************************************************************)
EXTENDS Mvcc

CONSTANTS
  Clients,          \* threads calling put and delete
  Idems,            \* idempotency keys
  Requests,         \* the write requests clients make
  Torn,             \* a frame that was cut
  MaxSubmits,       \* bound on the number of requests
  MaxEpochs,        \* bound on how often the store is opened
  ProcessCrashes,   \* may the process crash?
  PowerLoss,        \* may the machine lose power?
  WriteErrors,      \* may write_all or sync_all fail?
  TornTails         \* may a crash cut the file inside a frame?

WriteReq == [sid : Sids, pred : Preds, op : Ops, val : Vals, idem : Idems]

(* WalRecord: a request with its commit timestamp. *)
WalRecord == [req : WriteReq, seq : 1 .. MaxTs]

ASSUME GroupCommitAssumption ==
  /\ Requests \subseteq WriteReq
  /\ Torn \notin WalRecord
  /\ MaxSubmits \in Nat
  /\ MaxEpochs \in Nat
  /\ {ProcessCrashes, PowerLoss, WriteErrors, TornTails} \subseteq BOOLEAN

VARIABLES
  pc,         \* where the committer thread is; "down" when the store is not open
  queue,      \* the channel to the committer: <<client, request>> records
  waiting,    \* clients blocked in commit
  batch,      \* what is left to stage of the current batch
  staged,     \* the new writes of the batch: buf, puts, cdc_recs and acks in one
  cursor,     \* position of the loop over staged
  file,       \* the log file
  synced,     \* length of its durable part
  kv,         \* the key-value store (volatile)
  applied,    \* META_APPLIED_SEQ (volatile)
  hlc,        \* the last timestamp issued (volatile)
  idem,       \* idempotency key -> timestamp, 0 when absent (volatile)
  feed,       \* what subscribers of this opening were sent
  epoch,      \* how many times the store was opened
  submitted,  \* how many requests were made
  acks        \* history: the positive answers given to clients

committerVars == <<pc, batch, staged, cursor>>
volatileVars  == <<kv, applied, hlc, idem, feed>>
vars == <<pc, queue, waiting, batch, staged, cursor, file, synced, kv, applied,
          hlc, idem, feed, epoch, submitted, acks>>

Pending == [client : Clients, req : Requests]

Staged == [client : Clients, rec : WalRecord]

VersionOf(rec) ==
  [sid |-> rec.req.sid, pred |-> rec.req.pred, op |-> rec.req.op,
   val |-> rec.req.val, seq |-> rec.seq]

NoIdem == [k \in Idems |-> 0]

(* The frames of the staged writes, as encode_frame appends them to buf. *)
FramesOf(st) == [i \in DOMAIN st |-> st[i].rec]

(* Positions recovery reaches: no torn frame at or before them. *)
Intact(f) == {i \in DOMAIN f : \A j \in DOMAIN f : j <= i => f[j] # Torn}

(* What can be left of `full` when only its first `keep` frames are safe. *)
Cuts(full, keep) ==
  {SubSeq(full, 1, n) : n \in keep .. Len(full)} \union
  (IF TornTails
   THEN {Append(SubSeq(full, 1, n), Torn) : n \in keep .. Len(full) - 1}
   ELSE {})

Ack(rec, how) == [rec |-> rec, via |-> how, epoch |-> epoch]

-----------------------------------------------------------------------------
TypeOK ==
  /\ pc \in {"down", "recv", "stage", "write", "fsync", "apply", "publish",
             "ack", "stopped"}
  /\ queue \in Seq(Pending)
  /\ waiting \subseteq Clients
  /\ batch \in Seq(Pending)
  /\ staged \in Seq(Staged)
  /\ cursor \in Nat
  /\ file \in Seq(WalRecord \union {Torn})
  /\ synced \in 0 .. Len(file)
  /\ kv \subseteq Version
  /\ applied \in 0 .. MaxTs
  /\ hlc \in 0 .. MaxTs
  /\ idem \in [Idems -> 0 .. MaxTs]
  /\ feed \in Seq(WalRecord)
  /\ epoch \in 0 .. MaxEpochs
  /\ submitted \in 0 .. MaxSubmits
  /\ acks \subseteq [rec : WalRecord, via : {"batch", "dedup"}, epoch : 0 .. MaxEpochs]

(* No store is open; the log file is new. *)
Init ==
  /\ pc = "down"
  /\ queue = <<>> /\ waiting = {} /\ batch = <<>> /\ staged = <<>> /\ cursor = 1
  /\ file = <<>> /\ synced = 0
  /\ kv = {} /\ applied = 0 /\ hlc = 0 /\ idem = NoIdem /\ feed = <<>>
  /\ epoch = 0 /\ submitted = 0 /\ acks = {}

-----------------------------------------------------------------------------
(* Recovery (TruthStore::open, recover) *)

(* A replay that skips tombstones. *)
ReplayedKv_NoTombstones(f) ==
  {VersionOf(f[i]) : i \in {n \in Intact(f) : f[n].req.op # "delete"}}

(* Replay in file order: the last entry of a key wins. *)
ReplayedKv(f) ==
  LET last(i) == \A j \in Intact(f) :
                   j > i => KeyOf(VersionOf(f[j])) # KeyOf(VersionOf(f[i]))
  IN  {VersionOf(f[i]) : i \in {n \in Intact(f) : last(n)}}

WithIdem(f, k) == {i \in Intact(f) : f[i].req.idem = k}

FirstWithIdem(f, k) ==
  CHOOSE i \in WithIdem(f, k) : \A j \in WithIdem(f, k) : i <= j

ReplayedIdem_Forgotten(f) == NoIdem

(* The first entry of an idempotency key wins. *)
ReplayedIdem(f) ==
  [k \in Idems |-> IF WithIdem(f, k) = {} THEN 0 ELSE f[FirstWithIdem(f, k)].seq]

(* The clock resumes from 0. *)
HighWatermarks_Zero(f) == {0}

(* The largest timestamp replayed, 0 if there is none: always one element. *)
HighWatermarks(f) ==
  LET seqs == {f[i].seq : i \in Intact(f)} \union {0}
  IN  {m \in seqs : \A n \in seqs : n <= m}

OpenForAppend_Truncating(f) == <<>>

(* The log is opened for append as it is, a torn tail included. *)
OpenForAppend(f) == f

Open ==
  /\ pc = "down"
  /\ epoch < MaxEpochs
  /\ pc' = "recv"
  /\ kv' = ReplayedKv(file)
  /\ idem' = ReplayedIdem(file)
  /\ hlc' \in HighWatermarks(file)
  /\ file' = OpenForAppend(file)
  /\ applied' = 0
  /\ feed' = <<>>
  /\ epoch' = epoch + 1
  /\ UNCHANGED <<queue, waiting, batch, staged, cursor, synced, submitted, acks>>

-----------------------------------------------------------------------------
(* Clients (TruthStore::put and delete, Wal::commit) *)

Submit(c) ==
  /\ pc \notin {"down", "stopped"}
  /\ c \notin waiting
  /\ submitted < MaxSubmits
  /\ \E r \in Requests : queue' = Append(queue, [client |-> c, req |-> r])
  /\ waiting' = waiting \union {c}
  /\ submitted' = submitted + 1
  /\ UNCHANGED <<committerVars, file, synced, volatileVars, epoch, acks>>

-----------------------------------------------------------------------------
(* The committer (committer_loop) *)

(* recv, then try_recv until the channel is empty. *)
Drain ==
  /\ pc = "recv"
  /\ queue # <<>>
  /\ pc' = "stage"
  /\ batch' = queue
  /\ queue' = <<>>
  /\ UNCHANGED <<waiting, staged, cursor, file, synced, volatileVars, epoch,
                 submitted, acks>>

(* A duplicate is answered at once with the original's timestamp. *)
StageDup ==
  /\ pc = "stage"
  /\ batch # <<>>
  /\ LET p == Head(batch)
         orig == idem[p.req.idem]
     IN  /\ orig # 0
         /\ waiting' = waiting \ {p.client}
         /\ acks' = acks \union {Ack([req |-> p.req, seq |-> orig], "dedup")}
  /\ batch' = Tail(batch)
  /\ UNCHANGED <<pc, queue, staged, cursor, file, synced, volatileVars, epoch,
                 submitted>>

(* The key is not remembered until the next restart. *)
StageNew_NotRemembered ==
  /\ pc = "stage"
  /\ batch # <<>>
  /\ hlc < MaxTs
  /\ LET p == Head(batch)
     IN  /\ idem[p.req.idem] = 0
         /\ staged' = Append(staged, [client |-> p.client,
                                      rec |-> [req |-> p.req, seq |-> hlc + 1]])
  /\ hlc' = hlc + 1
  /\ batch' = Tail(batch)
  /\ UNCHANGED <<pc, queue, waiting, cursor, file, synced, kv, applied, idem, feed,
                 epoch, submitted, acks>>

(* A new write gets the next timestamp and is remembered at once. *)
StageNew ==
  /\ pc = "stage"
  /\ batch # <<>>
  /\ hlc < MaxTs
  /\ LET p == Head(batch)
         seq == hlc + 1
     IN  /\ idem[p.req.idem] = 0
         /\ idem' = [idem EXCEPT ![p.req.idem] = seq]
         /\ staged' = Append(staged, [client |-> p.client,
                                      rec |-> [req |-> p.req, seq |-> seq]])
         /\ hlc' = seq
  /\ batch' = Tail(batch)
  /\ UNCHANGED <<pc, queue, waiting, cursor, file, synced, kv, applied, feed, epoch,
                 submitted, acks>>

(* Everything was a duplicate: nothing to write, only the watermark is set. *)
AllDuplicates ==
  /\ pc = "stage"
  /\ batch = <<>> /\ staged = <<>>
  /\ pc' = "recv"
  /\ applied' = hlc
  /\ UNCHANGED <<queue, waiting, batch, staged, cursor, file, synced, kv, hlc, idem,
                 feed, epoch, submitted, acks>>

BatchStaged ==
  /\ pc = "stage"
  /\ batch = <<>> /\ staged # <<>>
  /\ pc' = "write"
  /\ UNCHANGED <<queue, waiting, batch, staged, cursor, file, synced, volatileVars,
                 epoch, submitted, acks>>

(* write_all of the whole buffer. *)
Write ==
  /\ pc = "write"
  /\ pc' = "fsync"
  /\ file' = file \o FramesOf(staged)
  /\ UNCHANGED <<queue, waiting, batch, staged, cursor, synced, volatileVars, epoch,
                 submitted, acks>>

(* sync_all is skipped. *)
Fsync_Skipped ==
  /\ pc = "fsync"
  /\ pc' = "apply"
  /\ UNCHANGED <<queue, waiting, batch, staged, cursor, file, synced, volatileVars,
                 epoch, submitted, acks>>

(* The clients are answered as soon as the batch is durable. *)
Fsync_AnswerFirst ==
  /\ pc = "fsync"
  /\ pc' = "ack"
  /\ synced' = Len(file)
  /\ UNCHANGED <<queue, waiting, batch, staged, cursor, file, volatileVars, epoch,
                 submitted, acks>>

(* sync_all. *)
Fsync ==
  /\ pc = "fsync"
  /\ pc' = "apply"
  /\ synced' = Len(file)
  /\ UNCHANGED <<queue, waiting, batch, staged, cursor, file, volatileVars, epoch,
                 submitted, acks>>

(* A failed write or fsync stops the committer for good.  Staged writes are *)
(* answered with the error; the channel closes, so everyone queued is told   *)
(* Closed.  Reads keep working on what was applied.                          *)
StopWithError_QueueKept ==
  /\ pc \in {"write", "fsync"}
  /\ WriteErrors
  /\ file' \in IF pc = "write" THEN Cuts(file \o FramesOf(staged), Len(file)) ELSE {file}
  /\ pc' = "stopped"
  /\ waiting' = waiting \ {staged[i].client : i \in DOMAIN staged}
  /\ staged' = <<>>
  /\ UNCHANGED <<queue, batch, cursor, synced, volatileVars, epoch, submitted, acks>>

StopWithError ==
  /\ pc \in {"write", "fsync"}
  /\ WriteErrors
  /\ file' \in IF pc = "write" THEN Cuts(file \o FramesOf(staged), Len(file)) ELSE {file}
  /\ pc' = "stopped"
  /\ waiting' = {} /\ queue' = <<>> /\ staged' = <<>>
  /\ UNCHANGED <<batch, cursor, synced, volatileVars, epoch, submitted, acks>>

(* One step of a loop over staged: `next` is where the committer goes after *)
(* the last element.                                                       *)
Loop(here, next) ==
  /\ pc = here
  /\ IF cursor = Len(staged)
     THEN pc' = next /\ cursor' = 1
     ELSE pc' = here /\ cursor' = cursor + 1

(* The watermark is set with the first write of the batch. *)
Apply_WatermarkFirst ==
  /\ Loop("apply", "publish")
  /\ kv' = PutGrain(kv, VersionOf(staged[cursor].rec))
  /\ applied' = hlc
  /\ UNCHANGED <<queue, waiting, batch, staged, file, synced, hlc, idem, feed, epoch,
                 submitted, acks>>

(* put_grain for one write; put_meta after the last. *)
Apply ==
  /\ Loop("apply", "publish")
  /\ kv' = PutGrain(kv, VersionOf(staged[cursor].rec))
  /\ applied' = IF cursor = Len(staged) THEN hlc ELSE applied
  /\ UNCHANGED <<queue, waiting, batch, staged, file, synced, hlc, idem, feed, epoch,
                 submitted, acks>>

(* Published newest first. *)
Publish_Reversed ==
  /\ Loop("publish", "ack")
  /\ feed' = Append(feed, staged[Len(staged) - cursor + 1].rec)
  /\ UNCHANGED <<queue, waiting, batch, staged, file, synced, kv, applied, hlc, idem,
                 epoch, submitted, acks>>

(* publish one record to every subscriber. *)
Publish ==
  /\ Loop("publish", "ack")
  /\ feed' = Append(feed, staged[cursor].rec)
  /\ UNCHANGED <<queue, waiting, batch, staged, file, synced, kv, applied, hlc, idem,
                 epoch, submitted, acks>>

(* Answer one client; the batch is over after the last. *)
Answer ==
  /\ Loop("ack", "recv")
  /\ waiting' = waiting \ {staged[cursor].client}
  /\ acks' = acks \union {Ack(staged[cursor].rec, "batch")}
  /\ staged' = IF cursor = Len(staged) THEN <<>> ELSE staged
  /\ UNCHANGED <<queue, batch, file, synced, volatileVars, epoch, submitted>>

Committer ==
  \/ Drain
  \/ StageDup \/ StageNew \/ AllDuplicates \/ BatchStaged
  \/ Write \/ Fsync \/ StopWithError
  \/ Apply \/ Publish \/ Answer

-----------------------------------------------------------------------------
(* The store goes away *)

(* Everything that is not in the file is lost, the clients with it. *)
LoseVolatile ==
  /\ pc' = "down"
  /\ queue' = <<>> /\ waiting' = {} /\ batch' = <<>> /\ staged' = <<>> /\ cursor' = 1
  /\ kv' = {} /\ applied' = 0 /\ hlc' = 0 /\ idem' = NoIdem /\ feed' = <<>>
  /\ UNCHANGED <<epoch, submitted, acks>>

(* What the operating system has been given of the file so far: all of it,  *)
(* or some of the write that is in progress.                               *)
InFlight == IF pc = "write" THEN file \o FramesOf(staged) ELSE file

ProcessCrash ==
  /\ ProcessCrashes
  /\ pc # "down"
  /\ file' \in Cuts(InFlight, Len(file))
  /\ UNCHANGED synced
  /\ LoseVolatile

(* After the reboot whatever is in the file is on the disk. *)
PowerFail ==
  /\ PowerLoss
  /\ file' \in Cuts(InFlight, synced)
  /\ synced' = Len(file')
  /\ LoseVolatile

(* Dropping the store: the committer drains the channel, ends and is joined. *)
Close ==
  /\ pc \in {"recv", "stopped"}
  /\ waiting = {} /\ queue = <<>>
  /\ UNCHANGED <<file, synced>>
  /\ LoseVolatile

Next ==
  \/ Open
  \/ \E c \in Clients : Submit(c)
  \/ Committer
  \/ ProcessCrash \/ PowerFail \/ Close

Spec == Init /\ [][Next]_vars

(* The committer is a thread that runs whenever it has work.  Nothing makes  *)
(* clients write or stores open.                                            *)
FairSpec == Spec /\ WF_vars(Committer)

-----------------------------------------------------------------------------
(* Safety *)

Up == pc \notin {"down", "stopped"}

(* What recovery would read back now: timestamps increase along the log and *)
(* no idempotency key occurs twice, whatever crashed, failed or was retried *)
(* (concurrent retries never double-write: the dedup map and the log agree). *)
LogWellFormed ==
  \A i, j \in Intact(file) :
    i < j => /\ file[i].seq < file[j].seq
             /\ file[i].req.idem # file[j].req.idem

(* A write answered at the end of its batch is in the synced part of the    *)
(* file at that moment and after every later crash and power loss: the ack   *)
(* follows the fsync, and nothing shortens what was synced.                 *)
AckedIsOnDisk ==
  \A a \in acks :
    a.via = "batch" => \E i \in 1 .. synced : file[i] = a.rec

(* ... and recovery reaches it: an abrupt stop loses nothing committed      *)
(* (server/README.md:108-109).  Holds only where no crash cuts a frame: the  *)
(* log is reopened for append behind a torn tail (Wal::open), and recovery   *)
(* stops at the torn tail.                                                  *)
AckedIsRecoverable ==
  \A a \in acks :
    a.via = "batch" => \E i \in Intact(file) : i <= synced /\ file[i] = a.rec

(* Within one opening of the store, two positive answers agree: the same    *)
(* timestamp for the same key, different timestamps for different keys.      *)
AnswersAgree ==
  \A a, b \in acks :
    a.epoch = b.epoch =>
      (a.rec.req.idem = b.rec.req.idem <=> a.rec.seq = b.rec.seq)

(* Across restarts and power losses, a key is committed under one timestamp  *)
(* only: a retry after a crash is recognised from the log.                   *)
ExactlyOnce ==
  \A a, b \in {x \in acks : x.via = "batch"} :
    a.rec.req.idem = b.rec.req.idem <=> a.rec.seq = b.rec.seq

(* Whenever the committer waits for work, the live store is what a recovery *)
(* of the file would rebuild, so a clean restart changes nothing a client    *)
(* can see: versions, dedup map and clock.                                   *)
IdleEqualsReplay ==
  pc = "recv" /\ Torn \notin {file[i] : i \in DOMAIN file} =>
    /\ kv = ReplayedKv(file)
    /\ idem = ReplayedIdem(file)
    /\ hlc \in HighWatermarks(file)

(* A client that was answered at the end of its batch reads its own write,  *)
(* or a newer version, with a read at the current clock.                     *)
ReadYourWrites ==
  pc # "down" =>
    \A a \in acks :
      a.via = "batch" /\ a.epoch = epoch =>
        \E v \in Newest(Visible(kv, a.rec.req.sid, a.rec.req.pred, hlc)) :
          v.seq >= a.rec.seq

(* Subscribers never hear of a write that a power loss could take back: the   *)
(* fsync of its batch precedes its publication, and no later failure of the   *)
(* log shortens what was synced (committer_loop).                            *)
PublishedIsDurable ==
  \A i \in DOMAIN feed : \E j \in 1 .. synced : file[j] = feed[i]

(* Subscribers get the writes of this opening in log order without a gap,    *)
(* each only once it is readable (cdc.rs).                                   *)
FeedIsGapFree ==
  /\ \A i \in 1 .. Len(feed) - 1 : feed[i + 1].seq = feed[i].seq + 1
  /\ \A i \in DOMAIN feed : VersionOf(feed[i]) \in kv
  /\ pc = "recv" /\ feed # <<>> => feed[Len(feed)].seq = hlc

(* On every store the write path builds, tombstones, later versions and       *)
(* recovered files included, the single seek of get_at finds what a snapshot   *)
(* read promises: the newest version at or before the snapshot, nothing if     *)
(* that is a tombstone, never a version of a neighbouring grain.             *)
SeekReadsNewestVisible ==
  \A s \in Sids, p \in Preds, t \in 0 .. MaxTs :
    GetAt(kv, s, p, t) = NewestVisible(kv, s, p, t)

(* The rebuild scan returns for each grain what a read at the end of time      *)
(* returns, so a deleted grain stays dead (scan_live remembers the prefix of   *)
(* a tombstone too).                                                         *)
ScanAgreesWithReads ==
  ScanLive(kv) = UNION {GetAt(kv, s, p, MaxTs) : s \in Sids, p \in Preds}

(* A read at or below the applied watermark is repeatable: while the store   *)
(* is open no step changes what any such snapshot returns.                   *)
SnapshotsBelowAppliedAreStable ==
  [][pc # "down" /\ pc' # "down" =>
       \A s \in Sids, p \in Preds, t \in 0 .. applied :
         GetAt(kv', s, p, t) = GetAt(kv, s, p, t)]_vars

(* The durable prefix of the log and the answered writes behave as DurableLog *)
(* says.                                                                     *)
DurablePrefix == [i \in {n \in Intact(file) : n <= synced} |-> file[i]]

Answered == {a.rec : a \in {x \in acks : x.via = "batch"}}

Durable == INSTANCE DurableLog WITH log <- DurablePrefix, acked <- Answered

ImplementsDurableLog == Durable!Spec

-----------------------------------------------------------------------------
(* Liveness *)

(* Every client blocked in commit is eventually answered, with a timestamp,  *)
(* an error or Closed: no write is left in the channel or in a batch.         *)
EveryCommitReturns == \A c \in Clients : c \in waiting ~> c \notin waiting

-----------------------------------------------------------------------------
(* A statement of the repository that the code does not keep *)

(* wal.rs:349, "Durability ordering: WAL fsync -> KV apply -> ack": whoever   *)
(* has an answer finds the write applied.  A duplicate is answered before     *)
(* the original in its own batch was even written.                            *)
AckAfterApply ==
  pc # "down" =>
    \A a \in acks : a.epoch = epoch => \E v \in kv : v.seq = a.rec.seq

=============================================================================
