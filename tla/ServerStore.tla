-------------------------------- MODULE ServerStore --------------------------------
(***************************************************************************)
(* The deployable store (server/src/lib.rs) over the engine: handler threads  *)
(* load batches of grains, each under its subject as idempotency key, wait for *)
(* the index, and answer.  An engine that is not served is owned by another    *)
(* program, as in Materializer; who owns it does not change.                  *)
(*                                                                         *)
(* The values of a subject differ in their kind: a text the embedder accepts   *)
(* ("put"), and an empty one it rejects ("opaque").                           *)
(*                                                                         *)
(* Here the committer's batch has its stages: its writes are staged and their   *)
(* keys remembered, it is written to the log, applied, published, answered.    *)
(* A duplicate is answered when it is met, though its original be only staged. *)
(***************************************************************************)
EXTENDS Materializer

CONSTANTS
  Loaders,   \* handler threads of the daemon
  Batches    \* what is loaded: sequences of [sid, kind]

ASSUME ServerStoreAssumption ==
  /\ Batches \subseteq Seq([sid : Sids, kind : {"put", "opaque"}])
  /\ 0 \in Preds
  /\ \A m \in Modes : m.served => ~ m.late   \* it seeds the index before it serves

VARIABLES
  loader,   \* thread -> the load it is running
  lastSeq,  \* Store.last_seq
  committer,\* "staging", "applying" what was written, or "stopped" by a failed write
  batch,    \* the writes that are staged, or written, and not applied
  loaded    \* history: the subjects a load of this opening waited for successfully

storeVars == <<loader, lastSeq, committer, batch, loaded>>
allVars == <<vars, storeVars>>

(* All that has a seq, applied or not.                                        *)
Log == truth \o batch

(* at, the grains left, the subjects of the batch, the seq the put under way     *)
(* got, and the highest seq so far (max_seq).                                *)
Resting == [at |-> "idle", todo |-> <<>>, sids |-> {}, seq |-> 0, max |-> 0]

StoreTypeOK ==
  /\ loader \in [Loaders ->
       [at : {"idle", "putting", "waiting", "syncing"},
        todo : Seq([sid : Sids, kind : {"put", "opaque"}]),
        sids : SUBSET Sids, seq : 0 .. Len(Log), max : 0 .. Len(Log)]]
  /\ lastSeq \in 0 .. Len(Log)
  /\ committer \in {"staging", "applying", "stopped"}
  /\ batch \in Seq(Write) /\ Len(Log) <= MaxCommits
  /\ loaded \subseteq Sids

NewStore ==
  /\ loader = [l \in Loaders |-> Resting]
  /\ lastSeq = 0 /\ committer = "staging" /\ batch = <<>> /\ loaded = {}

StoreInit == Init /\ NewStore

-----------------------------------------------------------------------------
(* load *)

StartLoad(l) ==
  /\ mode.served /\ open
  /\ loader[l].at = "idle"
  /\ \E grains \in Batches :
       loader' = [loader EXCEPT ![l] =
         [Resting EXCEPT !.at = "putting", !.todo = grains, !.max = lastSeq,
                         !.sids = {grains[i].sid : i \in DOMAIN grains}]]
  /\ UNCHANGED <<vars, lastSeq, committer, batch, loaded>>

(* The write whose idempotency key is the subject s, if there is one.         *)
Original(s) == {i \in DOMAIN Log : Log[i].sid = s}

(* The committer meets the put of l in a batch.  It has answered the batch       *)
(* before; and a handler that was answered early from this batch, or learnt of    *)
(* that seq through last_seq, sends its put when the batch is closed.           *)
Meets(l) ==
  /\ loader[l].at = "putting" /\ loader[l].todo # <<>>
  /\ committer = "staging" /\ published = Len(truth)
  /\ loader[l].max <= Len(truth)

(* max_seq is not raised.                                                    *)
Answered_NotWaitedFor(l, seq) ==
  loader' = [loader EXCEPT ![l].at = "putting", ![l].todo = Tail(@), ![l].seq = 0]

(* put_raw returned this seq; the next grain follows.                         *)
Answered(l, seq) ==
  loader' = [loader EXCEPT ![l].at = "putting", ![l].todo = Tail(@), ![l].seq = 0,
                           ![l].max = Max({@, seq})]

(* The committer knows the key: the value is dropped and the seq of the first   *)
(* one is answered at once, be that in this batch and not yet written.          *)
PutKnown(l) ==
  /\ Meets(l)
  /\ \E i \in Original(Head(loader[l].todo).sid) : Answered(l, i)
  /\ UNCHANGED <<vars, lastSeq, committer, batch, loaded>>

PutNew(l) ==
  /\ Meets(l)
  /\ Len(Log) < MaxCommits
  /\ LET r == Head(loader[l].todo)
     IN  /\ Original(r.sid) = {}
         /\ batch' = Append(batch, [sid |-> r.sid, pred |-> 0, kind |-> r.kind])
  /\ loader' = [loader EXCEPT ![l].at = "waiting", ![l].seq = Len(Log) + 1]
  /\ UNCHANGED <<vars, lastSeq, committer, loaded>>

(* The batch is written to the log and synced, ...                            *)
WriteBatch ==
  /\ committer = "staging" /\ batch # <<>>
  /\ committer' = "applying"
  /\ UNCHANGED <<vars, loader, lastSeq, batch, loaded>>

(* ... or that fails, nothing of it is applied, and the committer ends.         *)
WriteFails ==
  /\ committer = "staging" /\ batch # <<>>
  /\ committer' = "stopped"
  /\ UNCHANGED <<vars, loader, lastSeq, batch, loaded>>

Apply ==
  /\ committer = "applying"
  /\ Commit(Head(batch))
  /\ batch' = Tail(batch)
  /\ committer' = IF batch' = <<>> THEN "staging" ELSE "applying"
  /\ UNCHANGED <<loader, lastSeq, loaded>>

(* The committer answers a batch after it has published it.                   *)
PutAnswered(l) ==
  /\ loader[l].at = "waiting"
  /\ loader[l].seq <= published /\ ~ publishing
  /\ Answered(l, loader[l].seq)
  /\ UNCHANGED <<vars, lastSeq, committer, batch, loaded>>

(* The write failed, or the committer has ended.  load returns the error; what   *)
(* it put before stays.                                                     *)
PutFails(l) ==
  /\ committer = "stopped"
  /\ \/ loader[l].at = "putting" /\ loader[l].todo # <<>>
     \/ loader[l].at = "waiting" /\ loader[l].seq > Len(truth)
  /\ loader' = [loader EXCEPT ![l] = Resting]
  /\ UNCHANGED <<vars, lastSeq, committer, batch, loaded>>

EndPuts(l) ==
  /\ loader[l].at = "putting" /\ loader[l].todo = <<>>
  /\ lastSeq' = Max({lastSeq, loader[l].max})
  /\ loader' = [loader EXCEPT ![l].at = "syncing"]
  /\ UNCHANGED <<vars, committer, batch, loaded>>

(* sync returned true. *)
SyncMet(l) ==
  /\ loader[l].at = "syncing"
  /\ watermark >= loader[l].max
  /\ loaded' = loaded \union loader[l].sids
  /\ loader' = [loader EXCEPT ![l] = Resting]
  /\ UNCHANGED <<vars, lastSeq, committer, batch>>

(* sync returned false, which load ignores.                                   *)
SyncTimesOut(l) ==
  /\ loader[l].at = "syncing"
  /\ watermark < loader[l].max
  /\ loader' = [loader EXCEPT ![l] = Resting]
  /\ UNCHANGED <<vars, lastSeq, committer, batch, loaded>>

(* What is in the log and not applied: all that was written, any part of what     *)
(* was being written or failed to be.  (A frame cut in two is the subject of      *)
(* GroupCommit.)                                                            *)
Unapplied ==
  IF committer = "applying" THEN {batch} ELSE {SubSeq(batch, 1, n) : n \in 0 .. Len(batch)}

(* The daemon ends or dies and is started again.                              *)
Restart ==
  /\ \E unapplied \in Unapplied : ReopenWith(unapplied)
  /\ loader' = [l \in Loaders |-> Resting]
  /\ lastSeq' = 0 /\ committer' = "staging" /\ batch' = <<>> /\ loaded' = {}

Put(l) == PutKnown(l) \/ PutNew(l) \/ PutAnswered(l) \/ PutFails(l) \/ EndPuts(l)

(* A batch is published when all of it is applied.                             *)
AllApplied == committer # "applying" /\ BatchApplied

StoreNext ==
  \/ (OwnerWrites \/ AllApplied \/ Running) /\ UNCHANGED storeVars
  \/ WriteBatch \/ WriteFails \/ Apply
  \/ \E l \in Loaders : StartLoad(l) \/ Put(l) \/ SyncMet(l) \/ SyncTimesOut(l)
  \/ Restart

StoreSpec == StoreInit /\ [][StoreNext]_allVars

(* The threads of Materializer and the committer run when they have work, a      *)
(* handler goes on with its load and returns when sync does.  Nothing makes        *)
(* clients load, sync time out, or the daemon restart, and a batch is written or   *)
(* fails as it may.                                                          *)
FairStoreSpec ==
  /\ StoreSpec
  /\ WF_allVars(WriteBatch \/ WriteFails \/ Apply)
  /\ WF_allVars((AllApplied \/ Publish) /\ UNCHANGED storeVars)
  /\ WF_allVars(Dispatch /\ UNCHANGED storeVars)
  /\ \A w \in Workers : WF_allVars(Work(w) /\ UNCHANGED storeVars)
  /\ WF_allVars((StartRebuild \/ Seed \/ EndRebuild) /\ UNCHANGED storeVars)
  /\ \A l \in Loaders : WF_allVars(Put(l)) /\ WF_allVars(SyncMet(l))

-----------------------------------------------------------------------------

(* A load whose wait succeeded has its grains in the index, the recovered ones it *)
(* repeated as well as its own, those it was answered before they were written,   *)
(* and with a pool that finishes in any order too (load, "blocks until            *)
(* queryable"): nothing between the seqs it collected, the write that may fail,   *)
(* the watermark and the rebuild lets it through early.                         *)
LoadedIsQueryable == \A s \in loaded : index[s] = Expected(s, Len(truth))

(* A load that puts, or waits for a commit of this opening with a single thread or  *)
(* a pool that found an empty store.                                          *)
IsServed(l) ==
  \/ loader[l].at \in {"putting", "waiting"}
  \/ /\ loader[l].at = "syncing" /\ loader[l].max > base
     /\ Pooled => base = 0
     /\ committer = "stopped" => loader[l].max <= Len(truth)

(* A load comes to its wait, and the wait ends without the timeout if it is for a  *)
(* commit of this opening and a pool has found an empty store: handlers, committer *)
(* and materializer never wait for each other.  (The timeout has to end the wait   *)
(* of a load of recovered grains only, of one on a pool that found something, and  *)
(* of one that was answered early from a batch whose write failed.)              *)
LoadReturns ==
  \A l \in Loaders : IsServed(l) ~> ~ IsServed(l)

=============================================================================
