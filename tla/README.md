# Grainstore in TLA+

Grainstore keeps *grains*, small values addressed by subject and predicate, in
a durable multi-version truth store, and derives a vector index from it for
nearest-neighbour queries. This directory holds TLA+ models of the parts of the
program that run concurrently, survive crashes or enforce policy, the TLC
configurations that check them on small instances, and TLAPS proofs for every
value of the constants. Paths such as `wal.rs` are relative to the crate's own
`src/` directory (`src/src/` here), `server/` to `src/server/`.

    tlc -config MCGroupCommit.cfg MCGroupCommit      # check a run
    tlapm GroupCommitProof.tla                       # check the proofs of a module

## Inventory of the system

| component | state | operations | talks to |
|---|---|---|---|
| write-ahead log, `wal.rs` | log file, channel, dedup map, committer thread | commit (blocking), drain, stage, write, fsync, apply, publish, answer, stop on error, drop | clock, key-value store, change stream, clients |
| recovery, `recovery.rs` | none of its own | replay the intact prefix of the log into versions, dedup map, clock | log file |
| truth store, `truth.rs`, `keys.rs`, `kv.rs`, `model.rs` | ordered map, applied watermark | open, put, delete, get, get_at, scan_live, now | log, recovery, clock |
| clock, `hlc.rs` | one atomic counter | next, now, resume_from | committer, readers |
| change stream, `cdc.rs` | subscribers' channels | subscribe, publish | committer to materializer |
| materializer, `materializer.rs` | channel(s), watermark, completion (`next`, `pending`) | spawn (one thread), spawn_pooled (dispatcher and workers), apply, complete, wait_for, drop | change stream, index |
| engine, `engine.rs` | owns the others | open, put, delete, query, query_planned, query_staged, drill, sync, rebuild | all |
| vector indexes, `vector/*.rs` | graph or list of vectors | insert, remove, search | materializer, rebuild, queries |
| query executor, `query.rs` | none | near_join_select: search, join with the truth, filter, rank | index, truth |
| planner and catalog, `planner.rs`, `catalog.rs` | category counts | observe, selectivity, plan | engine |
| staged disclosure, `disclosure.rs` | continuation cache, handle counter | store, get_full, build_summary, token costs | engine, governance |
| governance, `governance.rs` | budgets, audit log, audit counter | put_vector, get, query_planned, try_spend, record, authorize | engine |
| blocks, `block.rs` | descriptors of immutable blocks | build, search, exact scan | stand-alone |
| embedders, `embed.rs` | none | value to vector, or none | materializer, rebuild |
| server store, `server/src/lib.rs` | last seq loaded | open (with rebuild), load, query | engine |
| daemon, MCP server, client, `server/src/bin/` | none | requests, JSON, printing | server store |

### How they interact

A client's `put` or `delete` sends its request over a channel to the one
committer thread and blocks. The committer takes everything queued as a batch,
answers requests whose idempotency key it knows, stamps the others with the
clock, writes and fsyncs their frames, applies them to the ordered map, publishes
them to subscribers and answers their clients. The materializer subscribes, keeps
the index up to date and advances a watermark; `sync(seq)` polls the watermark.
The index is volatile: after a restart `rebuild_index_from_truth` inserts
whatever `scan_live` finds. A query asks the index for candidates, reads each one
from the truth, filters, and ranks. `GovernedEngine` wraps all of this for agents:
policy, masking, token budget, audit log.

### What is hard here, and what would make each part correct

- **Log and recovery.** Crashes and power losses between any two steps, in the
  middle of a write, and behind an earlier torn write; a failed write that left
  part of a batch behind; retries of a request that is queued, in the same batch,
  already answered, or was durable before a crash. Correct means: an answered
  write is on disk and recovery finds it; a key is committed once; timestamps
  increase; what is recovered is what was running; nobody waits for ever.
- **Truth store.** A read is one seek on complemented big-endian keys. Correct
  means it returns the newest version at or before the snapshot, tombstones hide
  what they cover, and reads at or below the applied watermark are repeatable.
- **Clock.** A weak compare-and-swap loop with relaxed loads. Correct means
  unique, gap-free timestamps that respect causality.
- **Materializer.** Records are applied out of order by a pool, and a rebuild may
  run beside it. Correct means the watermark is honest and monotone, `sync`
  returns, and the index ends up equal to the truth.
- **Governance.** Grains change category while a query is under way; threads
  of one agent race on budget and log. Correct means nothing is handed out that
  the policy forbids for that very content, no charge is lost, the log is complete
  and numbered without gaps, and only authorised and logged writes reach the truth.
- **Continuation cache.** Handles are taken outside the lock, at capacity.
  Correct means a handle never yields another query's result.
- **Query path, planner, catalog.** An index that lags proposes candidates, each
  of which is joined with the truth at a moment of its own, under a plan made from
  counts that change. Correct means nothing returned was stale before the query
  began, and nothing is lost that nobody touched.
- **Server.** The idempotency key of a grain is its subject; handlers load batches that
  overlap, fail halfway, are answered early from a batch that then fails, and are repeated after a
  restart. Correct means a load whose wait succeeded is queryable, and loads return. (That a repeated
  put is recognised is the log's business.)
- **Graph.** Nodes are linked, pruned, replaced and soft-deleted, while a search goes
  from one shard's lock to the next. Correct means links stay well formed, the live nodes are
  the vectors last written, a beam that is wide enough answers exactly, and a vector nobody
  touched is not lost to a racing writer.
- **Blocks.** Correct means skipping a block by its descriptor never loses a result.

## Modules

| module | models | extends |
|---|---|---|
| `Mvcc` | keys, ordered map, `get_at`, `scan_live` as operators; the definition of a snapshot read | |
| `GroupCommit` | clients, committer thread, log file, recovery, crashes | `Mvcc` |
| `DurableLog` | what the write path promises: an abstract log with no crashes | |
| `Hlc` | the clock under concurrent calls | |
| `Materializer` | committer's publishing half, channel, dispatcher, workers, watermark, rebuild, reopening | |
| `StaleIndex` | what an index fed by one thread promises: the truth as of some commit, catching up | |
| `ServerStore` | handler threads that load batches, wait and answer; failures and restarts of the daemon | `Materializer` |
| `Governance` | `GovernedEngine` under concurrent callers | |
| `Continuations` | the continuation cache | |
| `StagedQuery` | `query_planned`, `query_staged`, `drill` beside writers and a lagging index; planner, catalog | instantiates `Continuations` |
| `Lists` | a stable sort and `truncate`, which the index and the blocks both use | |
| `Hnsw` | one graph: layered beam search, insert, prune, replace, soft delete, as operators | `Lists` |
| `ShardedHnsw` | writers and a search over several graphs | `Hnsw` |
| `Blocks` | clustering, descriptors and the pruned queries | `Lists` |
| `Induction` | lemmas: least numbers, induction over numbers and subsets, folds, sums, ranks, sorted lists | `Lists` |
| `GroupCommitProof`, `AnswersProof` | theorems about the store's reads, the log, and what clients are told | `GroupCommit`; the second also the first |
| `ServerStoreProof` | theorems about the materializer, in an engine and under the server | `ServerStore` |
| `GovernanceProof`, `StagedQueryProof` | theorems | the module they are about |
| `StructuresProof` | theorems about the clock and the blocks | `Hlc`, `Blocks` |
| `ShardedHnswProof` | theorems about the vector index | `ShardedHnsw` |
| `MCx` | the small instances of `x` | `x` |
| `MCStructures` | the clock, the sharded graph and the blocks, which share no state, in one run | `Hlc`, `ShardedHnsw`, `Blocks` |

Definitions named `X_Something`, in front of a definition `X`, are plausible
mistakes in the code behind `X`; each property is known to fail when one of them
takes X's place.

### Mvcc and GroupCommit

A version is a record and the store a set of versions, one per key. A key is the
triple (subject, predicate, complement of the timestamp); comparing triples
lexicographically is comparing the fixed-width big-endian bytes of `grain_key`.
`GetAt` is `get_at`: one seek, then the prefix and tombstone checks. `ScanAll` is the
iterator of the ordered map, the n-th version being the one of rank n; `ScanLive` is
the loop of `scan_live` as a fold over it, with the last prefix as its accumulator. `Visible`, `Newest` and `Live` say
what a snapshot read means without mentioning keys. Confidence and valid time
travel with the value and no code decides anything by them.

`GroupCommit` follows `committer_loop` statement by statement where another
thread or a crash can tell the difference: `Drain` (recv and try_recv),
`StageDup` and `StageNew` (one request each), `BatchStaged`/`AllDuplicates`
(is the buffer empty?), `Write`, `Fsync`, `StopWithError`, then the three loops
`Apply`, `Publish` and `Answer`, one element per step. The file is a sequence of frames; `Torn`
is a frame whose length or checksum does not fit. `synced` is how much of it an
fsync covers. `Open` is `TruthStore::open`: it replays the intact prefix, and opens
the file for append as it is. `ProcessCrash` keeps what the operating system was
given, with some prefix of a write in progress; `PowerFail` may also lose any suffix
that was not synced; both may cut a frame when `TornTails` allows it. After a
reboot what is in the file is on the disk. `acks` and `submitted` are history
variables. The file is not modified by anyone else and a synced byte stays.

`DurableLog` has two steps, `Grow` and `Acknowledge`. `GroupCommit` implements it
with the synced intact prefix of the file as the log.

### Hlc

All threads agree on the order of values of one atomic variable, so a load
returns any value at or after the last one the thread knows (`Loadable`), a successful
compare-and-swap reads the newest, and a weak one may fail for no reason. `Tell`
is any other happens-before edge. In today's program only the committer calls `next`;
the type is public and its documentation promises uniqueness under
concurrent calls, so that is what the model covers.

### Materializer

A commit is its position in `truth`, which is its timestamp (GroupCommit and Hlc show
that these are gap-free as long as the log holds whole frames). The index maps a
subject to the commit whose vector it holds. A write is a put with a vector, a
value the embedder rejects, or a deletion. Every opening has a *mode*, one of `Modes`: its
number of `workers` (one is `spawn`, more is `spawn_pooled`); whether the rebuild may run `late`,
beside writing clients, which the engine's API permits and the server never does; the
`kinds` of write its program makes; and whether it is `served` by the server. A server may be
started again with another number of workers, a program opens its engine as it did before.
`Take`, `ApplyToIndex` and `Complete` are the three steps of a worker that others can
interleave with. `ReopenWith` stands for closing and opening, or a crash, whatever the threads were
doing: applied commits are durable, writes that reached the log and were not applied come
back with them, everything else starts empty. For a program that owns its engine there is no need of
the latter (`Reopen`): a write made and not applied is one applied and not published.

`StaleIndex` is the index of a single thread without its threads: `Grow` (commits), `Load` (the
rebuild is over: the whole truth, watermark 0), `Advance` (one more commit is reflected), `Tell` (the
watermark says how far) and `Lose` (a restart, which may bring commits back from the log). `Materializer` implements it where one thread
feeds the index and the rebuild is not late, with the last record applied as `cut`; for other modes no
index is shown. A pool does not implement it: `pool_order` shows it mixing states of several commits.

### ServerStore

The server on top of `Materializer`, sharing its state: where the mode is served, the commits are
those of handler threads, and the committer's batch has its stages. Writes are staged in `batch`, the
whole batch is written (`WriteBatch`) or that fails (`WriteFails`, after which the committer has
ended), its writes are applied one after the other (`Apply`), published, and answered. `Log` is
all that has a seq, applied or not.

`StartLoad` takes a batch of grains; the loop of `load` is, for each, `PutKnown` (the committer knows the
subject and answers the seq of its first value at once, even when that is in the same batch and not
written yet), `PutNew` (staged) followed by `PutAnswered` once the batch is published, or `PutFails` (the
write failed, or nobody is there to take the request). `EndPuts` notes the highest seq; `SyncMet` and
`SyncTimesOut` are the two results of `sync`, and `load` answers the same after both. A handler that was answered
early can go on to wait for a seq that is never committed. The committer drains its channel before it stages, so
a handler that has such a seq, its own or by way of `last_seq`, finds its next put in a later batch (`Meets`). `Restart` recovers what was applied, what was written, and any part of
what was being written or failed to be (`Unapplied`), and forgets everything the server keeps in memory. Frames
cut in two are left to `GroupCommit`.

### Hnsw and ShardedHnsw

A graph is a record of nodes with their links by level, tombstones, the map from subject to
node, the entry and the live count. `GraphInsert`, `GraphRemove` and `GraphSearch` are `insert`,
`remove` and `search` as functions of it, because the mutex makes each of them one step of its
callers. Beam search, the descent, linking in both directions and pruning follow the code with its
ties (by distance, then by node). A vector is a point of the integer line, so squared distances
are exact, and the level of a new node is any the generator can draw. A loop over levels, links or
candidates is a fold; a search expands a node once, so it is over after as many rounds as the graph
has nodes. `ShardedHnsw` adds
writers to the shards and a search that asks one shard after another, in any order, and merges; a
write may fall between two of them. `everHeld` and `alwaysHeld` are history variables.

### Blocks

`BuildClustered` is `build_clustered`: evenly picked seeds, Lloyd passes, one block for each
cluster that is not empty, with centroid, radius, Bloom filter and category counts. `Get`,
`CountCategory` and `Near` are the three queries with their pruning; `Visit` is what a search
does with one block. `InOrder` is a set of numbers in ascending order, by rank. Points are multiples of every
count up to `MaxRecs`, so means and distances are integers. A Bloom filter is the union of
the bits of its subjects, and the instance makes subjects collide. At least one grain is fed,
and at least one block and one result asked for: with none, the code indexes into an empty vector.

### StagedQuery and Continuations

A value is its category, a tag, which stands for a header byte at another offset, and its distance
from the one query vector. A filter asks for a category, a tag, or nothing. The truth is
a sequence of commits (a commit becomes visible at once; GroupCommit has the steps)
and the index is the truth as of the first `applied` of them, which is what
`StaleIndex` promises and a single materializer thread keeps. `Observe` and `Commit` are the two halves of
`put_vector`; `CommitNothing` is its second half when the log fails or the key is a
duplicate. A query is `Plan` (selectivity, over-fetch), `Search` (exact, ties in any order), one `Join`
per candidate, `Finish` (sort, truncate), and then `TakeId` and `Store` of the
continuation cache, which is an instance of `Continuations`: there taking a handle
and inserting under the lock are two steps. Selectivity is a fraction of two counts for a category, one half for another byte,
so the over-fetch is computed exactly; `Margin` is what `margin_for` returns for the
recall target. `put_raw` does not reach the catalog, and the catalog is empty
after a restart however many grains were recovered, which `Recovered` makes the initial state.

### Governance

A value is its category (its first byte), its length, and whether it has a header. `put_vector` judges
a write by the first byte of the header and stores header and vector, so without a header the write is judged as
of no category while reads find one in it (`HeaderCategory`). Subject 0 is a subject like any other, and
also what a query is logged under; the field `op` of an audit entry is history and tells which it was.
Callers are threads acting for an agent. The
steps of a call are cut where another thread can come between: the join of each candidate, the
charge under the budget lock, taking the audit number, pushing the entry, the commit.
The search proposes any subjects in any order and the filter drops any of them.

## Runs

| run | shows | bounds, and why they are enough |
|---|---|---|
| `group_commit` | the log stays well formed, answers are on disk and agree, an idle store equals its own recovery, clients read their writes, subscribers see durable writes without a gap, seeks and scans mean what they should, snapshots are repeatable | 3 clients, 4 requests over 2 grains with different subject *and* predicate, so a query for a third grain lands on a neighbour; a put, its deletion, and any of them repeated; 3 openings; all failures on. A batch can hold 3 writes or a write and its own retry; a crash can follow a recovery from a crash. |
| `group_commit_whole` | without torn frames: answered writes are recoverable, keys are committed once, `DurableLog` is implemented, every commit returns | 2 clients, 4 requests on one grain including two different values under one key, 3 openings, so a retry can reach every stage of the first attempt |
| `server_store` | with one thread the index is always the truth as of one commit and never goes back (`StaleIndex`); the watermark is honest and monotone; subjects written once are indexed; `sync` returns; while an index is seeded it has of a subject what was recovered or nothing; the server's waits are honest, even after an early answer from a batch whose write fails, and its loads return | 1 or 2 workers, chosen anew at each start of the server; programs with a rebuild before and beside their writes; 2 subjects, 3 commits of all kinds, 2 openings: two versions of one subject and one of the other, before, across and after a restart, and one worker finishing two records before the other finishes one. 2 handlers and 2 loads that share a subject and disagree about its value, so one handler can be answered from the staged batch of the other |
| `structures` | unique, gap-free, causal timestamps; well-formed graphs, exact answers of wide beams, no stable neighbour lost to racing writers; block pruning loses nothing | clock: 3 threads, 4 timestamps from a high watermark of 1. Graphs: 3 subjects in 2 shards, 2 levels, 3 positions, 4 writes of which 3 may race with a search, degree 2 so that links are pruned, a beam of 1 and one that takes in all. Blocks: 1 to 4 grains on 4 points, 1 to 5 clusters, 1 and 2 passes; 5 subjects with colliding Bloom bits |
| `governance` | nothing leaks, the audit log accounts for every token spent and every number given out, only authorised and logged writes | 2 callers of one agent, 3 calls, 2 grains of which one is subject 0, a category each for allow, mask and deny, the masked one with and without a header, a rule that forbids writing it beside one that allows any, a budget that pays for two small answers and not for a third |
| `staged_query` | a result passes its filter and was the newest at some moment of the query, and an answer has at most `k` of them, nearest first; untouched matches are found unless the plan asked for too few; a summary is small; a handle yields its own result and the cache holds the newest | 2 threads and 2 queries (for a category or another byte and 1 result, or for any grain and 3), 3 recovered grains of 2 categories and 2 tags, 2 more commits of which at most one is a put (to the other category or onto an equal distance), 1 writer, a cache of one entry: it overflows while a thread holds an older handle, a query can straddle both commits, and the index can lag by both |

Symmetry is used on clients, threads and callers in runs without liveness
properties, where no definition or configuration tells them apart (both callers act
for the same agent). Deadlock is not checked: when the bounded requests are used up
and no one opens the store again, the system rests.

Six runs end in a counterexample to a statement of the documentation or of a comment:

| run | statement | what the code does |
|---|---|---|
| `torn_tail` | server/README.md:108-109, an abrupt stop "loses nothing committed" | `Wal::open` appends behind a torn frame without truncating it; the next recovery stops there and the writes answered since are gone |
| `early_ack` | wal.rs:349, "WAL fsync → KV apply → ack" | a duplicate that arrives in the batch of its original is answered while the original is only staged; if the write then fails, the answer was wrong |
| `pool_order` | materializer.rs:94-96, reads bounded by the watermark "remain correct under out-of-order completion" | records go round-robin to the workers, so two writes of one subject may be applied in the wrong order and the older one stays |
| `pool_reopen` | server/src/lib.rs:136, load "blocks until queryable" | `Completion` starts at 1, while the timestamps of a reopened store continue from the high watermark: the watermark stays 0 and `sync` times out. materializer.rs:96-97 states the assumption, the server breaks it |
| `equal_vectors` | vector/mod.rs:30, "Insert or replace the vector for `sid`" | a node of full degree keeps the oldest of equally near neighbours, so when as many have the very vector of a new node, all of them prune it and no search reaches it: with the default `m0` of 32, from the 34th equal vector of a shard on |
| `governance_get_is_free` | README.md:39-40, the budget is "a hard ceiling debited by tokens returned" | `get` returns grains and logs their tokens but debits nothing |

Smaller differences that were met on the way and have no run: subscribers hear of a write
before its client is answered (SETUP.md:74-75 has the opposite order); `now()` is ahead
of what is applied, so a read there can change (truth.rs:163); after a process crash
recovery serves frames that no fsync covered, and a power loss can then take them back; a
rebuild beside running writers can put an older vector over a newer one; the index is
keyed by subject alone, so deleting a grain under one predicate removes the
vector of a live grain under another; a `get` of an absent grain is not logged
(governance.rs:6-7); a masked value of a few bytes costs more tokens than the value
(governance.rs:8-9); the server uses the subject as idempotency key, so a second value
for a subject is accepted and dropped; a query ranks a grain by the distance of the vector the index
knew, which may not be the one of the grain it returns; the catalog is not repopulated by an opening
or by `put_raw`, so its counts are not "always current with committed writes" (catalog.rs:5-6);
after a restart the watermark starts at 0, so a load of grains that were all recovered waits out
the 300 s timeout although they are queryable, and answers as if it had not; tombstones take up
places of a beam, so a search with a narrow one may return fewer than `k` although more are live
(the last part of `AnswersAreNearest` says how few); a value without a header (the default length
is 0, engine.rs:53, and only debug builds assert it) is written on a decision about no category, though a rule may forbid
writing the category that reads then find in its first byte (governance.rs:249 against 178-183, engine.rs:168);
a query is logged under subject 0, as an allowed `get` of subject 0 is, so the log alone does not tell which of them was
charged (governance.rs:286-293, 332, 338); a load that is answered early from a batch whose write fails waits out the 300 s
timeout for a seq nobody commits and then reports success (wal.rs:318-320, 352-358, server/src/lib.rs:148); block pruning is exact in exact arithmetic, in
`f32` a rounded radius may exclude a grain that ties with the k-th.

## Fairness

`GroupCommit!FairSpec` has weak fairness on the committer as a whole: it is a thread that runs
whenever it has work, and none of its steps waits for a client. Nothing obliges clients to write,
stores to be opened, or crashes to happen. `Materializer!FairSpec` has weak fairness for the
committer's publishing half, the dispatcher, each worker and the rebuild once it is due: each is a
thread that blocks only on an empty channel. `ServerStore!FairStoreSpec` adds the committer's writing and applying, where a write may fail
every time, and each handler: it goes
on with a load it began and returns when `sync` does. Nothing is fair about clients that load,
failed writes, timeouts or restarts; `LoadReturns` holds without the timeout for every load that waits
for a commit of this opening, unless a pool found a store that was not empty or the load was answered early
from a batch whose write failed: these need the timeout. No strong fairness is used anywhere.
`EveryCommitReturns` allows an answer of any kind, an error or the closed channel included.

## Proofs

All theorems hold for every value of the constants that satisfies the named
assumptions (`MvccAssumption`, `GroupCommitAssumption`, `HlcAssumption`, `MaterializerAssumption`,
`ServerStoreAssumption`, `GovernanceAssumption`, `StagedQueryAssumption`, `CacheAssumption`,
`BlockAssumption`, `HnswAssumption`, `ShardAssumption`): any number of clients, threads, workers, handlers, keys, requests, openings, grains. `EachKeyIsCommittedOnce`,
`AckedCanBeRecovered` and `WritePathImplementsDurableLog` also assume `~TornTails`, that no crash cuts a
frame; the run `torn_tail` shows that the second needs it.

- **`SeekIsSnapshotRead`** (`GroupCommitProof`): on any set of versions `get_at` returns the newest
  version visible at the snapshot. The argument is about the key order: within a grain it is the
  reverse of the timestamp order, and everything else that lies at or after the target lies behind the grain.
- **`TypeCorrect`, `LogIsWellFormed`, `AckedStaysOnDisk`** (`GroupCommitProof`). None of these is
  inductive. The invariant is `TInv /\ LogInv`. `TInv` adds the shape of the loops to the
  types (the cursor is inside `staged` where a loop runs). `LogInv` adds: every intact frame and
  every staged write is in the dedup map under its own timestamp and not above the
  clock (so a new write is new to the log); staged writes are newer than the log until written
  and are its tail afterwards; after the fsync `synced` is the whole file (so the answer
  finds its frame); the applied watermark is below what is staged. The types need
  `LogWellFormed`, because recovery's clock and dedup map are read from the log. Failures and
  crashes are handled by one lemma about what a cut keeps (`CutProperties`).
- **`AckedCanBeRecovered`, `WritePathImplementsDurableLog`** (`GroupCommitProof`), from `~TornTails`:
  every frame is whole, so the synced prefix is intact. Each step keeps or extends that prefix and only
  `Answer` acknowledges.
- **`SnapshotsAreRepeatable`, `EveryReadIsASnapshotRead`, `PublishedStaysDurable`**
  (`GroupCommitProof`): the applied watermark is below whatever is still to be applied; the store is
  always a set of versions; a published record is at its place in the synced tail of the file.
- **`ScansAgree`** (`GroupCommitProof`): the scan of a rebuild against the reads of a client. The key order
  is total on a store, so the iterator meets each version once and in order. After any number of
  versions the fold remembers the prefix of the last one and has collected the heads among them, a head being a version
  that is not a deletion and has no version of its grain before it; within a
  grain the first is the newest, so the heads are what a read at the end of time returns. The invariant is
  that the store is a set of versions with one for each key, which writes and recovery keep.
- **`EachKeyIsCommittedOnce`** (`AnswersProof`), from `~TornTails`: an answer at the end of a batch
  stands for a frame recovery can find, and a well-formed log has one frame for a key and one for a timestamp.
- **`AnswersNeverDisagree`** (`AnswersProof`): the dedup map is injective, what it holds is never
  replaced within an opening, and every answer of this opening is in it; an opening rebuilds it from
  a well-formed log.
- **`SubscribersMissNothing`, `ClientsReadTheirWrites`** (`AnswersProof`): the timestamps of a batch are
  the last ones of the clock, one after the other, and the feed ends where the batch begins or
  with the part of it that was published. The apply loop runs before the publish loop, which runs
  before the answers, so what is published or answered is in the store, and nothing removes it.
- **`RestartChangesNothing`** (`AnswersProof`): at every step memory is the log without what the apply loop
  has still to do; when the committer waits for work nothing is left to do.
- **`EngineWatermarkIsHonest`, `StoreWatermarkIsHonest`, `StoreWatermarkNeverRetreats`**
  (`ServerStoreProof`): every step of either specification is a commit, a step of the store's threads or a
  new opening (`AnyStep`). The invariant is `Shape /\ PoolIsHonest /\ SingleIsInOrder`. A pool is honest because
  what lies below `next` or is set aside in `pending` was applied, and so was what a worker is about
  to complete. A single thread stores the seq it completes whatever that is, so there the order must be
  known: the channel is the end of what was published, and the record being worked on is the one before it.
- **`EngineTypes`, `StoreTypes`** (`ServerStoreProof`): to `Shape` they add where the records are: what is in the
  channel, in a queue or with a worker was published in this opening (`Places`).
- **`EngineIndexIsACut`, `ServedIndexIsACut`, `SingleThreadCatchesUp`** (`ServerStoreProof`). The inductive
  invariant is `EngineInv`. With one thread, the index has for each subject the newest commit up
  to the one last applied (`CutInv`); while the rebuild seeds it, the newest up to the opening, or nothing yet and
  that commit waits to be seeded; before the rebuild, nothing. The statement covers the seeding as well. That nothing is applied meanwhile holds because
  a program that does not seed late opens only when it has seeded (`OpensSeeded`). The hypothesis `OnePredPerSubject`
  is what the code needs: the index knows subjects, the truth subjects and predicates. The
  engine's theorem takes it as a premise in every state; of the server it is a consequence, as it writes one predicate.
  A restart may bring back unapplied writes of one predicate, and seeds them like the others.
- **`EngineKeepsAStaleIndex`, `ServerKeepsAStaleIndex`** (`ServerStoreProof`): the index implements `StaleIndex`, under the same
  hypothesis. Applying a record is the only step that moves the last one applied, by one; completing it sets the watermark
  to just that; and nothing is completed before a store that opens seeded is seeded (`UntoldUntilSeeded`). `IndexIsACut`
  adds that what the index reflects was published.
- **`EngineIndexesSoleWrites`, `StoreIndexesSoleWrites`** (`ServerStoreProof`), for pools too: every record
  of this opening is in the channel, in a queue, with a worker or handled (`NothingIsLost`); the only write of a
  subject, once handled, is in the index and no seed is older, and the watermark does not pass what was not
  handled; one of an earlier opening is in the
  index or waits to be seeded from the moment the rebuild runs. So once the rebuild is over such a
  write is in the index if it was recovered, if the watermark has passed it, or if all is worked off.
- **`LoadsAreQueryable`** (`ServerStoreProof`): a load knows of each grain it has put the subject's commit, a
  wait's seq is not below any of them, and a wait that was met found the watermark there
  (`LoadsAreKnown`), so the grain was handled and, as the only write of its subject, is in the index.
  This is said of seqs of `Log`, staged ones included. A load that was answered early from a batch whose write failed
  has a seq beyond the truth, which the watermark, being behind what was published, never reaches. The
  invariant, `StoreIInv`, also says that `Log` has one write for a subject.
- **`NothingIsWrittenUnlogged`** (`GovernanceProof`): a call carries the decision on the header of the very value it will
  write, and when it comes to commit it was allowed and its entry pushed; the log only grows.
- **`GovernanceTypes`, `AnswersObeyThePolicy`, `AuditAccounts`** (`GovernanceProof`): what the loop of disclosures
  returns after any number of joined grains was allowed, or masked, for the very value that was joined, and what
  it charged is the sum of what it shows. The log has an entry for each number taken whose caller is not
  between taking and pushing, and the tokens of its queries with those callers' charges are what the budgets lost, whatever the subjects are.
- **`QueryTypes`, `AnswersStayFresh`, `UntouchedAreFound`** (`StagedQueryProof`). `QueryInv` says what a query knows
  while it runs: what it has found passes its filter, was the newest at a moment since it began, and
  when it is done is ranked nearest first and cut to `k`; and each commit the index proposes that has stayed the newest of its grain still waits to
  be joined, was found, or was crowded out by as many nearer ones as were asked for.
- **`SummariesAreSmall`** (`StagedQueryProof`): the positions a summary shows are few because they are the image of
  the bands, whatever the length of the result.
- **`PruningIsExact`** (`StructuresProof`): descriptors lose nothing, for any grains and any number of blocks
  and passes. Each pass makes centroids of centroids, so every grain is assigned to one; the blocks partition the
  grains, their radii reach all of their points, and their filters have all of their subjects' bits. A count is a sum over disjoint
  sets. For a search, the invariant of the loop over blocks is that it holds the `k` nearest grains
  of the blocks behind it (`TopOf`): a block is skipped when, by the triangle inequality, none of its points can beat the
  `k`-th, and is merged otherwise. Two such answers have the same distances (by the pigeonhole principle), and the first `k` of a sorted scan is one.
- **`DrillsFindTheirOwn`, `CacheKeepsTheNewest`** (`StagedQueryProof`): handles are unique, although they are
  taken outside the lock and may be stored late and out of order; whatever was evicted is older than
  everything held, and nothing was evicted before the cache was full. An eviction takes the least
  number, which exists by well-founded induction on numbers.
- **`GraphsStayGraphs`, `GraphsKeepTheirForm`** (`ShardedHnswProof`), for any degrees, beam widths, levels, positions
  and shards. What the property says is not inductive: an insertion finds its neighbours by searching the graph, so the
  search must be understood first. A beam (`BeamInv`) is full, or still holds all it has
  visited and has visited the neighbours of those too, its candidates aside. What holds of a graph (`Graph`) is that lists of links are injective,
  within the degree, and stay on their layer (`Laid`); that the entry is a node of the top layer (`Topped`); that each
  subject's node is live, and counted, and no other is (`Indexed`); and `Joined`: as long as no list can have been cut, that is up to
  one node more than the degree, each node leads to all others on the lowest layer. Linking may lengthen a list by one, and
  pruning undoes it at once (`TyingInv`), so only the new node's own list is ever too long.
- **`ShardsAnswerTheNearest`** (`ShardedHnswProof`): when a beam has room for all it can reach, its search ends only when no candidate
  is left, so it has reached everything its entry leads to; a narrower one is full at the end. The answer is the head of
  its live nodes by rank. That all is reached in a graph where nothing was cut is `Joined`.
- **`StableNeighboursStay`** (`ShardedHnswProof`): as long as no beam and no degree is too narrow for the graphs, a vector that
  nobody touches during a search is in the answer or `k` others as near are, whatever writes fall between the shards.
  The invariant (`SearchInv`) keeps of each part that it has what its shard held when it was asked, or `k` nearer ones. Writes only add nodes, so a graph that is small enough now was so then, and what was held
  always was held then. The merge keeps this by the pigeonhole principle: a vector that is not among the first `k` of the sorted
  parts has `k` different subjects in front of it.
- **`ClockTypeCorrect`, `TimestampsAreExact`, `TimestampsAreCausal`** (`StructuresProof`): the invariant relates what
  each thread has seen and holds in `prev` to the counter.

Several of these are about what a loop or a recursive function computes for inputs of any length. The induction they need
is in `Induction`, and takes no operator as a parameter: a set of numbers that is not empty has a least
one, so a property, given as the set of what has it, holds of every number, or of every subset of a finite set,
when it carries over from the smaller ones. A fold is then a function on the sets of positions
folded so far, which exists because it can be built up by size, and so is the value the definition chooses.

Only model-checked: the liveness properties (`EveryCommitReturns`, `SyncReturnsButForReopenedPools`, `LoadReturns`),
which need ENABLED. Every invariant and every action property of a passing run is a theorem.

## Not modelled

- Recall of a graph: it is statistical and not a property of single behaviours. `ShardedHnsw` checks
  what holds of every graph; `Materializer` sees a map and `StagedQuery` an exact search, which is what
  `BruteForceIndex` is, so the beam width the planner chooses has no part in it. An approximate index now and then misses what `UntouchedMatchesAreFound` promises.
- Floating-point rounding, in distances, centroids and the planner; a summary's sharpness and
  distance statistics.
- Descriptor fields of a block that no query reads: predicates, confidence histogram, times.
- The server's value codec and text embedder are arithmetic without state; the daemon, MCP server and
  client parse and print around the store; benchmarks measure.
- Several subscribers of the change stream, and one that hung up: the program has one, which lives as
  long as the store.
- Bytes: frame encoding and checksum are abstracted to whole and torn frames, a
  checksum collision is not considered; embedders to whether they return a vector.
- The 2^64 limit of timestamps: `MaxTs` bounds what is issued.

## Plan

The order followed the weight of what can go wrong.

1. *(done)* `Mvcc`, `GroupCommit`, `DurableLog`; the log and snapshot theorems; what clients and
   subscribers are told.
2. *(done)* `Materializer`; `Hlc` with its theorems; `Governance` and the write theorem.
3. *(done)* `StagedQuery` with `Continuations`: `near_join_select` over a stale index and a moving
   truth, with catalog and planner; the cache theorems.
4. *(done)* `ServerStore` on top of `Materializer`; the watermark and sole-write theorems.
5. *(done)* `Hnsw`, `ShardedHnsw`, `Blocks`.
6. *(done)* The theorems about folds, sorts and sums: `ScansAgree`, `AnswersObeyThePolicy`, `AuditAccounts`,
   `AnswersStayFresh`, `UntouchedAreFound`, `PruningIsExact`; those about the index: `EngineIndexIsACut`,
   `LoadsAreQueryable`.
7. *(done)* `Hnsw` without recursive operators, and what the vector index promises as theorems.
8. *(done)* `StaleIndex` and the proofs that an engine and the server implement it.
9. Open: what is listed under "Not modelled", and liveness as theorems, which needs a prover for ENABLED.
