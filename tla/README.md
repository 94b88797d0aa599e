# Verification of Loomvec

Loomvec is an asset library with retrieval: files are uploaded to an API, a
Celery worker turns each of them into *semantic units* with vectors and a
knowledge graph, and users and agents search them. PostgreSQL holds the rows,
object storage the derived files, Milvus the vectors, Redis the broker, locks
and the event log. This directory holds TLA+ models of the parts of it where
processes cross, model-checked with TLC and, where a property should hold for
every number of tasks, processes and faults, proved with TLAPS.

`PROJECT.json` lists components, runs, hazards and, for every definition, the
source lines it stands for. Paths below are relative to `src/services/`.

## 1. The system

| Component | State | Operations | What is hard | What makes it correct |
|---|---|---|---|---|
| Asset pipeline (`core/pipeline/`, `worker/tasks.py`, `api/services/assets.py`) | asset status, processing jobs, version_meta, semantic units and their `embed_model_version`; `vectors.json`; rows in Milvus | register, retry from a step, delete; parse, chunk, graph, embed, index | nothing serialises the tasks of one asset; a step is a transaction around writes to other stores; retries, redelivery, crashes | READY means searchable; no vector of a unit that is gone; nobody waits for a task that will not come; a deleted asset leaves no vectors |
| MinerU slots and client (`core/mineru_slots.py`, `core/mineru_client.py`) | Redis keys with a TTL, jobs at MinerU | probe, acquire, release, create, poll, cancel, download | leases that expire, lost answers, dead processes | a parse holds its key while its lease runs; jobs within capacity but for those overdue; keys come back |
| Webhooks (`core/events.py`, `worker/webhooks.py`, `api/routes/admin/webhooks.py`) | event list, cursor, delivery rows, delayed tasks | publish, dispatch, deliver, sweep, replay, delete | list trimmed at one end and pushed at the other; two plans for the next attempt; tasks sent before commits | every event is dispatched; a failed delivery is tried again and ends |
| Folders, files and quota (`api/services/folders.py`, `api/services/assets.py`, `core/quota.py`) | tree of folders, files in them, file counter of the space | create, rename, move, delete with cascade, copy, register | every request checks what it has read and commits without a lock | the folders stay a tree; siblings differ; nothing live below what is deleted; the counter is the number of files |
| Ingest watch (`worker/ingest_watch.py`) | scan lock, ledger of files, assets | scan, register, send, resume | lock renewed between files only; resume after a crash; files that change while they are read | every file registered once and sent; the ledger knows what was registered |
| Knowledge bases (`core/knowledge_base_auto.py`, `api/services/knowledge_bases.py`, `worker/tasks.py`) | tree of tags, merges, pending tags, links | create, confirm, rename, move, delete, merge, link, file, suggest | two moves may close a cycle; row locks taken one after the other | merges lead somewhere; a filing does not lose its document; no two tags of a name; few pending |
| Agent gateway (`agent/routes.py`, `agent/gateway/`, `core/agent_tokens.py`) | session row, scope in Redis, turns and events at the ACP gateway | ask, stream, resume, finish | streams that are cut; POSTs whose answer is lost; questions side by side | a stream shows its turn once and whole; one turn per question; the scope of the question |
| Graph and entity merge (`core/graph/`, `core/pipeline/graph_flow.py`) | entities, edges, merge log, vectors of the entities | write the graph of a document, delete, rebuild, scan and merge, roll back, sweep | the lock is taken after the rows are read; deletions take none; a merge names a pair that has moved on | a deleted document leaves no evidence; edges join living entities that have vectors; a rolled back merge restores what it took |
| MinerU-compatible API (`api/routes/mineru_compat.py`) | one record per batch in Redis, upload and download tokens, background submissions | upload, submit, poll, download | every upload, submission and poll reads the record of a batch, waits, and writes it back whole | no file of a batch falls back to an earlier state; each is submitted once |
| Agent runtimes (`agent/runtime`, `agent/sessions`) | pool of runtimes | | legacy: no longer constructed by the service | |
| Re-embedding and unit editing (`worker/tasks.py`, `api/services/units.py`, `api/routes/admin/reembedding.py`) | units, marks, the cache, vectors, the re-embedding task | edit, create, pin, delete a unit; create, run, cancel a re-embedding | cache read in one step and written in another; edits between the steps of a batch | the search shows the last edit; a cancelled task stops |
| Retrieval, AI gateway, identity, CRUD API, front ends, deployment | none of their own, or one transaction | | | computed results; unit tests |

**Interactions.** The API commits a row and then sends a Celery task; the
worker's runner opens and closes each step with a commit and writes object
storage and Milvus between them. The parse step takes a MinerU slot and, if
there is none, ends its task and sends a new one. Every change publishes an
event into Redis, which the webhook dispatcher reads on a timer. Delete commits
first and removes vectors afterwards. The ingest watch registers an asset as an
upload does and sends it to the pipeline; the pipeline, when it has ended, files
the document under knowledge bases; its graph step writes entities that merges
join later; an edit of a unit changes the cache and the vectors that embed and
index write too; the agent's turns search with a scope that
the question has left in Redis. None of these pairs is atomic: that is
what the models are about.

## 2. The modules

| Module | Models | Extends / used by |
|---|---|---|
| `AssetLifecycle` | what a user may rely on about the status of an asset | abstract; instantiated by `Pipeline` |
| `Pipeline` | one asset and the tasks that work on it | `MCPipeline`, `PipelineProofs` |
| `SlotPool` | what the slots promise: a pool, each slot used by one process at a time | abstract; instantiated by `MineruSlots` |
| `MineruSlots` | the processes that share MinerU | `MCMineruSlots`, `ServiceProofs` |
| `WebhookLog` | the event list, its cursor and the dispatchers | `MCWebhookLog` |
| `WebhookDelivery` | one delivery row and its tasks | `MCWebhookDelivery`, `WebhookDeliveryProofs` |
| `Folders` | the folders, files and file counter of one space | `MCFolders`, `FoldersProofs` |
| `KnowledgeBases` | the tags of one space, people and filings at the level of row locks | `MCKnowledgeBases`, `KnowledgeBasesProofs` |
| `IngestWatch` | scans of a watched directory, its ledger, the assets | `MCIngestWatch`, `IngestWatchProofs` |
| `AgentTurns` | the questions of one agent session and the turns they start | `MCAgentTurns`, `ServiceProofs` |
| `EntityGraph` | the entities of one space, their edges, merges and vectors | `MCEntityGraph`, `EntityGraphProofs` |
| `UnitVectors` | edits of units beside embed, index and one re-embedding | `MCUnitVectors`, `UnitVectorsProofs` |

`ServiceProofs` holds the theorems of the two components whose processes share a
service outside of the system, the MinerU slots and the session at the ACP gateway.
That is why the names `AgentTurns` would share with `MineruSlots` begin with `Turns` in
it (`TurnsSpec`, `TurnsNext`, `TurnsTypeOK`, ...).

`Pipeline` meets `MineruSlots` in `ParseBusy`: in the pipeline a slot may or may
not be free at any time, in `MineruSlots` the process that finds none goes back
to idle. `WebhookLog` meets `WebhookDelivery` in `DispatchSend`/`DispatchCommit`,
which is `CommitRows` seen from one row. `IngestWatch` sees the pipeline as
`Parse`: an asset that was sent becomes ready, or fails if it has no object.
`KnowledgeBases` begins where `Pipeline` ends, with `File`. `UnitVectors` opens
up the embed and index steps of `Pipeline` for edits of single units;
`EntityGraph` is the graph step that `Pipeline` leaves out.

### Pipeline

Variables: `status` (asset.status), `del` (how far a delete has come), the tasks
(`pc`, `from`, `retries`, `step`), what a running step has read and will write
back (`prev`, `seen`, `read`, `due`), the rows (`units`, `marked`), the cache in
object storage (`cache`, and `hasCache` for version_meta.embed), Milvus
(`vectors`). A unit is a pair of a generation and an embedding batch: rebuilding
the units gives all of them new primary keys, and embedding fails between
batches, so nothing finer is told apart.

A step is split where others can come between: the opening commit (`BeginStep`),
what it reads (`ChunkRead`, `EmbedRead`, `IndexRead`), each write outside the
database (`EmbedStore`, `IndexDelete`, `IndexUpsert`), the closing commit
(`StepSucceeded`, `StepFailed`). Row locks of an open transaction are
`LockedByOthers`; an update of a row that is gone is `EmbedStale`.
A task that has made the asset READY is not over: it files the document and
triggers merges (`filing`, until `FileDone`) with its message unacknowledged.
Celery is `TaskRaised` (another attempt, or a dead letter), `ParseBusy` and
`SendAgain` (the commit that puts the status back, then the new task, retries 0),
`HostCrash` (acks_late: the message of a dead host comes again, also of one that
was filing), `Redeliver` (the visibility timeout passes over a message a worker
still holds, or one with a countdown: it is delivered a second time, beside the
first; the hard limit of a task is as long as the timeout), `Kill` (a
dead child process: the message is acknowledged and `on_failure` never runs). A
member of `Task` is one delivery, with its automatic retries.
`DbFault(t, recorded)` is a database failure, with or without success of the
separate session that records it.

Abstracted: what a step computes; the graph (its failure never fails the
pipeline); the chunk cache key (may match or not whenever there are units); the
choice of `from_step` by default (any step of `RetryFrom`). A parse gives at
least one unit. `indexed` and `faults` are not in the code: the first records
that an index job has succeeded, the second bounds the faults.

### MineruSlots

Variables: `pc`, `at` (loop index of probe and acquire), `token`, `key`, the keys
(`holder`, `ttl`), the jobs MinerU works on (`jobs`), `elapsed` (ticks since a
process took its key, while it may have a job; the lease time or more are one).
`Tick` passes whatever a process does. Nothing in the code ends a parse with its
lease, which is never renewed: the lease is the deadline of the polling plus 900 s,
while three uploads have a timeout of 300 s for each operation of the HTTP client,
the creation of the job one of 120 s, and a last poll and a cancel come on top. A
process whose lease has run out under it is `Overdue`: it goes on, uploads, creates
its job, polls, and another process may have its key. Release compares tokens
because of them, and of the download, which has no bound.
`orphans` is not in the code: it records the jobs that a failed cancel, a lost
answer to a create or a dead process has left behind.

`SlotPool` is the abstract specification: no keys, leases, tokens or clock; a
process takes a slot nobody uses, MinerU works for it only while it uses one or is
late, and giving the slot back ends that work. `Lapse` takes slots away from
processes, which are late from then on. `MineruSlots` implements it (`IsSlotPool`)
under the mapping of `SlotsUsed` (a process uses its key from SET NX until its
polling has ended or its lease has run out), `Overdue` and `WorkedFor` (its job is
at MinerU and attended).

### WebhookLog and WebhookDelivery

`WebhookLog`: the Redis list newest first, with push and trim as two commands; a
dispatcher is split at each Redis command and at its commit. Events are numbers;
which subscriptions match is left out, so a dispatched event is one in `rows`.

`WebhookDelivery`: the row is `[status, attempt, next]`. A task loads it, posts,
and commits only the columns that differ from what *it loaded* (`Written`), so
two tasks overwrite each other as they do in PostgreSQL. `attempt` stops one
past the schedule, as it is only compared with its length. `next_retry_at` is
`none`, `later` or `due`. `lost` is not in the code: it records that a task was
killed or its message never sent.

### Folders

A request is one transaction: `Begin` is everything up to its commit (reads and
checks of one moment), `Commit` writes the columns it sets and nothing else, so
the commits of two requests mix as SQLAlchemy's do; `Rollback` covers errors,
clients that leave and dead processes. `crossed` is not in the code: when a
request begins beside another one it records which promises that pair puts at
risk (`Risks`). The properties then say that only those pairs can break them,
which is what the code can promise without locks. Deleted rows give their
identities back once nothing refers to them. `DescendantIds` counts deleted
folders as the code does and `WalkEnds` says that its walk, which keeps no set of
what it has seen, comes to an end; a request whose walk does not has no commit.
A copy of a folder into itself or below never ends in the code (there is no such
check in `copy_folder_recursive`): it has no commit in the model either.

### KnowledgeBases

A transaction here has many steps: it asks for row locks one by one in the order
of its statements (`Lock`), with the four modes of PostgreSQL and foreign keys
as FOR KEY SHARE, and commits. `Looked` is what `resolve_live_tags` does with a
row once it has it: follow the merge in another round, in order of ids; `want` is
the sequence of rounds still to lock, each a set of tags and a mode. `Suggest`
is `create_system_tag` under the advisory lock of the space, held to the commit.
A victim of a deadlock is a `Rollback`, and the one retry of a filing is another
filing. Names are given by their `name_key`; the unique constraint on names is
left out, since it does not see different spellings nor spaces without a tenant.
Ids grow with time, so a new tag takes the least unused identity.

### IngestWatch

`written` numbers the writes of files; a place in it stands for size and mtime,
its value for the contents. A scan is split at each commit and each call outside
the database; it lists the directory when it takes the lock. `gone` is an asset
that has failed or was deleted. `risks` is not in the code: `lock` says that a
scan has outlived its lock, `late` that a file was read while an upload of the
same contents was still being parsed (after the hour of `_INFLIGHT_WAIT`),
`answer` that the answer to a commit was lost. Registration, ledger and sending
hold their promises unless the named thing has happened; each of the three
exceptions is real in the code.

### AgentTurns

The session row with its lock, the scope in Redis, and the gateway, which is
external: one turn at a time for a session, and a log in which the place of an
event is its `seq`. An ask is split at the statements of its transaction, at
the scope, the POST, every event, and the two steps of its bookkeeping. `Cut`
covers every end of a stream without a last event, `OpenFails` a refusal, a lost
POST and a POST that was taken but not answered. `ghosts` is not in the code.

### EntityGraph

`db` holds names, merges, edges with their evidence and the documents, `log` the
merges done, `vectors` the entities that Milvus has. A session loads its rows,
takes the advisory lock of the space, and commits; since the lock comes after
the load, it works on rows that others have changed. PostgreSQL reads committed
rows, so a session keeps what it has `seen` and what it has written (`work`), and
`Rebased` gives what its commit leaves. Deletions, rebuilds and the sweep take
no lock. The cleaning script reads the nodes and edges (`SweepGraph`), then the rows
(`SweepRows`), updates and commits by what it has read (`Sweep`, with the `plan`),
and removes vectors afterwards; any session may lie between two of these. AGE
creates an edge beside an equal one, so an edge has a `copy`: a rollback creates
the edges of both of its lists and those between the two entities, which are in
each, come back twice (`Created`, `Twice`); a third copy is not told from a second. `Resolve` follows merges to their end: the smallest set closed under
one step (`Closed`, `Chain`), so that it is defined for cycles too. Which of two
entities is the `oldest` is left open, as `created_at` may tie. Parallel edges
stand for relation types and weights. `undo`, `stale`, `swept`, `late` and `bare`
are not in the code: they record what a rollback should give back and which
crossing has happened.

### UnitVectors

The rows of units with their text, the marks (`embed_model_version`), the cache
in object storage and the vectors in Milvus. A request of the API is split at its
flush, the read and the write of the cache, the upsert and the commit. Its read of
the cache may fail, which it takes for a cache that is not there (`ReadNothing`). A run of
embed or index at its reads and writes; a re-embedding is created, delivered,
started, checked before each document, finished or cancelled. `blind`, `lost`,
`mixed`, `whole`, `halted`, `crossed` and `spare` are not in the code: they record
the crossings that the properties name.

## 3. Runs

Every bound is a CONSTANT of the cfg. Times are for two TLC workers.

| Run | Instance | Shows | States |
|---|---|---|---|
| `faults` | `Pipeline`, 2 workers on one asset, 2 deliveries, 1 fault of every kind | `MarksKeepTheirRows`, `StallIsAccounted`, `IsAssetLifecycle` | 5.9 M, 3 min |
| `media` | `Pipeline` for audio/video, 1 worker, 2 tasks, 2 batches, 3 generations, retries from chunk or embed, 1 kill, `FairSpec` | `IndexNeverStale`, `ReadyIsSearchable`, `EmbedMetaIsKept`, `Settles` | 0.25 M, 1 min |
| `slots` | 2 processes, 2 keys, 4 tokens, TTL 2, every fault, `FairSpec` | `AttendedWithinCapacity`, `IsSlotPool`, `KeysComeBack` | 1.0 M |
| `webhook_log` | 2 dispatchers, 4 events, list of 3, batch of 2, 1 death, `FairSpec` | `CursorCatchesUp` | 0.16 M |
| `webhook_order` | 1 dispatcher, 2 events | `ReadMeansDispatched` **violated** | |
| `webhook_delivery` | 2 tasks, 3 retries, one fault of four kinds, `FairSpec` | `FailedIsCovered`, `DeliveryEnds` | 0.3 M |
| `folders` | 2 requests, 3 folders, 2 files, 2 names, quota 2, 1 promise crossed | `TreeUnlessMovesCross`, `NamesDifferUnlessCrossed`, `NothingLiveUnderDeleted`, `UsageCountsFiles` | 1.3 M, 80 s |
| `knowledge` | 2 clients, 4 tags of which 2 exist at first, 3 names, 1 document, MaxPending 3, 2 changes | `MergesEnd`, `LinksLeaveMergedTags`, `PendingWithinLimit`, `TreeUnlessMovesCross`, `WaitCirclesHaveACause` | 1.2 M, 40 s |
| `ingest` | 2 scanners, 2 files, 2 writes, 3 assets, 1 file read per scan, 1 fault | `RegisteredOnce`, `LedgerKnowsTheFile`, `AssetsHaveObjects`, `NothingIsForgotten` | 5.7 M, 110 s |
| `agents` | 2 questions, 1 resumption, 1 event between start and end, 2 faults, limit of 2 messages, `FairSpec` | `StreamShowsTheTurn`, `OneTurnPerAsk`, `SearchesKeepTheScope`, `OneGatewaySession`, `ReplayIsHandedOver`, `AsksEnd` | 0.7 M, 110 s |
| `merges` | 3 entities, one pair of spellings, 3 facts, 2 documents, 2 sessions, 5 changes | `GraphShowsTheLiving`, `DeletedLeaveNoEvidence`, `LivingHaveVectors`, `RollbackRestores`, `MergeKeepsEvidence` | 3.5 M, 130 s |
| `unit_edits` | 2 units in 2 documents, 2 columns, 2 requests, 2 workers, 1 re-embedding, 3 changes | `SearchFollowsEdits`, `CacheFollowsEdits`, `CancelStops` | 4.8 M, 190 s |

`faults` checks `IsAssetLifecycle` as a property of steps; the abstract asset shows
READY only when it was indexed, so `ReadyHasBeenIndexed` is not listed beside it.

The type invariant of every module is `TypeOK` (`TurnsTypeOK` in `AgentTurns`); where a module has proofs it is
proved rather than run.

Why the bounds suffice. Two deliveries, of two submissions or of one, are enough
for every crossing of two
tasks, and a third adds only a third party to races that two already show; two
batches tell a partial embed from a whole one. Three generations are those that
units, cache and one stale read hold at once; where others are held as well, a
rebuild waits for one of them to be replaced. Two keys make the loop of acquire matter, four
tokens leave a fresh one for each of two processes beside their left-behind jobs.
Four events with a list of three and a batch of two reach a trim, a batch that
does not take all, and a cursor past the end. Two delivery tasks are the delayed
one and the swept one. Two requests, clients, scanners, questions or sessions are
what each crossing in the list of hazards takes.

Larger instances of the same properties were checked by hand: `Folders` with 3
files; `KnowledgeBases` with 3 tags at first and 3 changes; `IngestWatch` with 2
contents and one scanner (2.4 M states) or 2 assets (1.6 M); `EntityGraph` with
three spellings of 4 entities (0.7 M), 2 facts and 6 changes (1.7 M), 4 facts with
opposite directions (0.3 M); `UnitVectors` with three units (1.8 M) or one worker
(2.2 M); `Pipeline` for a document that may be deferred, one worker, no faults
(`IndexNeverStale` and `Settles` hold) and for media with kills and database
failures (0.9 M).

`media` leaves `index` out of `RetryFrom`: asked to start there after an embed
step that failed, the pipeline indexes with an old cache and the asset is READY
without vectors. The API accepts this start and the step is what was asked for,
so it is an assumption of the run rather than a finding. Images are the third
`Kind`: they follow audio and video with one embedded unit and have no run of
their own; the theorems hold for every kind.

Properties that need one worker (`IndexNeverStale`, `EmbedMetaIsKept`,
`ReadyIsSearchable` of media) say so: two tasks of one asset running side by
side break them, because nothing orders their steps. The default deployment
runs several pipeline workers; the properties then describe an asset that is
submitted once at a time.

`CHECK_DEADLOCK FALSE` in the runs of `Pipeline` and `WebhookDelivery`: with all
submissions used up and the asset deleted, or with a delivered row whose
subscription is gone, nothing remains to do. The same in `Folders`,
`KnowledgeBases`, `IngestWatch`, `AgentTurns`, `EntityGraph` and `UnitVectors`,
whose users stop when the bound on their changes is reached; the circles of row
locks in `KnowledgeBases` are no deadlock there, as PostgreSQL ends them, and
`WaitCirclesHaveACause` says what leads to them. `MineruSlots` and `WebhookLog` are
checked for deadlock in their passing runs: a clock always ticks and dispatch is
sent on a timer.

**Fairness.** Weak fairness for a worker that has begun a step, for a handler
between its commit and its `send_task`, for Redis's clock, for tasks a timer
sends (dispatch every 30 s, the sweep) and for countdowns. Strong fairness twice:
`TakeTask`, because queues are first in first out and a waiting task is reached
though workers are busy again and again; `ParseDone`, because a deferred parse
finds a free slot in the end (`KeysComeBack` says that slots do become free).
In `AgentTurns`, weak fairness of the step of each open request and of the gateway
ending each turn it has begun. No fairness for users, clients that leave, cut
connections, faults or publishers. `Settles` and `DeliveryEnds` except
what is really unbounded: steps that fail for ever, and an administrator who
replays for ever. The first exception is needed because a deferral starts a new
task with its retries at 0.

## 4. Findings

Machine-checked, with a run of its own:

* **The webhook cursor reads the wrong end** (`webhook_order`). New events go to
  the head of the list and the cursor counts from the head: after the first
  batch the dispatcher reads old events again and never the new ones. Once the
  list has its maximum length, nothing is dispatched at all.

Behaviours of the code that the models reach, without a run of their own. Where
a property has an exception, it names them:

* *Pipeline.* The commit that records a failed embed of a document also commits
  the marks of the batches done; the retry embeds the others only and overwrites
  `vectors.json` with those, and the asset is READY without part of its vectors
  (`core/pipeline/steps.py` 614-645, `runner.py` 150-155; `steps.py:10` and
  `docs/00-项目核心文档.md:141` promise otherwise). A delete does not stop a running index
  step: vectors are removed once, and written again afterwards. A message that is delivered again after READY, or
  beside a worker that still has it, runs the chain on an asset people already see,
  and makes it PROCESSING.
* *MinerU.* A cancel that fails leaves a job that exceeds the capacity. So does a parse
  that outlasts its lease: `worker/tasks.py:57` wants the TTL to cover a whole parse
  (“名额租约 TTL 须覆盖一次完整解析（上传 + 等待 timeout_seconds + 下载）”) and `docs/03` promises
  “同时在 MinerU 上解析的任务数 ≤ `mineru.max_concurrency`”, but the time-outs of the uploads,
  the creation, the last poll and the cancel add up to more than the 900 s that are
  added to the deadline of the polling, the download has none, and nothing renews the
  key. `AttendedWithinCapacity` and `SlotPool` therefore count who is overdue.
* *Webhooks.* A delivery task sent before the commit of its row may start first,
  find nothing and end; neither the sweep nor a replay takes a PENDING row.
* *Folders.* Two moves that cross close a cycle, after which `descendant_ids` never
  ends; two registrations lose an update of the file counter; `find_sibling_name`
  raises once two siblings have a name; a copy of a folder into itself never ends.
* *Knowledge bases.* Crossing moves of tags close a cycle as well; through a
  deleted tag parents may close one without. A single hop of a merge can wait in
  a circle by way of the FOR KEY SHARE of a foreign key, although
  `core/knowledge_base_auto.py` 98-101 rules circles out. Two merges wait for each
  other if one has locked a child of the other's source.
* *Ingest watch.* If the answer to a commit is lost, the object of the committed
  asset is discarded (585). A scan slow on one file outlives its lock, and a
  second registers the file again.
* *Agent gateway.* A refused second question replaces the scope of the running
  one; `message_count` is read before the row is locked; a client that leaves
  skips the bookkeeping of its turn; a cancel races the POST.
* *Entity merge.* The guard of `merge_pair` tests rows read before the lock and
  never refuses: an entity is merged twice, merges form cycles, an edge may end
  at a dead node. Parallel edges lose evidence although `merge.py:7` speaks of
  their union. An entity swept as orphan and revived through a merged name has
  no vector. Rolling back after a document was deleted brings its evidence
  back; deleting or rewriting one document removes edges that others share;
  a rolled back merge is done again by the next scan. An edge between winner and
  loser is in both lists of the snapshot (`core/graph/merge.py` 162-166), and the
  rollback creates every edge of both (325): it comes back twice, although the
  rollback is to restore the edges of before the merge (263) and clears others so that
  no duplicates stay (286-287). `RollbackRestores` says so.
* *Units.* An error of the storage while an edit or an addition reads the vectors cache
  is taken for a cache that does not exist (`api/services/units.py` 44-48): the request
  succeeds and leaves a cache of one vector, and the next index step drops all the
  others, although the rewriting of the cache is there so that a later index loses
  none (109). An edit between the reset of a re-embedding and the turn of its
  document is marked as embedded, so the embed leaves it out of the cache it
  overwrites and the index drops it. A retry from embed with every unit marked
  empties the cache and then the index. Two edits of title and text of a unit
  leave a vector of a text that no row has. The `target_model` of a re-embedding is
  never used. A cancel while it starts or while it is at its last document is
  overwritten (`worker/tasks.py:481` promises that it stops); a redelivered task
  that has succeeded runs again; a failed send leaves a PENDING task.

## 5. Proofs

All theorems are about `Spec` (`TurnsSpec` in `AgentTurns`), for any value of the
constants that meets the named assumption of the module; faults are unrestricted. The
assumptions ask for finite sets where something is counted (`Task`, assets, tags,
documents, files, entities; the questions, for `TurnsTypeCorrect` alone) and otherwise
only that identities are told apart. A property named in brackets is the one a run
checks on the small instance.

`PipelineProofs`
* `TypeCorrect`: TypeOK, inductive as it stands.
* `StallAccounted`: inductive as it stands with TypeOK. A step that leaves the
  asset PENDING or PROCESSING leaves its task in flight, or is one of the two
  endings the property names (`MoveAccounts`, `NotWaiting`,
  `EndedStepAccounts`).
* `ReadyIndexed` (`ReadyHasBeenIndexed`, which the run checks as a part of
  `IsAssetLifecycle`): a deferred parse puts back a status read earlier, so READY could
  come from the past; `ReadyInv` adds that a READY some task remembers was earned too.
* `AssetIsLifecycle` (`IsAssetLifecycle`): the refinement. Every step is one of the
  abstract asset or a stutter (`ApiSeen`, `RunSeen`, `DisasterSeen`). Shown is the
  status, or nothing once the asset is deleted; in hand are the tasks that will still
  act on it. A task that goes on keeps the asset in its hand (`StaysInHands`), one that
  a fault takes away drops it (`LostSeen`), one that the broker delivers again comes into
  another hand, beside the first or after READY (`AgainSeen`, `RedeliverSeen`), and a deferral puts back a READY only if it
  was earned, by `ReadyInv` (`DeferralSeen`). `LifecycleKeepsPromise` proves of the
  abstract asset that READY was earned and that who waits is in somebody's hand or was
  dropped, `PromiseKept` that the tasks therefore keep it: the abstract asset has all of
  `ReadyHasBeenIndexed` and `StallIsAccounted` in it.
* `MarksKept`: the row locks make it inductive. A rebuild commits only when no
  open embed transaction has updated the rows it deletes (`NoNewLock`,
  `EndedStepNoLock`), and an embed stores only while its rows exist.
* `OneWorkerKeepsMeta`, `OneWorkerIndexNeverStale`, `OneWorkerReadyIsSearchable`
  (the three properties of `media`) assume `Workers = 1`. `Alone` says that one
  task at most is in a step: the code only counts the busy workers, so this takes
  a lemma on the cardinality of the active tasks, and is why `Task` must be
  finite. `Seeing`: the task in a step has read the version_meta there is.
  `Clearing`: what an index step is about to write is a vector of a unit. The third
  also assumes `EmbedsAll`, the cases in which an embed step takes all units in one
  transaction and no retry starts at `index`; without it the finding on partial
  embeds of section 4 breaks it. `Embedding` follows the one task from the rebuild
  of the units to their vectors.

`ServiceProofs`, of `MineruSlots`
* `SlotsTypeCorrect`.
* `ParsingHolds`: `LeaseInv` says that tokens in use are distinct and that the
  TTL left of a parsing process's key is what the process has not used of it,
  `ttl + elapsed = Ttl`, until the lease has run out. No expiry hits a process in time.
* `CapacityKept`: each attended job belongs to a process that holds its key or is
  overdue (`JobsStep`); the keys of those in time are distinct, so mapping their jobs
  to keys is an injection into `Slot`; the others are counted by `Overdue`, with the
  finite-set theorems (`JobsCounted`).
* `SlotsArePool`: the refinement. Every step is one of the pool or a stutter
  (`PoolStep`): SET NX is a `Take` of a slot nobody uses because the key of a
  process in time exists and holds its token (`PoolTakes`); a tick is a `Lapse` of
  those whose lease it ends; whatever ends a parse
  is a `Give` because its job has ended or is left behind (`PoolGives`); a release
  that comes late, or not at all, changes nothing in the pool.

`ServiceProofs`, of `AgentTurns`. The five safety properties come from one invariant,
`TurnsInv`; none is inductive. Each action has a lemma on what it does to the ask that
takes it; all the gateway does is that turns and events are added and a running turn
ends once (`TurnsGrow`, `LogGrows`), so what a stream has read stays as it was.
* `StreamsShowTheirTurn` (`StreamShowsTheTurn`): by `EventsInv` an event belongs to a
  turn and the one that ends it says how. By `StreamOf` a stream that has a turn has
  shown all the turn's events up to the last it has seen, in order, and has passed none
  over between that and its position (`Showing`). A stream that has no turn yet has the
  first event of its own ask's turn next (`NamesNext`): the orchestrator takes the turn
  of the first event that is its own, so the position at which a prompt begins to read
  is what keeps the turns of two asks apart.
* `AsksStartOneTurn` (`OneTurnPerAsk`): an ask that has a turn is past `open`
  (`AskedOnceInv`), so a resumption never prompts again.
* `SearchesStayInScope` (`SearchesKeepTheScope`): the scope in Redis is the ask's own
  or that of one that published after it (`ScopesInv`).
* `FirstAsksShareASession` (`OneGatewaySession`): the transaction that creates a session
  holds the row (`LockedInv`), and the row or that transaction knows the one session
  there is (`OneSession`), until one is lost.
* `ReplaysAreHandedOver` (`ReplayIsHandedOver`): while the row still asks for a replay,
  every open prompt and every turn carries it (`ReplaysInv`).
* `TurnsTypeCorrect`: the row's count is bounded by the asks that have committed and
  those that have ended (`CountsInv`).

`WebhookDeliveryProofs`
* `DeliveryTypeCorrect`.
* `FailedCovered`: `OwnedInv` says that a FAILED row has an owner: a task that
  waits or will send, or one that has loaded a status its own commit will differ
  from. A task that loaded SUCCESS or DEAD is no owner, as its commit may not
  write the status; this is why "some task is in flight" is not inductive.

`FoldersProofs`
* `FoldersTypeCorrect`; with it `RequestsFormed`, what a request between its
  `Begin` and its `Commit` is about to write.
* `FoldersStayATree` (`TreeUnlessMovesCross`): `TreeInv` says that no set of
  folders holds the parents of all its members; that one move at most is open, and
  its target is outside a set closed under children that holds what it moves; and
  that what creations and copies are about to insert is a forest apart from the
  rows that exist. A move's check of the descendants is a fact about the tree of
  its `Begin`; only another move can spoil it before the `Commit`, and that crosses.
* `FoldersKeepNamesApart`, `NothingStaysUnderDeleted`, `CounterCountsFiles`: the
  same argument. `NamesInv`, `NestInv` with `PlaceInv`, and `CountInv` add to the
  promise that what an open request has checked still holds and, for names and
  counter, that it is the only one that depends on it, as long as it is not crossed. The
  proof of the second showed that a file can be left in a deleted folder only by a
  request that places files; the property says so since.

`KnowledgeBasesProofs`
* `KnowledgeBasesTypeCorrect`, `ChainsOfMergesEnd` (`MergesEnd`),
  `LinksFollowMerges` (`LinksLeaveMergedTags`), `SuggestionsStayWithinLimit`
  (`PendingWithinLimit`) come from one invariant, `Filed`. For every transaction
  its parts say what it holds and what it is about to do (`Formed`), that what it
  does to a tag goes with the tag it has locked (`GoesWithTags`), and that the locks
  of two transactions are compatible (`Apart`). A merge then commits on the status
  it has read, a filing links only tags nobody has merged since, and only the
  holder of the space's lock counts and inserts.
* `TagsStayATree` (`TreeUnlessMovesCross`), by `Planted`: beside the tree, that an
  open move or merge is `Safe`, its target outside a set closed under live children.
* `OrderedLocksDoNotCircle` (`WaitCirclesHaveACause`): what a filing or merge
  holds comes before what it asks for (`InOrder`), unless it has one of the three
  causes, so that along a circle without one the rows would grow for ever.
* Both properties were wrong before they were proved, where the run's bounds do not
  reach. Parents may close a circle through a deleted tag: `descendant_ids` does not
  look below it, and the property now speaks of live tags (a counterexample takes
  three changes on three tags). And a merge that updates the children of its source
  waits for another merge that has locked such a child, against the order of ids:
  the third cause (three tags at first).

`IngestWatchProofs`
* `IngestWatchTypeCorrect`, `FilesAreRegisteredOnce` (`RegisteredOnce`),
  `LedgerStaysRight` (`LedgerKnowsTheFile`), `ObjectsStayWithAssets`
  (`AssetsHaveObjects`), `WatchForgetsNothing` (`NothingIsForgotten`), all from
  `Watched`: the types, that assets have their objects, and, while no scan has
  outlived its lock, `Consistent`. This is needed because none of the five is
  inductive: one scan at most is at work; a write belongs to one path; what a
  scan has at hand is still pending in the ledger and was seen with the write it
  read; contents are told apart among usable assets and the one being registered.
  Each step has a lemma on what it does, and one for each part it may disturb.

`EntityGraphProofs`
* `EntityGraphTypeCorrect` and `DeletionIsClean` (`DeletedLeaveNoEvidence`) from
  `Sound`: a session's work has evidence of deleted documents only if it is `late`
  (`WorkIsClean`, `WritesAreClean`). The script's reads change nothing a session sees
  (`ReadsDo`), and what its update takes away is within its plan (`SweepDoes`).
* `GraphIsOfTheLiving` (`GraphShowsTheLiving`) from `Ordered`: who is about to commit
  holds the lock, a pair is of two entities, what the holder has seen agrees with
  what is committed unless entities were swept (`RowsAgree`), and the nodes, in the
  tables and in the work, are living entities unless `stale` (`RowsInOrder`).
* `LivingAreIndexed` (`LivingHaveVectors`) adds `RowsIndexed` and `HolderWorks`: what was
  merged away has a vector too, because a rollback brings it back without a word to
  Milvus, and a merge in work brings nothing to life.
* `MergesKeepEvidence` (`MergeKeepsEvidence`): `MovedEdges` reads the loser's edges
  in some order and keeps what was read (`MovedEdgesPlaces`), by well-founded
  minimum over finitely many edges rather than by induction.
* `RollbackUndoesTheMerge` (`RollbackRestores`), with an edge between the two
  entities back twice, from `Reversible`: the log's entry of
  the last merge is its difference to what was before (`FirstMergeFits` for the
  merge in work, `LastMergeFits` for the committed one, `UndoFits` for the rollback
  in work). `RolledBackIsBefore` is the lemma on the operators, with `CreatedEdges` on
  edges that are created beside equal ones.

`UnitVectorsProofs`
* `UnitVectorsTypeCorrect`, from `WellTyped`: an edit that has been flushed holds its
  row, so that its commit finds it.
* `CancelHolds` (`CancelStops`): `CancelledWork` says of a task whose cancellation
  crossed neither start nor end that it is FAILED, and that its workers have more
  documents to come, at which they look at the status.
* `SearchStaysWithEdits` (`SearchFollowsEdits`) and `CacheStaysWithEdits`
  (`CacheFollowsEdits`), from `Followed`. Cache and Milvus follow the rows but for
  the units a request has written and not yet committed, or a run has cleared
  (`CacheFollows`, `IndexFollows`). A commit keeps that because what its request has
  written is there still (`CacheWritten`, `IndexWritten`): nobody else comes past the
  flush with the same unit, but for a deletion that waits for the row (`HoldersApart`,
  `NobodyElse`). A run keeps it because, as long as it is `Undisturbed`, it has the
  document alone and has read what is in the rows (`RunsFit`); the steps of others at
  the document end that, and steps elsewhere do not touch it (`ElsewhereFits`,
  `OthersFit`). It is also why an undisturbed index step may clear `mixed`.

Only model-checked:
* all liveness (`Settles`, `KeysComeBack`, `CursorCatchesUp`, `DeliveryEnds`,
  `AsksEnd`): fairness and ENABLED are beyond the prover. Every safety property of a
  passing run has a theorem;
* `WebhookLog`, whose finding is a counterexample.

## 6. Not modelled

Of the modelled parts: new versions of an asset, transcoding, the graph of
communities, categories and members of knowledge bases, the byte quota, quotas of
tenants, creating and pausing subscriptions, the matching of event types,
signatures and bodies of HTTP requests, archiving of agent sessions, renewal of
their tokens, citations. Retrieval ranking, the AI gateway, identity, CRUD
handlers, front ends and deployment have no interleaving that a model would add
to: they are computation, one transaction, or pure I/O. The MinerU-compatible API does
have one, the record of a batch that everybody writes back whole, and comes next; its
jobs go to MinerU without a slot, so `AttendedWithinCapacity` is about the pipeline's
jobs only. The legacy agent runtimes are no longer constructed.

## 7. Plan

Done: the modules of section 2 in the order Pipeline, MinerU, webhooks, folders,
knowledge bases, ingest watch, agent gateway, entity graph, unit vectors, the two
abstract specifications, and the proofs of section 5. Next, most important first:

1. `MineruCompat`: the record of a batch in Redis (`api/routes/mineru_compat.py`) with
   two files, an upload or a download from a URL for each, the submissions in the
   background, and polls, each of which reads the record, waits and writes it whole; which
   of them can make a file lose its task or fall back to an earlier state.
2. `Pipeline` with new versions of an asset.
3. The pipeline's graph step and filing as steps of `Pipeline`, so that `EntityGraph` and
   `KnowledgeBases` refine what is one action there.
4. Abstract specifications for the webhook delivery and the agent's turns, as for assets
   and slots.
