------------------------------ MODULE Pipeline ------------------------------
(***************************************************************************)
(* The ingest pipeline of ONE asset: the rows of PostgreSQL, the cached     *)
(* vectors in object storage, the rows of Milvus, and the Celery tasks      *)
(* `pipeline.process_asset` that work on them (core/pipeline/runner.py and  *)
(* steps.py, worker/tasks.py, api/services/assets.py).                      *)
(*                                                                         *)
(* A step of the pipeline is one database transaction that opens with a     *)
(* commit (asset PROCESSING, job RUNNING), works on external stores, and    *)
(* ends with a commit.  Its reads, its writes to object storage and to      *)
(* Milvus, and its final commit are separate actions here, because other    *)
(* tasks of the same asset and the delete request run in between: nothing   *)
(* in the code serialises the tasks of an asset.                            *)
(***************************************************************************)
EXTENDS Naturals, FiniteSets

CONSTANTS
  Task,        \* deliveries of Celery tasks: bounds the submissions
  Workers,     \* worker processes, prefetch 1
  MaxRetries,  \* max_retries of process_asset
  Batch,       \* embedding batches of the asset's units
  Gen,         \* identities a rebuilt set of units can take
  Kind,        \* the flow the asset takes: "document", "image" or "av"
  RetryFrom,   \* steps a user asks to run from
  Faults,      \* which faults of the environment may happen
  MaxFaults    \* bounds how many

ASSUME PipelineAssumption ==
  /\ Task # {} /\ IsFiniteSet(Task)
  /\ Workers \in Nat \ {0}
  /\ MaxRetries \in Nat
  /\ Kind \in {"document", "image", "av"}
  /\ RetryFrom \subseteq {"parse", "chunk", "graph", "embed", "index"}
  /\ Faults \subseteq {"send", "kill", "host", "timeout", "db", "milvus"}
  /\ MaxFaults \in Nat

VARIABLES
  status,   \* asset.status
  del,      \* "live", or how far the delete request has come
  pc,       \* where each task is
  from,     \* from_step argument of each task
  retries,  \* request.retries of each task
  step,     \* the step a running task is at
  prev,     \* previous_status, read when the step began
  seen,     \* version_meta.embed, read when the step began
  read,     \* the units a step has read
  due,      \* those of them the embed step will mark
  units,    \* semantic_units rows of the asset's latest version
  marked,   \* those whose embed_model_version is set
  cache,    \* units with a vector in embed/{asset}/v{n}/vectors.json
  hasCache, \* version_meta.embed is set
  vectors,  \* units with a row in Milvus
  indexed,  \* history: an index job SUCCEEDED
  faults    \* faults so far

taskVars == <<pc, from, retries, step, prev, seen, read, due>>
dataVars == <<units, marked, cache, hasCache, vectors>>
vars == <<status, del, taskVars, dataVars, indexed, faults>>

-----------------------------------------------------------------------------
Step == {"parse", "chunk", "graph", "embed", "index"}
StepAfter == [parse |-> "chunk", chunk |-> "graph", graph |-> "embed",
              embed |-> "index", index |-> "index"]
LastStep == "index"

Status == {"pending", "processing", "ready", "failed"}
Unit == Gen \X Batch

\* Inside _run_step, after the commit that makes the asset PROCESSING.
InStep == {"running", "rebuilding", "embedding", "stored",
           "indexing", "cleared", "upserted"}
\* A worker process has the asset in its hands.
Active == InStep \cup {"between", "deferring"}
\* The task will still act on the asset.
InFlight == Active \cup {"unsent", "queued"}
\* A worker process holds the task: one that is filing is done with the asset's
\* data, its message is not acknowledged yet.
Busy == Active \cup {"filing"}
\* It ended: with success; with a dead letter, the asset FAILED or gone; with a
\* dead letter, the asset left as it was; without a trace.
Label == InFlight \cup {"filing", "unused", "done", "dead", "abandoned", "lost"}

\* Type invariant: every row, store and task stays in its domain; retries never
\* exceeds max_retries and no unit is marked once its row is gone.
TypeOK ==
  /\ status \in Status
  /\ del \in {"live", "deleting", "purged", "unpurged"}
  /\ pc \in [Task -> Label]
  /\ from \in [Task -> Step]
  /\ retries \in [Task -> 0 .. MaxRetries]
  /\ step \in [Task -> Step]
  /\ prev \in [Task -> Status]
  /\ seen \in [Task -> BOOLEAN]
  /\ read \in [Task -> SUBSET Unit]
  /\ due \in [Task -> SUBSET Unit]
  /\ units \in SUBSET Unit
  /\ marked \in SUBSET Unit
  /\ cache \in SUBSET Unit
  /\ hasCache \in BOOLEAN
  /\ vectors \in SUBSET Unit
  /\ indexed \in BOOLEAN
  /\ faults \in 0 .. MaxFaults

\* The asset has just been registered (PENDING, v1) and its first task is
\* about to be sent.
Init ==
  /\ status = "pending"
  /\ del = "live"
  /\ \E first \in Task :
       pc = [t \in Task |-> IF t = first THEN "unsent" ELSE "unused"]
  /\ from = [t \in Task |-> "parse"]
  /\ retries = [t \in Task |-> 0]
  /\ step = [t \in Task |-> "parse"]
  /\ prev = [t \in Task |-> "pending"]
  /\ seen = [t \in Task |-> FALSE]
  /\ read = [t \in Task |-> {}]
  /\ due = [t \in Task |-> {}]
  /\ units = {} /\ marked = {} /\ cache = {} /\ vectors = {}
  /\ hasCache = FALSE
  /\ indexed = FALSE
  /\ faults = 0

Goto(t, l) == pc' = [pc EXCEPT ![t] = l]

-----------------------------------------------------------------------------
(* The API side. *)

\* POST /assets/{id}/retry: the asset is PENDING again, whatever was running.
RetryAsset(t, s) ==
  /\ del = "live" /\ pc[t] = "unused"
  /\ status' = "pending"
  /\ from' = [from EXCEPT ![t] = s]
  /\ Goto(t, "unsent")
  /\ UNCHANGED <<del, retries, step, prev, seen, read, due, dataVars, indexed,
                 faults>>

\* celery.send_task, after the commit.
SendTask(t) ==
  /\ pc[t] = "unsent"
  /\ Goto(t, "queued")
  /\ UNCHANGED <<status, del, from, retries, step, prev, seen, read, due,
                 dataVars, indexed, faults>>

\* Soft delete: committed before the vectors are removed.  The rows of
\* semantic_units stay.
DeleteAsset ==
  /\ del = "live"
  /\ del' = "deleting"
  /\ status' = "failed"
  /\ UNCHANGED <<taskVars, dataVars, indexed, faults>>

DeleteVectors ==
  /\ del = "deleting"
  /\ del' = "purged"
  /\ vectors' = {}
  /\ UNCHANGED <<status, taskVars, units, marked, cache, hasCache, indexed,
                 faults>>

-----------------------------------------------------------------------------
(* The task around the steps. *)

\* A worker process takes a message, which it acknowledges only at the end.
TakeTask(t) ==
  /\ pc[t] = "queued"
  /\ Cardinality({u \in Task : pc[u] \in Busy}) < Workers
  /\ Goto(t, "between")
  /\ step' = [step EXCEPT ![t] = from[t]]
  /\ UNCHANGED <<status, del, from, retries, prev, seen, read, due, dataVars,
                 indexed, faults>>

\* Mutant: version_meta is not read again when a step begins.
BeginStepKeepingMeta(t) ==
  /\ pc[t] = "between" /\ del = "live"
  /\ prev' = [prev EXCEPT ![t] = status]
  /\ status' = "processing"
  /\ Goto(t, "running")
  /\ UNCHANGED <<del, from, retries, step, seen, read, due, dataVars, indexed,
                 faults>>

\* First half of _run_step: the asset and its version are read, the asset is
\* PROCESSING and a RUNNING job exists, committed.
BeginStep(t) ==
  /\ pc[t] = "between" /\ del = "live"
  /\ prev' = [prev EXCEPT ![t] = status]
  /\ seen' = [seen EXCEPT ![t] = hasCache]
  /\ status' = "processing"
  /\ Goto(t, "running")
  /\ UNCHANGED <<del, from, retries, step, read, due, dataVars, indexed,
                 faults>>

\* Mutant: a deleted asset is tried again.
AssetGoneRetried(t) ==
  /\ pc[t] = "between" /\ del # "live"
  /\ Goto(t, "queued")
  /\ UNCHANGED <<status, del, from, retries, step, prev, seen, read, due,
                 dataVars, indexed, faults>>

\* A deleted asset is NotFoundError: no retry, on_failure writes a dead letter.
AssetGone(t) ==
  /\ pc[t] = "between" /\ del # "live"
  /\ Goto(t, "dead")
  /\ UNCHANGED <<status, del, from, retries, step, prev, seen, read, due,
                 dataVars, indexed, faults>>

\* What a task has read is of no use to its next step.
Forget(t) ==
  /\ prev' = [prev EXCEPT ![t] = "pending"]
  /\ seen' = [seen EXCEPT ![t] = FALSE]
  /\ read' = [read EXCEPT ![t] = {}]
  /\ due' = [due EXCEPT ![t] = {}]

\* Mutant: READY comes with the embed step already.
StepSucceededEarlyReady(t) ==
  /\ Forget(t)
  /\ indexed' = (indexed \/ step[t] = "index")
  /\ IF step[t] \in {"embed", LastStep}
     THEN Goto(t, "filing") /\ status' = "ready" /\ UNCHANGED step
     ELSE /\ Goto(t, "between") /\ UNCHANGED status
          /\ step' = [step EXCEPT ![t] = StepAfter[@]]
  /\ UNCHANGED <<del, from, retries, faults>>

\* Second half of _run_step: the commit of a step that succeeded.  The asset
\* row is not read again: a READY overwrites whatever it holds by now.
StepSucceeded(t) ==
  /\ Forget(t)
  /\ indexed' = (indexed \/ step[t] = "index")
  /\ IF step[t] = LastStep
     THEN Goto(t, "filing") /\ status' = "ready" /\ UNCHANGED step
     ELSE /\ Goto(t, "between") /\ UNCHANGED status
          /\ step' = [step EXCEPT ![t] = StepAfter[@]]
  /\ UNCHANGED <<del, from, retries, faults>>

\* After the last step the asset is filed in knowledge bases and a merge of the
\* space is asked for; what fails there is swallowed.  Then, or when the process
\* dies in it, the message is acknowledged.
FileDone(t) ==
  /\ pc[t] = "filing"
  /\ Goto(t, "done")
  /\ UNCHANGED <<status, del, from, retries, step, prev, seen, read, due,
                 dataVars, indexed, faults>>

\* What Celery does with an exception that leaves the task: another attempt
\* from the same from_step while the upstream is the cause and attempts are
\* left, otherwise a dead letter.
TaskRaised(t, upstream) ==
  /\ Forget(t)
  /\ IF upstream /\ retries[t] < MaxRetries
     THEN /\ Goto(t, "queued")
          /\ retries' = [retries EXCEPT ![t] = @ + 1]
     ELSE Goto(t, "dead") /\ UNCHANGED retries
  /\ UNCHANGED <<del, from, step, indexed>>

\* A step raised: the asset is FAILED, then the exception goes on to Celery.
StepFailed(t, upstream) ==
  /\ status' = "failed"
  /\ TaskRaised(t, upstream)
  /\ UNCHANGED faults

\* parse, chunk and graph write version_meta back with the embed key they read
\* when the step began, unless what they write is what they read.
MetaWritten(t) == hasCache' \in {hasCache, seen[t]}

\* Rows of semantic_units another task's open transaction has updated.  An
\* image's row is updated by the flush just before the commit.
LockedByOthers(t) ==
  UNION {due[u] : u \in {v \in Task \ {t} : pc[v] = "stored" /\ Kind # "image"}}

At(t, s) == pc[t] = "running" /\ step[t] = s

-----------------------------------------------------------------------------
(* parse *)

ParseDone(t) ==
  /\ At(t, "parse")
  /\ StepSucceeded(t) /\ MetaWritten(t)
  /\ UNCHANGED <<units, marked, cache, vectors>>

\* Mutant: a parse that finds MinerU busy just ends.
ParseBusyDropped(t) ==
  /\ At(t, "parse") /\ Kind = "document"
  /\ status' = IF prev[t] = "processing" THEN status ELSE prev[t]
  /\ Goto(t, "done")
  /\ UNCHANGED <<del, from, retries, step, prev, seen, read, due, dataVars,
                 indexed, faults>>

\* No MinerU slot is free: the job row is deleted and the status the asset had
\* is put back (no UPDATE when it was PROCESSING already), committed.
ParseBusy(t) ==
  /\ At(t, "parse") /\ Kind = "document"
  /\ status' = IF prev[t] = "processing" THEN status ELSE prev[t]
  /\ Goto(t, "deferring") /\ Forget(t)
  /\ UNCHANGED <<del, from, retries, step, dataVars, indexed, faults>>

\* Then a new task with the same arguments and no retries is sent, and this one
\* ends.
SendAgain(t) ==
  /\ pc[t] = "deferring"
  /\ Goto(t, "queued")
  /\ retries' = [retries EXCEPT ![t] = 0]
  /\ UNCHANGED <<status, del, from, step, prev, seen, read, due, dataVars,
                 indexed, faults>>

-----------------------------------------------------------------------------
(* chunk *)

\* The chunk cache key matches.  The key covers the settings, the model, the
\* space's overrides and the request's, none of them modelled: it may match or
\* not whenever there are units.
ChunkSkip(t) ==
  /\ At(t, "chunk") /\ Kind = "document" /\ units # {}
  /\ StepSucceeded(t)
  /\ UNCHANGED dataVars

\* _delete_units selects the rows it will delete.
ChunkRead(t) ==
  /\ At(t, "chunk")
  /\ Goto(t, "rebuilding")
  /\ read' = [read EXCEPT ![t] = units]
  /\ UNCHANGED <<status, del, from, retries, step, prev, seen, due, dataVars,
                 indexed, faults>>

\* Identities no row, vector or task holds: the key is a uuidv7.
FreshGen ==
  LET held == units \cup cache \cup vectors \cup UNION {read[t] : t \in Task}
  IN  {g \in Gen : \A b \in Batch : <<g, b>> \notin held}

\* The selected rows go, those still there, and a new set of units comes.  The
\* DELETE waits for the row locks of another task's embed step.
ChunkCommit(t) ==
  /\ pc[t] = "rebuilding"
  /\ read[t] \cap LockedByOthers(t) = {}
  /\ \E g \in FreshGen : units' = (units \ read[t]) \cup ({g} \X Batch)
  /\ marked' = marked \ read[t]
  /\ StepSucceeded(t) /\ MetaWritten(t)
  /\ UNCHANGED <<cache, vectors>>

-----------------------------------------------------------------------------
(* graph: a failure only marks graph_status, and the pipeline goes on. *)

GraphDone(t) ==
  /\ At(t, "graph")
  /\ StepSucceeded(t) /\ MetaWritten(t)
  /\ UNCHANGED <<units, marked, cache, vectors>>

-----------------------------------------------------------------------------
(* embed *)

\* Mutant: every kind of asset embeds only what has no mark.
EmbedChoiceUnmarked == {units \ marked}

\* A document embeds the units without a mark, possibly none; audio and video
\* all units; an image one unit.
EmbedChoice ==
  CASE Kind = "document" -> {units \ marked}
    [] Kind = "av"       -> {units} \ {{}}
    [] Kind = "image"    -> {{u} : u \in units}

EmbedRead(t) ==
  /\ At(t, "embed")
  /\ \E r \in EmbedChoice :
       /\ read' = [read EXCEPT ![t] = r]
       /\ due' = [due EXCEPT ![t] = r \ marked]
  /\ Goto(t, "embedding")
  /\ UNCHANGED <<status, del, from, retries, step, prev, seen, dataVars,
                 indexed, faults>>

\* An image, audio or video without units is a ValidationError.
EmbedNothing(t) ==
  /\ At(t, "embed") /\ EmbedChoice = {}
  /\ StepFailed(t, FALSE)
  /\ UNCHANGED dataVars

\* Each batch is embedded, marked and flushed; then vectors.json is
\* overwritten with what this run embedded.
\* Mutant: the marks are not flushed before the vectors are stored.
EmbedStoreUnlocked(t) ==
  /\ pc[t] = "embedding"
  /\ cache' = read[t]
  /\ Goto(t, "stored")
  /\ UNCHANGED <<status, del, from, retries, step, prev, seen, read, due,
                 units, marked, hasCache, vectors, indexed, faults>>

EmbedStore(t) ==
  /\ pc[t] = "embedding"
  /\ Kind # "image" =>
       due[t] \subseteq units /\ due[t] \cap LockedByOthers(t) = {}
  /\ cache' = read[t]
  /\ Goto(t, "stored")
  /\ UNCHANGED <<status, del, from, retries, step, prev, seen, read, due,
                 units, marked, hasCache, vectors, indexed, faults>>

\* A flush updates a row that is gone: StaleDataError, all is rolled back.
EmbedStale(t) ==
  /\ pc[t] = IF Kind = "image" THEN "stored" ELSE "embedding"
  /\ ~ due[t] \subseteq units
  /\ StepFailed(t, FALSE)
  /\ UNCHANGED dataVars

\* The AI provider or the object store fails midway: the commit that makes the
\* asset FAILED commits the marks made so far as well.
EmbedFailed(t, done, upstream) ==
  /\ pc[t] = "embedding"
  /\ done \subseteq units \ LockedByOthers(t)
  /\ StepFailed(t, upstream)
  /\ marked' = marked \cup done
  /\ UNCHANGED <<units, cache, hasCache, vectors>>

EmbedCommit(t) ==
  /\ pc[t] = "stored"
  /\ Kind = "image" => due[t] \subseteq units
  /\ marked' = marked \cup due[t]
  /\ hasCache' = TRUE
  /\ StepSucceeded(t)
  /\ UNCHANGED <<units, cache, vectors>>

-----------------------------------------------------------------------------
(* index *)

\* No marked unit, or no cached vectors: ValidationError.
NothingToIndex(t) == units \cap marked = {} \/ ~ seen[t]

IndexNothing(t) ==
  /\ At(t, "index") /\ NothingToIndex(t)
  /\ StepFailed(t, FALSE)
  /\ UNCHANGED dataVars

\* The rows to upsert: a marked unit whose vector the cache lacks is skipped.
IndexRead(t) ==
  /\ At(t, "index") /\ ~ NothingToIndex(t)
  /\ read' = [read EXCEPT ![t] = units \cap marked \cap cache]
  /\ Goto(t, "indexing")
  /\ UNCHANGED <<status, del, from, retries, step, prev, seen, due, dataVars,
                 indexed, faults>>

\* Mutant: the old vectors are not removed.
IndexDeleteSkipped(t) ==
  /\ pc[t] = "indexing"
  /\ Goto(t, "cleared")
  /\ UNCHANGED <<status, del, from, retries, step, prev, seen, read, due,
                 dataVars, indexed, faults>>

IndexDelete(t) ==
  /\ pc[t] = "indexing"
  /\ vectors' = {}
  /\ Goto(t, "cleared")
  /\ UNCHANGED <<status, del, from, retries, step, prev, seen, read, due,
                 units, marked, cache, hasCache, indexed, faults>>

IndexUpsert(t) ==
  /\ pc[t] = "cleared"
  /\ vectors' = vectors \cup read[t]
  /\ Goto(t, "upserted")
  /\ UNCHANGED <<status, del, from, retries, step, prev, seen, read, due,
                 units, marked, cache, hasCache, indexed, faults>>

IndexCommit(t) ==
  /\ pc[t] = "upserted"
  /\ StepSucceeded(t)
  /\ UNCHANGED dataVars

-----------------------------------------------------------------------------
(* Failures. *)

\* What parse, chunk and index do outside the database fails, because of the
\* upstream or not.
StepFail(t, upstream) ==
  /\ \/ At(t, "parse")
     \/ At(t, "chunk")
     \/ At(t, "index") /\ ~ NothingToIndex(t)
     \/ pc[t] \in {"indexing", "cleared"}
  /\ StepFailed(t, upstream)
  /\ UNCHANGED dataVars

Fault(kind) ==
  /\ kind \in Faults /\ faults < MaxFaults
  /\ faults' = faults + 1

\* PostgreSQL fails: the step's transaction is rolled back and the separate
\* session that records the failure may fail as well, or not be tried when it
\* is the first or the last commit of the step that fails.  The exception is
\* no UpstreamUnavailableError: Celery does not try again.
DbFault(t, recorded) ==
  /\ Fault("db")
  /\ pc[t] \in InStep \cup {"between"} /\ (recorded => pc[t] \in InStep)
  /\ IF recorded
     THEN Goto(t, "dead") /\ status' = "failed"
     ELSE Goto(t, "abandoned") /\ UNCHANGED status
  /\ Forget(t)
  /\ UNCHANGED <<del, from, retries, step, dataVars, indexed>>

\* The process that runs the task dies (hard time limit, out of memory): the
\* parent acknowledges the message and on_failure does not run.
Kill(t) ==
  /\ Fault("kill")
  /\ pc[t] \in Active
  /\ Goto(t, "lost") /\ Forget(t)
  /\ UNCHANGED <<status, del, from, retries, step, dataVars, indexed>>

\* The whole worker dies: Redis delivers the message again after the
\* visibility timeout.
HostCrash(t) ==
  /\ Fault("host")
  /\ pc[t] \in Busy
  /\ Goto(t, "queued") /\ Forget(t)
  /\ UNCHANGED <<status, del, from, retries, step, dataVars, indexed>>

\* The visibility timeout passes over a message that a worker still holds, at
\* work on it or with its countdown running: Redis delivers it a second time.
Redeliver(t, u) ==
  /\ Fault("timeout")
  /\ pc[t] \in Busy \cup {"queued"} /\ pc[u] = "unused"
  /\ Goto(u, "queued")
  /\ from' = [from EXCEPT ![u] = from[t]]
  /\ retries' = [retries EXCEPT ![u] = retries[t]]
  /\ UNCHANGED <<status, del, step, prev, seen, read, due, dataVars, indexed>>

\* The API process dies, or the broker fails, between commit and send_task; or
\* the broker fails a task that sends itself again.
SendLost(t) ==
  /\ Fault("send")
  /\ \/ pc[t] = "unsent" /\ Goto(t, "lost")
     \/ pc[t] = "deferring" /\ Goto(t, "abandoned")
  /\ UNCHANGED <<status, del, from, retries, step, prev, seen, read, due,
                 dataVars, indexed>>

\* Milvus fails after the delete is committed: nothing tries again.
PurgeFail ==
  /\ Fault("milvus")
  /\ del = "deleting"
  /\ del' = "unpurged"
  /\ UNCHANGED <<status, taskVars, dataVars, indexed>>

-----------------------------------------------------------------------------
RunStep(t) ==
  \/ TakeTask(t) \/ BeginStep(t) \/ AssetGone(t) \/ FileDone(t)
  \/ ParseDone(t) \/ ParseBusy(t) \/ SendAgain(t)
  \/ ChunkSkip(t) \/ ChunkRead(t) \/ ChunkCommit(t)
  \/ GraphDone(t)
  \/ EmbedRead(t) \/ EmbedNothing(t) \/ EmbedStore(t) \/ EmbedStale(t)
  \/ EmbedCommit(t)
  \/ IndexNothing(t) \/ IndexRead(t) \/ IndexDelete(t) \/ IndexUpsert(t)
  \/ IndexCommit(t)
  \/ \E upstream \in BOOLEAN : StepFail(t, upstream)
  \/ \E upstream \in BOOLEAN, done \in SUBSET due[t] :
       EmbedFailed(t, done, upstream)

Disaster(t) ==
  \/ \E recorded \in BOOLEAN : DbFault(t, recorded)
  \/ Kill(t) \/ HostCrash(t) \/ SendLost(t)

Next ==
  \/ \E t \in Task :
       \/ \E s \in RetryFrom : RetryAsset(t, s)
       \/ SendTask(t)
       \/ RunStep(t)
       \/ Disaster(t)
       \/ \E u \in Task : Redeliver(t, u)
  \/ DeleteAsset \/ DeleteVectors \/ PurgeFail

Spec == Init /\ [][Next]_vars

\* The worker processes run, the queue is first in first out so that a task
\* that waits is taken in the end, and a parse that finds MinerU busy again
\* and again finds a free slot in the end.
Fairness ==
  /\ WF_vars(DeleteVectors)
  /\ \A t \in Task :
       /\ WF_vars(SendTask(t))
       /\ SF_vars(TakeTask(t))
       /\ SF_vars(ParseDone(t))
       /\ WF_vars(RunStep(t))

FairSpec == Spec /\ Fairness

-----------------------------------------------------------------------------
(* What a user sees: a deleted asset is filtered out (get_live), whatever its status. *)
Shown == IF del = "live" THEN status ELSE "deleted"
Hands == {t \in Task : pc[t] \in InFlight}
Dropped == \E t \in Task : pc[t] \in {"abandoned", "lost"}

Asset == INSTANCE AssetLifecycle
           WITH Run <- Task, shown <- Shown, hands <- Hands, dropped <- Dropped, earned <- indexed

-----------------------------------------------------------------------------
(* Properties. *)

\* A live asset waits (PENDING, PROCESSING) only for a task that will still
\* act on it.  One is left waiting for ever only when PostgreSQL failed under
\* its task, or the task was lost with a killed process or a send_task that
\* never came (runner.py 124-168, tasks.py 173-186, assets.py 386-399).
StallIsAccounted ==
  /\ del = "live"
  /\ status \in {"pending", "processing"}
  /\ \A t \in Task : pc[t] \notin InFlight
  => \E t \in Task : pc[t] \in {"abandoned", "lost"}

\* READY is shown only after an index step succeeded once, whatever
\* previous_status a deferred parse puts back (runner.py 133-141).
ReadyHasBeenIndexed == status = "ready" => indexed

\* The tasks implement the asset a user may rely on (AssetLifecycle): every commit
\* of a step, a retry, a deferral, a fault or a deletion shows him one step of it or
\* nothing (runner.py 105-202, tasks.py 173-186, assets.py 300-399).
IsAssetLifecycle == Asset!Spec

\* Between the flush and the commit of an embed step the rows it marks stay:
\* a concurrent rebuild waits for their locks, so no vector is recorded as
\* embedded for a unit that is gone (steps.py 630-644, 414).
MarksKeepTheirRows ==
  /\ marked \subseteq units
  /\ Kind # "image" =>
       \A t \in Task : pc[t] = "stored" => due[t] \subseteq units

\* With one worker, the vectors of a READY asset are vectors of units it has:
\* the index step clears the old ones before it writes (steps.py 730-731).
IndexNeverStale ==
  del = "live" /\ status = "ready" => vectors \subseteq units

\* The reruns that the step design promises: a READY asset is searchable, all
\* of its units have a vector in Milvus (steps.py 9, image_flow.py 215-252,
\* media_flow.py 566-628).
ReadyIsSearchable ==
  del = "live" /\ status = "ready" => units # {} /\ vectors = units

\* With one worker, version_meta.embed is never lost: each step writes
\* version_meta back whole from what it read at its start (steps.py 158, 473).
EmbedMetaIsKept == [][hasCache => hasCache']_vars

\* Some step fails at what it does outside the database.
Failure ==
  \E t \in Task, upstream \in BOOLEAN :
    \/ StepFail(t, upstream)
    \/ \E done \in SUBSET due[t] : EmbedFailed(t, done, upstream)

\* Every task comes to an end unless steps fail for ever.  The exception is
\* real: a deferred parse is a new task with no retries (tasks.py 177-186), so
\* max_retries does not bound a task that is deferred between its failures.
Settles ==
  []<><<Failure>>_vars \/ <>[](\A t \in Task : pc[t] \notin InFlight \cup Busy)
=============================================================================
