# A verification project for the AI data pipeline

TLA+ modules that model the services of this repository, the TLC configurations
that check them on small instances, and theorems that TLAPS proves for every
instance. The code is the reference: every definition is translated from it, and
`PROJECT.json` ("map") says from which lines.

    tlc -config MCDocProcessor_rebalance.cfg MCDocProcessor    # one run
    tlapm DocProcessorProofs.tla                               # one module of proofs

Contents: [the system](#the-system), [the modules](#the-modules),
[the runs](#the-runs), [bounds](#bounds), [fairness](#fairness),
[the proofs](#the-proofs), [disagreements](#where-code-and-documents-disagree),
[the plan](#the-plan), [what is not modelled](#what-is-not-modelled).

## The system

Files of a tenant's sources become vectors in a tenant's Milvus collection, and
queries are answered from it.

    connector-s3, connector-nfs --raw-documents--> doc-processor
        doc-processor --document-chunks--> embedding-worker --rows--> Milvus
        all of them --metadata-events--> metadata-service (PostgreSQL)
    client -> Kong (quota plugin) -> rag-api -> Redis cache, circuit breaker, Milvus
    bff -> ConfigMaps and DataConnector resources -> pipeline-operator -> workloads
    quota-service (Redis, PostgreSQL) answers Kong and the bff

Each service is a deployment of one replica; a rolling update, a restart, or an
operator who scales it makes two of them live side by side for a while.

| component | its state | its operations | talks to |
|---|---|---|---|
| connector-s3 | the watermark (Redis), the PostgreSQL connection | `poll`: list, filter, announce in `source_file_status`, publish, move the watermark; `main`: poll for ever, reconnect | MinIO, Kafka, Redis, PostgreSQL |
| connector-nfs | the queue watchdog's thread fills, the set of known files (Redis) | `poll`: drain the queue or compare the tree with the known files, announce, publish, remember | the mount, Kafka, Redis, PostgreSQL |
| doc-processor | the group's offsets, two producers' queues, the event at hand | `run`, `_process_message`: fetch, parse, chunk, publish with retry, flush, commit; `_route_to_dlq` | Kafka, MinIO or the mount |
| embedding-worker | the group's offsets, a batch of chunks, its connection, the collections | `_collect_batch`, `_process_batch`: embed, upsert per tenant, publish, write statuses, flush, commit; `_send_to_dlq` | Kafka, Milvus, PostgreSQL, an embedding backend |
| metadata-service | entities, edges, quality checks, schema versions (PostgreSQL); the consumer's position and connection | `run`, `process_event`; `create_schema_version`; read-only queries | Kafka, PostgreSQL |
| rag-api | the circuit breaker of each pod, the cache (Redis) | `query`: cache, embed, search through the breaker, filter, cache; `/v1/health` | Redis, Milvus |
| quota-service | counters with a time to live, deduplication keys (Redis), limits (PostgreSQL) | `check_quota`, `record_usage`, `get_usage` | Redis, PostgreSQL |
| pipeline-operator | Kubernetes objects, the status of its resources | `reconcile_connector`, `delete_connector`, `reconcile_workspace`, `reconcile_embedding`, `reconcile_pipeline_cluster` | the Kubernetes API, Kafka |
| bff | ConfigMaps and custom resources | create, edit, pause, resume and delete a source; tenants; users; uploads | the Kubernetes API, Keycloak, quota-service, MinIO, Kafka |
| sdk/python | none | requests with retries | bff, rag-api |
| frontend, k8s, db, scripts | forms; manifests; migrations; development tools | | |

What is hard in each, and what makes it correct:

* **doc-processor, embedding-worker.** Offsets are committed by hand and
  asynchronously while the group takes partitions away, expels slow members and
  restarts dead ones; `produce` only queues, `flush(timeout)` may run out, and its
  result is ignored. Correct means: no message is passed by the committed offset
  before somebody has finished with it; what is committed is at the broker or in
  Milvus, or is a dead letter; commits do not rewind the group; every message
  comes out in the end; the lag drains.
* **connector-s3.** One watermark stands for a whole bucket that changes while it
  is listed page by page; publications, statements, Redis and the pod fail half
  way. Correct means: the watermark covers no file without an event, goes forward
  only, and redelivery is bounded by the attempts that raised and the polls that failed.
* **connector-nfs.** A thread fills the queue that a poll drains, and a poll that
  fails has drained it. Correct means: a file that stays gets an event.
* **rag-api.** A breaker whose state changes when it is read and whose count of
  failures successes do not reset; cached answers outlive what they were computed
  from, and pods store them in any order. Correct means: an answer is its own
  question's, from its own tenant's collection, and does not go back in time
  without a reason; refusals end when Milvus is back.
* **quota-service.** Increment, comparison and rollback are separate commands on a
  key that expires. Correct means: never more admitted than the limit, and what
  was refused leaves no trace.
* **metadata-service.** Events come in any order, nothing is ever committed to
  Kafka, so a restart or a rebalance replays everything; a failed statement poisons the
  transaction, what Python refuses leaves it open, and most exceptions are swallowed, that
  of a failed startup as well. Correct means: a replay repairs
  what order and failures left out; rows, marks and announcements of failed checks
  agree; versions are numbered once and the newest is current, although concurrent
  transactions do not see each other.
* **pipeline-operator.** Handlers are called again from their beginning after an
  exception or a crash, with whatever the spec is by then, and resources share
  objects. Some errors are swallowed, and some specs can never be applied. Correct means:
  objects and settings follow the resources in the end; a change of dimension needs its
  confirmation (which the deployed guard does not see to).
* **bff.** A source is a ConfigMap and a custom resource, written and deleted one
  after the other, and edited by reading and writing all of it; a call may be carried out and its answer lost.
  Correct means: what was written is kept, and no object is left that nobody can delete.

`PROJECT.json` lists each of these hazards at its line, with the properties that
look for it or why none does.

## The modules

**`ConsumerGroup`** is Kafka as the workers use it; it is external to the
repository. Partitions are constant logs. `owner`, `joined` and `position` are the
assignment, the membership in the current generation and the owner's read
position, all three of which a restart loses; `committed` is the group's offset,
which survives. `Commit` only sends a request (confluent-kafka's
`commit(message=msg)` is asynchronous), `CommitLands` is its arrival. The
coordinator refuses requests of members it has expelled but checks neither that
the sender owns the partition nor that the offset moves forward: as in Kafka, a
late commit may rewind a group. A rebalance reaches a member only when it polls
(`Revoke`); a member that does not poll in time is removed without noticing
(`Expel`) and joins again at its next poll (`Rejoin`).

**`AtLeastOnceStage`** is the promise: `resume` never passes an unfinished
message. It may go back, and a message may be finished with more than once.

**`DocProcessor`** EXTENDS `ConsumerGroup`. `pc`, `job`, `produced` and `reason` are
the locals of `_process_message`; `outbox` and `dlqOutbox` are the queues of the
two producers; `documentChunks` and `dlq` are the topics. Each exit of
`_process_message` is an action: `SkipMalformed` (105-110), `FetchFails` (114-121,
all attempts of `fetch_content_with_retry`), `ParseFails` (123-132), `NoChunks`
(134-139), `ChunkingRaises` (134: outside of every `try`), then `StartPublishing`,
`ProduceChunk`, `ProduceFails`, `FlushReturns` and `FlushRaises` for
`_publish_chunks` and the commit, `ProduceDeadLetter` and `DeadLetterDone` for
`_route_to_dlq`. `DeliverChunk`, `DeliverDeadLetter` and `DeliveryFails` are the
producers' threads. An event is what the processor will make of it: malformed,
corrupt, unencodable, or a text of some number of chunks; a chunk is its place in
that text, since `chunk_id` is a function of the event and the index.
`settled` and `lost` are history variables: the events some `_process_message` has
returned from, and those of which a record may be lost unnoticed.

**`EmbeddingWorker`** EXTENDS `ConsumerGroup` too. A worker polls while it holds a
batch (`Collect`), so `Revoke` and `Assign` happen with messages in hand, which
`DocProcessor` never does. `UpsertTenant` is one turn of the loop over
`tenant_rows` in the order tenants first come up, `Publish` one turn of the loop
that produces an event and writes a status, `CommitMessage` one of the loop of
commits. `UpsertFails` dead-letters the whole batch (`SendToDlq` per message) and
commits nothing. `indexed` holds files, not chunks, as `update_source_file_status` writes
by `source_id`: the first chunk of a file that is stored makes all of it indexed. `connection` is the one PostgreSQL connection that `main` opens.
An exception nobody catches (`produce` on a full queue, `_send_to_dlq`) ends the
process and is part of `Crash`.

**`S3Connector`**. `bucket` gives each name its last modification, `published`
counts the events of each version, `watermark` is in Redis. `poll` is a generator
over a lazy listing: `NextPage` reads the bucket when the page before is used up,
and objects change in between (`Upload`). `Skip`, `Reject`, `Announce`, `Publish`,
`PublishFails` are the ways through its body, `EndPoll` sets the watermark.
`Publish` and `PublishFails` are one attempt each of `_publish_with_retry`, which makes
up to `Attempts` of them (`attempt` counts those that have raised): every attempt
produces again, and the copy of one whose flush raised is out, or never will be
(`Copy`). After the last attempt the object is passed by.
`PollFails`, `ConnectionLost`, `Reconnect` and `StatementRefused` are the
exceptions `main` catches and what it does about each: a new connection for a lost
one, nothing for an aborted transaction. (`EveryVersionPublished` excepts
that state: no poll gets past its first new file until the pod restarts.) `missed`
is a history variable: the versions a poll may pass without an event.

**`NFSConnector`**. `queue` is what watchdog's thread has put in it while it is
`alive` (`Write`, with its event noticed or not), `known` is the set in Redis.
`StartPoll` drains the queue, or takes the files that are not known if the thread is
dead; `Vanished`, `Announce`, `Publish`, `PublishFails` (one attempt each, as in
`S3Connector`) and `Remember` are the turn of the loop for one path. What has been drained is in `todo`, a local: every
exception `main` catches (`RememberFails`, `ConnectionLost`, `Reconnect`,
`StatementRefused`, each by way of `Abort`) and every restart loses it. `content`
says of each file whether it has had an event since it was last written, `missed`
(history) which files nobody will look for again until they change.

**`QuotaService`**. The counter of one metric of a tenant, with or without a time to
live, and the keys of the event ids seen. A thread is idle or before one Redis
command: `IncrBy` (the transaction of INCRBY and EXPIRE, 149-152) allows the call or
leads to `DecrBy` (155); `SetEx` (216) and `Add` (218) are the two writes of
`record_usage`. `IncrByFails`, `DecrByFails` and `RecordFails` are an exception of the
client, with the command executed or not. `Expire` ends the period; a thread may
outlive it (`stall`) and take back from the new period what it added to the old
one. What the period has admitted, recorded, leaked and been forgiven is history.

**`RagQuery`**. A pod is idle or serves one query (`query_endpoint` is a coroutine
that calls the synchronous `query` and so holds the event loop), which is before the
GET, the search or the SETEX. `Hit`, `Miss`, `GetRefused` (Python's own
`ConnectionError`, which is caught) and `GetFails` (redis-py's, which is not) are the
lookup (79-130); `EmbedFails`, `Refuse`, `Search` and `SearchFails` go through the
breaker, whose `State` (24-29) makes an open one half-open when `rested` says that the
timeout has passed; `Store`, `StoreRefused`, `SkipStore` and `StoreFails` are the end; a
SETEX that fails may have been carried out. `Health` reads the breaker too. An answer is abstracted to its question, its tenant
and the version of the collection it was computed from. `served`, `excused` and `streak` are
history: the newest version a key's caller has seen, the keys whose answer may be
older for a known reason, and the failed searches in a row.

**`MetadataConsumer`**. The consumer thread, statement by statement: `Upsert`, one
`Edge` per upstream reference, `InsertChecks`, `Mark`, `Alert`, `Commit`, and a failing
form of each. `db` is what is committed, `tx` what the open transaction sees, `conn`
the state of the one connection. A statement that PostgreSQL refuses aborts the transaction,
which only a COMMIT (that is then a rollback) ends; a lost connection stays lost. What is
refused before it is sent (`Refused`: a value psycopg2 cannot adapt, a key the event
lacks) aborts nothing, and nobody rolls back: `ChecksBreakOff` leaves the checks it has
inserted in the open transaction, and the COMMIT of the next event keeps them. An event
is an entity with the outcomes of its checks, and an entity may be reported again with
others: `Upsert` replaces its attributes, and with them its mark. `suspect` says, for
the properties, of which entities the attributes are those of an event with a failed
check. `Read` advances a position that nothing saves; `Restart`, with a new connection, and
`Rebalance`, with the old one, set it back to the beginning (`Replay`). `StartFails`
is a process that could not reach PostgreSQL when it started: it has no consumer, and
nothing but its end changes that. Publishers key an event by a random id, so `Publish` puts it
in any partition. An event of another type is passed by (`Ignore`), as are the bff's
uploads, which have no type at all. One process is assumed, the deployment's one replica
(`k8s/pipeline/metadata-service.yaml:15`); a rolling update, during which two share the
partitions, is for each of them a rebalance.

**`SchemaVersions`** is `create_schema_version` as PostgreSQL runs it at READ
COMMITTED: `StartUpdate` fixes the rows that the UPDATE changes, `FinishUpdate` waits
for their locks, `Insert` reads the highest number committed by then, `Commit` makes
the row visible, unless its number is taken (`UniqueViolation`). `overlap` (history):
two transactions were open at once.

**`EmbeddingConfig`** EXTENDS it with the operator's handler of EmbeddingConfig
resources, as it is deployed: `Begin`, `Post` (the call to the metadata service, not made
for a spec without a `tenantId`: `SkipPost`), `Answered` or `TimesOut`, `Patch` of the
ConfigMap, `Restart` of the worker, after which kopf records the spec as the one handled
last. `ReconcileFails` may come at any step; the handler then begins again with
the spec as it is then. The guard of the dimension (`Blocked`) is translated as it
stands: it looks for a spec in `old` and `new` (`SpecIn`), which kopf has reduced to the
spec, and so blocks nothing. The ConfigMap may be deleted and created again (`DeleteMap`,
`CreateMap`, which the bff does too); that it is not there is swallowed by `Patch`.
The CRD of this repository has no `tenantId`: with it the API server prunes the field and no
version is ever recorded. Specs with one stand for the resources that the code and the tests
expect.

**`ConnectorOperator`**. The handlers of DataConnector and TenantWorkspace. `ApplyOrder`
and `DeleteOrder` are the sequences of API calls; a handler holds the ones it has yet
to make, and works on one at a time (`Apply`, `Erase`), side by side with the handlers
of other resources. A plan is what `spec.pollInterval` makes of a connector: a cron
job, a deployment, or a cron job whose schedule the API server refuses (`0m` becomes `*/0`):
`ScheduleRefused` ends the handler of such a spec at its last call, each time it is called
again. `Shared` is the object several resources have in common.
`abandoned` (history): workloads of specs that were changed later.

**`UserSources`**. The bff's calls on sources: `Create` and `CreateResource`, `Get` and
`Patch` of the whole data, `DeleteConfig` and `DeleteResource`, each two calls of the
API server with other callers between them. `DeleteConfigLost` is a deletion that was
carried out and whose answer was lost; a patch whose answer is lost is `Patch`, since
what the caller is told makes no difference to what is kept.

**`ControlPlane`** puts the last two side by side: every step is one of the operator or
one of the bff. They have no object in common (the bff names an API group that the
manifests neither define nor allow it, so what it creates never reaches the operator).
`MCControlPlane` makes use of that: a behaviour takes the steps of connectors, of
workspaces, of sources, or of the EmbeddingConfig and the versions it records, and TLC
need not interleave the four.

**`MC...`** modules give the constants their small values, and **`...Proofs`**
modules hold the theorems: `DocProcessorProofs`, `EmbeddingWorkerProofs`,
`S3ConnectorProofs`, `NFSConnectorProofs` and `RagQueryProofs` those of the module
named; `EmbeddingConfigProofs` those of `SchemaVersions` too, `ControlPlaneProofs` those
of `ConnectorOperator` and `UserSources`. `AccountingProofs` has the two components whose
invariants are accounts, `QuotaService` (of a counter) and `MetadataConsumer` (of rows).

**`Faults`** is what all of these have in common: the kinds of fault that may happen, how
many in all, and how many have. Each module takes a fault (`Fault(kind)`) where its code
meets one, and says in the comment there which.

Definitions whose comment begins with *Wrong* are not part of the specifications.
Each is a plausible slip in the code (a commit too early, a forgotten flush, a
dropped message); put in the place of the definition it imitates, it breaks the
property that is there to catch it. `PROJECT.json` ("mutants") pairs them.

## The runs

| run | asks | answer |
|---|---|---|
| `processor_rebalance` | Do two workers under three faults of any kind keep `NothingSkipped` and `CommittedDelivered`? | yes |
| `processor_liveness` | Does the processor implement the stage, does every kind of event come out, and does the lag in the end consist of failed publications only? | yes: all other faults cost data at worst, not progress |
| `processor_failed_publication` | Is an event whose publication failed left uncommitted, as the tests say? | no: the next event's commit passes it |
| `embedder_batches` | While partitions move under a batch, under one fault of any kind: `NothingSkipped`, `CommittedDelivered`, `ReportedStored`; does the worker implement the stage, and does every chunk come out? | yes; but a file counts as indexed once one of its chunks is stored |
| `s3_polls` | In a bucket of two pages that changes under the poll, with three faults of any kind: does the watermark cover only published or excusably missed versions, is every event announced first, are duplicates paid for by attempts that raised and polls that failed, and is every version that stays published? | yes |
| `nfs_polls` | With two files, four writes and three faults of any kind, in both modes: is every changed file in the queue, in the poll's hands or in the difference that the next poll finds, unless a failure has lost it; is it announced before its event; are duplicates paid for by faults, each attempt that raised being one; is every file that stays served? | yes |
| `quota_calls` | With two threads and three faults of any kind: does what is admitted stay within the limit, is the counter what was admitted and recorded but for what failures left in it, is an event id counted once, and is one taken for seen counted? | yes, but for two calls for one id between EXISTS and SETEX (`raced`) and calls that fail after SETEX (`dropped`) |
| `rag_queries` | With two pods, two tenants and three faults of any kind, while collections are written and keys expire: is what is cached its key's, and no older than a former answer but for a named reason; is the breaker shut exactly from the threshold of counted failures on, and does it count every failure in a row; do refusals end? | yes |
| `rag_consecutive` | Do only failures in a row open the breaker, as its log line and the documents say? | no: a success of the closed breaker does not reset the count |
| `metadata_events` | With three events in two partitions and two faults of any kind, rebalances and failed startups among them: has a process without failures stored what it read, and its replay mended the lineage (`ReplayRepairs`); does the mark of an entity follow its latest event, and is a stored failed check announced unless just that failed or its checks broke off (`FailuresKnown`); are checks stored once for each reading of the topic; does the consumer always get to the end of it, if one was started? | yes |
| `control_objects` | Two connectors or two workspaces with a shared object, three edits, two failures of handlers: is a running connector complete, does a deleted one leave nothing, is everything handled in the end? Two calls of the bff on two sources at once: is what was written kept, are orphans explained? Two edits of an EmbeddingConfig, four specs and two faults: are version numbers unique and is the newest current; do calls overlap, and so leave two versions current, only after a fault; do the settings follow the resource in the end? | yes, but for a shared object another resource's deletion took along, the workload of a replaced spec, a schedule that is refused, edits that overlap, deletions that failed halfway or whose answer was lost, a ConfigMap that was deleted, and a spec set back to the one handled last after another was half applied |
| `embedding_dimension` | Is a change of the dimension blocked until it is confirmed, as the resource's documentation says? | no: the deployed guard has nothing to compare |

Deadlock is not checked in the runs of the two stages, of the queries, of the
metadata events and of the control plane: their logs, edits and calls are finite,
and who has processed everything waits. The connectors poll for ever and the
quota service waits for calls; they are checked for deadlock.

`NothingSkipped` compares offsets with the history of `settled` messages: an
off-by-one in a commit, a commit before the work, or one that a stale member gets
through would break it. `CommittedDelivered` compares offsets with topics and
tables. What the code can lose without noticing is not left out of the runs: it is
recorded, message by message, in the history variables `lost` (a flush that timed
out, a record that expired, a dead letter that failed, for this very message) and
`missed` (a version a poll may pass: its publication failed or was not delivered,
or it was written behind the listing or at the time of the watermark), and the
properties say that nothing else is missing. `EventsFollowVersions` joins three
statements about the bucket, the watermark, the topic and the table:
`WatermarkCovers`, `PublishedAnnounced` and `DuplicatesNeedFaults`; the last says that a version of a file has at most one
event more than there were attempts that raised and polls that failed, whatever the
interleaving of uploads and polls. One publication of five attempts may so cost five
events; a fault is an attempt, not a publication.

`EventsFollowFiles` does the same for the mount. Its `NoneForgotten` relates four places where a changed file may be looked for, two of
them in the memory of a poll and of a thread; it says that `missed` is complete. In
observer mode a file whose publication fails is one of these: the code does not
mark it as known, but nobody reads the set of known files while the thread lives.
`CounterExplained` accounts for the counter under any interleaving of increments
and rollbacks; `AdmittedWithinLimit` follows from it only because no rollback lowers
the counter by more than was added in the period (`forgiven` is the exception). `EventsCounted`
is about both halves of the deduplication: nothing twice, nothing dropped.

`CacheSound` would be broken by a pod that stores an old answer over a newer one for
any reason but the two that the run names, both of which the code allows: a second
pod that computed the same answer, and a Redis that was away at the GET only. Neither
lasts longer than the key. `BreakerTrips` says what the breaker really counts:
failures since the last good probe, every one in a row among them. That it counts others as
well is what `OpensOnConsecutiveFailures` is violated by.

`ReplayRepairs` needs the restart to read the whole topic: a consumer that resumed
would leave the lineage as the order of arrival happened to make it. `FailuresKnown`
says what is left of the agreement of rows, marks and announcements. The mark is that of
the latest event, because the upsert overwrites it, while failed rows of earlier events
stay. It is never missing though the statement that sets it may fail and have its exception
swallowed, because PostgreSQL refuses everything after such a statement; it would be with
autocommit or savepoints. An announcement may fail by itself (`unheard`), and checks that
break off at a garbled one are committed with the next event, unannounced and without a
mark (`broken`). `RowsExplained` counts readings of the topic, not processes: each rebalance
begins one. `CatchesUp` excepts a process whose startup failed, which `/health` does not
tell.
`NewestIsCurrent` holds although the number is read before it is written; that only
one version is current does not, when calls overlap, and `CallsSerial` says when they
can: the operator makes one call at a time and overlaps with itself only after a
timeout or a repeated handler. With two current versions, `query_stale` (db.py:218)
would list embeddings of the newest version as stale.

`ReportedStored` compares the events of chunks with their rows, and the status of files,
which is written chunk by chunk for the whole file, with the first row of theirs.

`ObjectsFollow` states what survives of a namespace in which any handler may stop at
any call, `Converges` that handlers which are called again get there in the end, and that
a connector whose schedule is refused is not stuck once it is changed or deleted.
`SettingsFollow` has the two ways in which the settings do not follow the resource although
it says `Applied`. `DimensionGuarded` speaks of the settings in the ConfigMap, not of the
guard.

## Bounds

* Workers: two, the number that a rolling update or a rebalance makes; a third
  takes part in nothing that two do not. One where the question is about a single
  worker's offsets.
* Partitions: two, so that a worker's commits interleave across partitions and a
  batch spans both. Logs of up to three messages: long enough for a message before
  and after the one that fails.
* `MaxFaults`: three for the processor's safety and for the connectors, two for the
  processor's liveness, the metadata consumer and the control plane, one for the embedding
  worker, whose safety is proved for any number. Two are needed for a fault during the
  recovery from another. Which kinds may happen is `FaultKinds`; the passing runs allow
  every kind the module has.
* `BatchSize` two with two tenants and undecodable messages: batches of one tenant,
  of both, of one partition and of both, full, and cut short by the time. One of the two
  files has a chunk in either partition, so that it is indexed before all of it is stored.
* `Attempts` two (the code has five): a publication that fails once and succeeds, and one
  that fails for good, each with or without copies left behind. Three faults make room
  for both attempts and a failed poll. A copy that was queued when its flush raised reaches
  the broker at once or never; that it comes later makes no difference to the properties, as
  nothing reads the topic.
* `MaxTime` two changes of a bucket of three names, one of them of a type that
  is not allowed, and as many more at the same times as there are faults for them;
  pages of two names, so that a listing has one page or two.
* Two files under the mount, four writes, three faults: one file before and one
  behind the path at which a poll fails, and each written again after that.
* Two threads of the quota service, amounts of one and two, limits of one and
  two, three faults, one event id, usage recorded while less than `MaxRecorded` of
  it is: one thread is refused because of another that is about to roll back, or
  outlives the period, or the limit changes under it.
* Two pods of the rag-api, the most that a rolling update makes, two tenants, one
  question, a threshold of two, collections written once, three faults: two failures
  open a breaker and the third is that of its probe, or of a restart.
* Three metadata events in two partitions: a chunk, whose upstream nobody publishes, with
  checks that failed, are garbled or passed; its embedding; an entity whose tenant is no
  UUID; one of another type. Two partitions, of two events and of one, hold them in every
  order, so that a later event may take a mark back or commit what an earlier one left
  open, and two faults, so that a restart or a rebalance can follow or precede a failure.
* Two edits of the EmbeddingConfig with two failures make up to four calls of the handler:
  as many requests. The specs differ in model, dimension, confirmation and in naming a
  tenant.
* Three edits of two resources: each is created, and one changed or deleted. Two
  calls of the bff at once, two sources.
* Workers, and the quota service's threads, are symmetric in the runs that check
  only safety.

Not bounded by choice: the number of restarts and rebalances that are not faults
(`Assign`, `Rejoin`, a worker that dies of a text).

## Fairness

Weak fairness of each worker's loop (`Poll` or `Collect`, and the processing of
what it holds), of its producers' delivery threads, and of the coordinator, which
answers commits and gives free partitions to members that poll. The code justifies
it: `run` loops without a condition that could block it, every wait in it has a
timeout, Kubernetes restarts a process that ends, and librdkafka's threads retry
until a record's time is over (which is a fault here). Nothing is assumed of
faults: they may happen or not, `MaxFaults` times in all. Of the connectors only
the poll loop is assumed to run; nothing is assumed of the bucket or the mount. The
metadata consumer's thread runs, if its process has started one; nothing is assumed of
publishers, restarts or the database at startup. Of the
rag-api only the clock is assumed (`RecoveryElapses`), not that queries come. kopf
calls the handlers of a resource until they succeed, which is what it is for (for ever, if
a schedule is refused), and
calls to the metadata service end, in a transaction or without one; faults are
not fair. The quota service and the bff have no property under fairness.

Fairness of `Collect` and of `ProcessBatch` together does not decide when a batch
is cut short: both choices are left open, as the timer is in the code.

## The proofs

Every safety invariant and every action property that a passing run checks is also a theorem,
checked by TLAPS for any workers, partitions, logs, names and faults. The assumptions are
those of the modules (`GroupAssumption`, `EventAssumption` and their counterparts), which
TLC evaluates in the runs: that logs are sequences of messages, that amounts and limits
are numbers, that sets which are summed over are finite.

| theorem | says |
|---|---|
| `TypeCorrect` | `Spec => []TypeOK` |
| `OrderCorrect`, `NothingSkippedAlways` | `Spec => []OrderInv`, and so `[]NothingSkipped` |
| `LiveCorrect`, `OneHandler`, `CommittedForward` | `Spec => []LiveInv`, and so `[]OneLiveHandler` and `CommittedOnlyForward` |
| `DeliveryCorrect`, `CommittedDeliveredCorrect` | `Spec => []DeliveryInv`, and with `OrderInv` so `[]CommittedDelivered` |
| `ProcessorCorrect` | `Spec => []ProcessorInv`, all of the above invariants |
| `StageRefinement` | the processor implements `AtLeastOnceStage` |
| `VersionsCorrect`, `OneCurrent` | `VersionsSpec => []VersionsSound`, and one current version as long as no calls overlap |
| `ConfigRefinesVersions` | the operator and the versions together implement `VersionsSpec`, and so have both theorems: `ConfigVersionsSound`, `ConfigOneCurrent` |
| `ConfigTypeCorrect`, `ConfigSettingsHandled` | types of the handler; and between two of its calls the ConfigMap has the settings of the spec handled last, and the worker was restarted with them, as long as there was no fault |
| `WorkerTypeCorrect` | types of the embedding worker, and batches within their bound |
| `WorkerOrderCorrect`, `WorkerSkipsNothing` | `Spec => []OrderInv` of the worker, and so `[]NothingSkipped` |
| `WorkerDeliveryCorrect`, `WorkerReportsStored`, `WorkerCommitsDelivered` | `Spec => []DeliveryInv` of the worker, and so `[]ReportedStored` and, with `OrderInv`, `[]CommittedDelivered` |
| `WorkerStageRefinement` | the embedding worker implements `AtLeastOnceStage` |
| `ConnectorTypeCorrect`, `ConnectorCorrect`, `EventsCorrect` | types of the S3 connector, `Spec => []ConnectorInv`, and so `[]EventsFollowVersions` |
| `RagTypeCorrect`, `BreakerCorrect`, `CacheCorrect` | types of the rag-api, `[]BreakerTrips`, `[]CacheSound` |
| `ConfigCallsSerial` | `ConfigSpec => []CallsSerial` |
| `NFSTypeCorrect`, `NFSEventsFollowFiles` | types of the NFS connector, `Spec => []EventsFollowFiles` |
| `OperatorTypeCorrect`, `OperatorObjectsFollow` | types of the operator's handlers, `Spec => []ObjectsFollow` |
| `SourcesTypeCorrect`, `EditsCorrect`, `OrphansCorrect` | types of the bff's sources, `[]EditsKept`, `[]OrphansExplained` (for any set of names that is not empty) |
| `PlaneTypeCorrect`, `PlaneCorrect` | operator and bff side by side implement either of them (`PlaneRefinesOperator`, `PlaneRefinesBff`), and so have the five properties above |
| `QuotaTypeCorrect`, `QuotaCounterCorrect`, `QuotaLimitKept`, `QuotaEventsCorrect` | types of the quota calls, `[]CounterExplained`, `AdmittedWithinLimit`, `[]EventsCounted` |
| `ConsumerTypeCorrect`, `ConsumerFailuresCorrect`, `ConsumerReplayCorrect`, `ConsumerRowsCorrect` | types of the metadata consumer, `[]FailuresKnown`, `[]ReplayRepairs`, `[]RowsExplained` |

`NothingSkipped` is not inductive: nothing in it says that the commit under way is
right. `OrderInv` adds that the owner of a partition has read only settled events
and the one it works on (`ReadInOrder`), that everything below the event a worker
holds is settled, even if the group has expelled the worker (`HandledInOrder`), and
that a request passes only settled events (`RequestsSettled`). A new owner starts
from the committed offset, below which everything is settled, which closes the
circle.

`LiveInv` adds to `OneLiveHandler` that only the owner of a partition has a commit
under way for it, between the committed offset and its read position
(`OwnersCommit`), and that a member which holds an event owns its partition and has
read that event last (`MembersHold`). It holds because the processor handles one
event at a time and a rebalance reaches it only between events; the embedding
worker, which polls with messages in hand, does not have it, and its commits do
rewind the group.

`DeliveryInv` is about a single worker: what it has produced of an event is on the
topic or in the queue that it flushes before it returns, unless `lost` has the
event. No assumption restricts the faults: `lost` is part of the statement.

`VersionsSound` is not inductive. What keeps the newest version current is that every
row a transaction has not seen when its UPDATE began was committed after that, and
that its own number is above all it could see by its INSERT: the invariant
relates each open transaction's `seen` and `number` to the rows.
That two versions are not current at once follows from it for transactions that do
not overlap. `EmbeddingConfig` has only to show that each of its steps is a step of
the versions or leaves them alone. `CallsSerial` needs that, as long
as there was no fault, a call that has not ended is the one the handler waits for
(`OneBusy`), so that the next begins alone. `ConfigSettingsHandled` follows the spec of one
call of the handler through the patch and the restart (`Follows`).

The embedding worker needs a different `OrderInv`. Its batch may hold messages of
partitions that others own by now, so the invariant cannot speak of owners alone:
everything below a message that waits in a batch is settled, or waits at an earlier
place of that batch (`BatchesInOrder`). Since the loops of `_process_batch` settle a
batch from its first message to its last, what is below the message at hand is
settled, whoever owns its partition. `Waiting` is the part of the batch the loop of
commits or dead letters has not passed. Its `DeliveryInv` follows a message through
the batch: its row is stored once its tenant is among the upserted, its event is in
the queue once the loop of publication is past it, and out of it, or lost, after the
flush.

In `S3ConnectorProofs`, a poll in progress has settled a version (announced and
published it, or missed it), has its object on its page, or will still come to it
(`PollFinds`); a version newer than all the poll has seen is not covered by the
watermark to be. `DuplicatesNeedFaults` becomes inductive with `EventsLimited`: a
version that has one event more than there were faults is covered by the watermark,
or will be when the poll ends. An attempt that raises adds an event and a fault, and
leaves the object at hand (`RetryStep`).

In `NFSConnectorProofs`, `HandsApart` says that a file a poll is done with, but has not yet
marked as known, is not among those it still has to do. `Sought` follows
a changed file through the queue, the locals of a poll and the set in Redis until it has
its event or is `missed`; `EventsPaid` charges every event of a file to a write or a
fault, with the one that the poll has in hand paid in advance, and each attempt that raises by its own fault; `AnnouncedHasRow` is the
order of row and event. A thread that dies between two of these steps, and a poll that
changes its mode in between, are cases of `Sought`, not of the property.

`CacheSound` is not inductive either: that an answer in the cache is as new as what
was served depends on the requests on their way to the cache. `RagQueryProofs` adds
that no answer is newer than its collection and that, for a key that is not
`excused`, at most one pod computes an answer at a time, with nothing in the cache
beside it and an answer as new as what was served. A SETEX that fails keeps all that
whether it was carried out or not (`StoreFailsKeeps`). `BreakerTrips` includes the failures
in a row, which a restart and a good probe begin anew together with the count (`StartsAnew`). `EditsKept` needs that what a
request is about to write differs from what is there only in the field it edits,
unless the source is `contended`; `OrphansExplained` and `BreakerTrips` are inductive
nearly as they stand.

`ObjectsFollow` becomes inductive when it also speaks of handlers under way: what a
handler has yet to apply is all that is missing of its resource, what it has yet to erase
all that is left of it (`OwnSound`). Of an object that several resources share
`SharedSound` says that, if it is missing though one of them has been handled or has a
handler that applied it, then another that is gone has erased it and not applied it since.
A refused schedule adds nothing to this: the handler ends where another fails.

The quota service's counter is compared with a sum over threads. `SumFunctionOnSet` folds over a set, and nothing can be proved of it
by induction here, since the library's induction takes an operator. The sums of
`AccountingProofs` are had by smallest counterexample instead: among the subsets of
a finite set for which a statement fails there would be one that includes no other
(`SmallestSet`, from the well-foundedness of strict inclusion in the library), and taking a
member away from it contradicts that. So `SumSplit` takes a member out
of a sum, `SumSame` compares two. With these `CounterExplained` is inductive:
each step changes what one thread has in flight and the counter by the same. It gives
`AdmittedWithinLimit`: what is in flight is not negative. `EventsCounted` needs that what has been added or
is about to be has its key (`KeySet`), that a key has been set for an addition, past, to come
or given up (`KeyUsed`), and that an event which is not `raced` has one call at work on it at
most, and none once it has been added (`OneRecords`).

The consumer's transaction adds to what is committed. Between events it is what is committed
unless something was refused before it was sent, and so it is once a statement has failed
(`TxFollows`). A failed check that the transaction has inserted was announced, or its
checks broke off, or its mark and its announcement come before the COMMIT, by the step that
is at hand; and what is marked, and what should be, are the same but in that step
(`TxFailuresKnown`). What a process has read without a failure is in the transaction, and the edges
of it that can be (`StoredLogged`, `ReadHandled`). The checks of an event have gone into the
transaction once for each former reading of the topic at most, and once more if this one has
passed the event (`RowsPaid`); a replay sets the position back and adds a reading.

The lemmas about the consumer group stand in the proofs of both stages, as they are about
variables the two declare. In `DocProcessorProofs`, `ProcessMessageShape` reduces the
eleven steps of `_process_message` to two kinds, those in the middle of it and the last, so
that the order invariants are proved for the two.

Out of the prover's reach, and checked by TLC only: everything under fairness
(`EveryEventDelivered`, `LagIsFailedPublications`, `EveryChunkDelivered`, `EveryVersionPublished`,
`EveryFileServed`, `RefusalsEnd`, `CatchesUp`, `SettingsFollow`, `Converges`). They
rest on fairness, hence on ENABLED.

## Where code and documents disagree

Three runs end in a violation of what documents, tests or the code itself say;
`PROJECT.json` ("findings") quotes the lines.

* `processor_failed_publication`: not committing a message whose publication failed does not
  bring it back while its owner reads on.
* `rag_consecutive`: the breaker opens after failures that were not consecutive, since a
  success of a closed breaker does not reset the count.
* `embedding_dimension`: the handler of EmbeddingConfig is registered with `field="spec"`,
  so that kopf reduces `old` and `new` to the spec, and the guard, which reads `old["spec"]`,
  compares nothing. The tests call `reconcile_embedding` with whole resources.

The other places where the code and a document differ, met while modelling; each is in
the model, as the code has it:

* `doc-processor/src/processor.py:134`: a text that tiktoken cannot encode raises
  outside of every `try` and ends each worker that reads it (`ChunkingRaises`);
  `docs/ai-data-pipeline-error-handling.md:4` routes unrecoverable failures to
  dead-letter topics.
* `embedding-worker/src/worker.py:184`: after a failed upsert the last batch is
  dead-lettered, not committed and not read again, and the lag stays; the
  test plan (`docs/test-plan.md:663`) has it drain.
* `embedding-worker/src/main.py:49`: the connection is opened once, and no status is
  written after an error; `docs/test-plan.md:649` has status writes resume after a
  failover.
* `connector-s3/src/connector.py:127`: the watermark goes past a file whose
  publication failed, if a later one succeeds (`missed`);
  `docs/ai-data-pipeline-error-handling.md:54` says that the file is retried.
* `embedding-worker/src/status_updater.py:12`: the status is written by `source_id`, so the
  first batch with a chunk of a file makes the file `indexed`, with that batch's length as
  its `chunk_count`, while its other chunks are still to come or in a batch that fails
  (`ReportedStored`); `docs/test-plan.md:313` waits for `indexed` before it queries the
  document and expects the lags to be zero.
* `pipeline-operator/operator/handlers.py:187`: a version is recorded for a spec with a
  `tenantId`, a field that `docs/api/pipeline-operator-crds.yaml` does not give
  EmbeddingConfigs.
* `metadata-service/src/app.py:135`: a failed startup is logged, no consumer runs, and
  `/health` says that all is well (`StartFails`).
* `metadata-service/src/app.py:113`: offsets are never committed, so each rebalance and
  restart inserts the checks of the whole topic once more (`RowsExplained`).
* `k8s/pipeline/embedding-worker.yaml:64-69` sets the model and the backend as
  literals: the settings that the operator patches do not reach the worker.
* `K8sRealClient` inherits the no-ops of `K8sClient` for suspending cron jobs,
  reading the lag, waiting and the smoke test, so the upgrade that
  `docs/implementation-plan.md:455` and `docs/test-plan.md:411` describe restarts the
  deployments and does nothing else.
* The bff names an API group for DataConnector that the manifests do not define.
* `pipeline-operator/operator/k8s_real_client.py:313,336`: a ConfigMap or a Deployment that is
  not there is passed over, and the EmbeddingConfig is `Applied` all the same (`Patch`,
  `Restart`).

Beside these, a `flush` that times out raises nothing, and the processor, the embedding
worker and the connector go on as if it had succeeded; the passing runs say what
that costs (`lost`, `missed`).

## The plan

Done: all the modules above, with a theorem for every safety property that a run
checks.

Next, in this order:

1. Lemmas towards the liveness properties that are no temporal formulas: that in each
   state in which a stage has work some fair action is possible, and a measure that every
   step without a fault lowers, so that only the temporal argument is left to TLC.
2. `IngestPipeline`: connector, processor and embedder composed on their topics: when a
   document of several chunks is complete, and what a duplicate event does to it. It would
   replace one of the runs, of which there are enough.
3. Names of shared objects that change with `tenantId` and `sourceType` (see below).

## What is not modelled

* The content of documents, chunks, vectors and messages; wording of logs and
  errors; metrics, traces and usage events.
* Metadata events of the connectors, the processor and the worker, as steps of
  theirs: the `main`s pass no publisher. `MetadataConsumer` takes them as they come.
* Status writes of the doc-processor: `main` passes no connection, so there are none.
* The creation of a Milvus collection inside `upsert` (one step here).
* Of the rag-api: the filter by `min_score` (which the cache key lacks, a matter of one
  line), usage and metadata events, whose failures are swallowed.
* Of the metadata service: the read-only queries. Of the quota service: reads, and
  `flush_usage_to_history`, which nothing calls.
* The operator's coordinated upgrade, for the reason given above: a model of it would
  be one of a client that does not exist.
* Of the bff: authentication, quota checks, users, tenants and workspaces, uploads,
  browsing and the administrators' settings: single calls of another system, with no
  state of their own.
* The SDK, a client without state between calls.
* Changes of `tenantId` and `sourceType`: `ConnectorOperator` takes the names of a
  connector's Kafka user and of a workspace's upload watcher as fixed. The CRD does not
  enforce that (`handlers.py:80, 126`): after such a change the user of the former name stays
  behind, or is deleted by another resource that has that name, which `ObjectsFollow` does
  not speak of.
* Back-off times, except as the nondeterministic end of a wait.
* The frontend, the manifests, the migrations and the scripts, which have no
  behaviour of the running pipeline of their own; what the models assume of the
  manifests (restarts, replicas) is stated above.
