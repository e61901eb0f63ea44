---------------------------- MODULE EmbeddingWorker ----------------------------
(***************************************************************************)
(* The embedding worker (src/services/embedding-worker): every worker      *)
(* collects a batch of chunk events, embeds it in one call, upserts the    *)
(* rows into one Milvus collection per tenant, publishes an event and      *)
(* writes the status of its file for every chunk, and commits the messages *)
(* of the batch one by one.  A batch that cannot be embedded or stored     *)
(* goes to dlq-document-chunks as a whole and is not committed.            *)
(*                                                                         *)
(* Unlike the document processor, a worker polls while it holds messages:  *)
(* a rebalance may take a partition whose messages are in its batch.       *)
(***************************************************************************)
EXTENDS ConsumerGroup

CONSTANTS
  Tenants,      (* the tenants chunks belong to                            *)
  Files,        (* the files they are from: source ids                     *)
  BatchSize     (* embedding_batch_size                                    *)

(* A message of document-chunks, by what the worker tells apart.           *)
ChunkEvent == [decodable : BOOLEAN, tenant : Tenants, file : Files]

ASSUME WorkerAssumption ==
  /\ Messages \subseteq ChunkEvent
  /\ BatchSize \in Nat \ {0}

VARIABLES
  pc,           (* where each worker stands                                *)
  batch,        (* the messages it has collected                           *)
  next,         (* the message of the batch its loop is at                 *)
  upserted,     (* the tenants of the batch it has upserted                *)
  reason,       (* why the batch goes to the dead-letter topic             *)
  connection,   (* its PostgreSQL connection                               *)
  outbox,       (* its event producer's queue                              *)
  store,        (* Milvus: the rows of every tenant's collection           *)
  events,       (* the topic of embedding events                           *)
  dlq,          (* the topic dlq-document-chunks                           *)
  indexed,      (* source_file_status: the files reported as indexed       *)
  settled,      (* history: the offsets a worker has finished with         *)
  lost          (* history: messages whose event or dead letter may be lost *)

workerVars  == <<pc, batch, next, upserted, reason>>
outputVars  == <<outbox, store, events, dlq, connection, indexed, lost>>
vars        == <<groupVars, workerVars, outputVars, settled>>

Stages  == {"collect", "embed", "upsert", "publish", "flush", "commit", "deadLetter"}
Reasons == {"none", "embedding_rate_limit", "embedding_error", "milvus_error"}

Position == [part : Partitions, off : Nat]
Chunk(m) == Message(m.part, m.off)

DeadLetters == [msg : Position, reason : Reasons]

WorkerTypeOK ==
  /\ pc       \in [Workers -> Stages]
  /\ batch    \in [Workers -> Seq(Position)]
  /\ next     \in [Workers -> Nat \ {0}]
  /\ upserted \in [Workers -> SUBSET Tenants]
  /\ reason   \in [Workers -> Reasons]
  /\ settled  \in [Partitions -> SUBSET Nat]

OutputTypeOK ==
  /\ outbox  \in [Workers -> SUBSET Position]
  /\ store   \in [Tenants -> SUBSET Position]
  /\ events  \in SUBSET Position
  /\ dlq     \in SUBSET DeadLetters
  /\ connection \in [Workers -> {"ok", "broken"}]
  /\ indexed \in SUBSET Files
  /\ lost    \in SUBSET Position

(* A batch is never longer than embedding_batch_size, and a loop over it   *)
(* is never past its end.                                                  *)
BatchBounded ==
  \A w \in Workers :
    /\ Len(batch[w]) <= BatchSize
    /\ pc[w] # "collect" => next[w] \in DOMAIN batch[w]

TypeOK == GroupTypeOK /\ WorkerTypeOK /\ OutputTypeOK /\ BatchBounded

Init ==
  /\ GroupInit
  /\ pc       = [w \in Workers |-> "collect"]
  /\ batch    = [w \in Workers |-> <<>>]
  /\ next     = [w \in Workers |-> 1]
  /\ upserted = [w \in Workers |-> {}]
  /\ reason   = [w \in Workers |-> "none"]
  /\ connection = [w \in Workers |-> "ok"]
  /\ outbox   = [w \in Workers |-> {}]
  /\ store    = [t \in Tenants |-> {}]
  /\ events   = {}
  /\ dlq      = {}
  /\ indexed  = {}
  /\ lost     = {}
  /\ settled  = [p \in Partitions |-> {}]

AtHand(w) == batch[w][next[w]]
IsLast(w) == next[w] = Len(batch[w])

GoTo(w, stage) ==
  /\ pc'   = [pc EXCEPT ![w] = stage]
  /\ next' = [next EXCEPT ![w] = 1]

(* One iteration of a loop over the batch; stage comes after the last one. *)
Step(w, stage) ==
  IF IsLast(w) THEN GoTo(w, stage)
  ELSE next' = [next EXCEPT ![w] = @ + 1] /\ UNCHANGED pc

(* The worker has no batch and begins to collect one.                      *)
EmptyHanded(w) ==
  /\ GoTo(w, "collect")
  /\ batch'    = [batch EXCEPT ![w] = <<>>]
  /\ upserted' = [upserted EXCEPT ![w] = {}]
  /\ reason'   = [reason EXCEPT ![w] = "none"]

----------------------------------------------------------------------------
(* _collect_batch.                                                         *)

(* Wrong: a batch that grows while it is collected.                        *)
CollectUnbounded(w, p) ==
  /\ pc[w] = "collect"
  /\ Fetch(w, p)
  /\ batch' = [batch EXCEPT ![w] = Append(@, [part |-> p, off |-> position[p]])]
  /\ UNCHANGED <<pc, next, upserted, reason, outputVars, settled>>

(* A message that cannot be deserialised is logged and dropped: it is not  *)
(* in the batch, so its offset is not committed.                           *)
Collect(w, p) ==
  LET m == [part |-> p, off |-> position[p]]
  IN  /\ pc[w] = "collect"
      /\ Len(batch[w]) < BatchSize
      /\ Fetch(w, p)
      /\ IF Chunk(m).decodable
         THEN /\ batch' = [batch EXCEPT ![w] = Append(@, m)]
              /\ UNCHANGED settled
         ELSE /\ settled' = [settled EXCEPT ![p] = @ \cup {m.off}]
              /\ UNCHANGED batch
      /\ UNCHANGED <<pc, next, upserted, reason, outputVars>>

(* Wrong: the first message is committed before the batch is processed.    *)
BatchReadyCommits(w) ==
  /\ pc[w] = "collect"
  /\ batch[w] # <<>>
  /\ GoTo(w, "embed")
  /\ Commit(w, batch[w][1].part, batch[w][1].off)
  /\ UNCHANGED <<faults, batch, upserted, reason, outputVars, settled>>

(* The batch is full, or the time to collect it is over.                   *)
BatchReady(w) ==
  /\ pc[w] = "collect"
  /\ batch[w] # <<>>
  /\ GoTo(w, "embed")
  /\ UNCHANGED <<groupVars, batch, upserted, reason, outputVars, settled>>

----------------------------------------------------------------------------
(* _process_batch.                                                         *)

RouteToDlq(w, r) ==
  /\ GoTo(w, "deadLetter")
  /\ reason' = [reason EXCEPT ![w] = r]
  /\ UNCHANGED <<memberVars, batch, upserted, settled>>

(* Wrong: events and statuses are published before the rows are stored, ... *)
EmbedThenPublish(w) ==
  /\ pc[w] = "embed"
  /\ GoTo(w, "publish")
  /\ UNCHANGED <<groupVars, batch, upserted, reason, outputVars, settled>>

(* ... and a batch that is dropped when it cannot be embedded.             *)
EmbedFailsDropped(w) ==
  /\ pc[w] = "embed"
  /\ Fault("embed")
  /\ EmptyHanded(w)
  /\ UNCHANGED <<memberVars, outputVars, settled>>

(* The first or the second attempt succeeds.                               *)
Embed(w) ==
  /\ pc[w] = "embed"
  /\ GoTo(w, "upsert")
  /\ UNCHANGED <<groupVars, batch, upserted, reason, outputVars, settled>>

EmbedFails(w) ==
  /\ pc[w] = "embed"
  /\ Fault("embed")
  /\ \E r \in {"embedding_rate_limit", "embedding_error"} : RouteToDlq(w, r)
  /\ UNCHANGED outputVars

Unsaved(w)   == {i \in DOMAIN batch[w] : Chunk(batch[w][i]).tenant \notin upserted[w]}
RowsOf(w, t) == {m \in {batch[w][i] : i \in DOMAIN batch[w]} : Chunk(m).tenant = t}

(* tenant_rows is in the order in which the tenants first come up.         *)
NextTenant(w) ==
  Chunk(batch[w][CHOOSE i \in Unsaved(w) : \A j \in Unsaved(w) : i <= j]).tenant

UpsertTenant(w) ==
  LET t == NextTenant(w)
  IN  /\ pc[w] = "upsert"
      /\ store'    = [store EXCEPT ![t] = @ \cup RowsOf(w, t)]
      /\ upserted' = [upserted EXCEPT ![w] = @ \cup {t}]
      /\ IF \A i \in Unsaved(w) : Chunk(batch[w][i]).tenant = t
         THEN GoTo(w, "publish")
         ELSE UNCHANGED <<pc, next>>
      /\ UNCHANGED <<groupVars, batch, reason, outbox, events, dlq, connection, indexed, lost, settled>>

(* The upsert of one tenant raises, its rows written (the flush failed) or *)
(* not: all messages of the batch become dead letters, those of tenants    *)
(* upserted before included.                                               *)
UpsertFails(w) ==
  LET t == NextTenant(w)
  IN  /\ pc[w] = "upsert"
      /\ Fault("milvus")
      /\ RouteToDlq(w, "milvus_error")
      /\ \/ store' = [store EXCEPT ![t] = @ \cup RowsOf(w, t)]
         \/ UNCHANGED store
      /\ UNCHANGED <<outbox, events, dlq, connection, indexed, lost>>

(* _send_to_dlq produces one envelope and flushes: it is out, or the flush *)
(* timed out and nobody looks.  (If either raises, the worker dies: Crash.) *)
SendToDlq(w) ==
  /\ pc[w] = "deadLetter"
  /\ \/ /\ dlq' = dlq \cup {[msg |-> AtHand(w), reason |-> reason[w]]}
        /\ UNCHANGED <<faults, lost>>
     \/ /\ Fault("deadLetter")
        /\ lost' = lost \cup {AtHand(w)}
        /\ UNCHANGED dlq
  /\ settled' = [settled EXCEPT ![AtHand(w).part] = @ \cup {AtHand(w).off}]
  /\ IF IsLast(w) THEN EmptyHanded(w)
     ELSE Step(w, "deadLetter") /\ UNCHANGED <<batch, upserted, reason>>
  /\ UNCHANGED <<memberVars, outbox, store, events, connection, indexed>>

(* update_source_file_status, by source_id: the first chunk of a file that *)
(* is stored makes all of it indexed.  The connection is opened once:      *)
(* after an error, which is only logged, every later update over it fails. *)
UpdateStatus(w) ==
  \/ /\ connection[w] = "ok"
     /\ indexed' = indexed \cup {Chunk(AtHand(w)).file}
     /\ UNCHANGED <<connection, faults>>
  \/ /\ connection[w] = "ok"
     /\ Fault("database")
     /\ connection' = [connection EXCEPT ![w] = "broken"]
     /\ UNCHANGED indexed
  \/ /\ connection[w] = "broken"
     /\ UNCHANGED <<connection, indexed, faults>>

Publish(w) ==
  /\ pc[w] = "publish"
  /\ outbox' = [outbox EXCEPT ![w] = @ \cup {AtHand(w)}]
  /\ UpdateStatus(w)
  /\ Step(w, "flush")
  /\ UNCHANGED <<memberVars, batch, upserted, reason, store, events, dlq, lost, settled>>

(* Wrong: the flush before the commits is forgotten.                       *)
FlushForgotten(w) ==
  /\ pc[w] = "flush"
  /\ GoTo(w, "commit")
  /\ UNCHANGED <<groupVars, batch, upserted, reason, outputVars, settled>>

(* The queue is empty or the time is over; nobody looks which.             *)
Flush(w) ==
  /\ pc[w] = "flush"
  /\ \/ outbox[w] = {} /\ UNCHANGED <<faults, lost>>
     \/ /\ outbox[w] # {}
        /\ Fault("flushTimeout")
        /\ lost' = lost \cup outbox[w]
  /\ GoTo(w, "commit")
  /\ UNCHANGED <<memberVars, batch, upserted, reason, outbox, store, events, dlq,
                 connection, indexed, settled>>

(* Wrong: the messages are committed from the last to the first.           *)
CommitBackwards(w) ==
  LET m == batch[w][Len(batch[w]) + 1 - next[w]]
  IN  /\ pc[w] = "commit"
      /\ Commit(w, m.part, m.off)
      /\ settled' = [settled EXCEPT ![m.part] = @ \cup {m.off}]
      /\ IF IsLast(w) THEN EmptyHanded(w)
         ELSE Step(w, "commit") /\ UNCHANGED <<batch, upserted, reason>>
      /\ UNCHANGED <<faults, outputVars>>

CommitMessage(w) ==
  /\ pc[w] = "commit"
  /\ Commit(w, AtHand(w).part, AtHand(w).off)
  /\ settled' = [settled EXCEPT ![AtHand(w).part] = @ \cup {AtHand(w).off}]
  /\ IF IsLast(w) THEN EmptyHanded(w)
     ELSE Step(w, "commit") /\ UNCHANGED <<batch, upserted, reason>>
  /\ UNCHANGED <<faults, outputVars>>

----------------------------------------------------------------------------
(* The rest of the world.                                                  *)

DeliverEvent(w) ==
  /\ \E m \in outbox[w] :
       /\ outbox' = [outbox EXCEPT ![w] = @ \ {m}]
       /\ events' = events \cup {m}
  /\ UNCHANGED <<groupVars, workerVars, store, dlq, connection, indexed, lost, settled>>

(* The broker refuses an event, or it expires in the queue: the producer   *)
(* has no delivery callback.                                               *)
DeliveryFails(w) ==
  /\ Fault("delivery")
  /\ \E m \in outbox[w] :
       /\ outbox' = [outbox EXCEPT ![w] = @ \ {m}]
       /\ lost'   = lost \cup {m}
  /\ UNCHANGED <<memberVars, workerVars, store, events, dlq, connection, indexed, settled>>

(* The coordinator reaches a worker when that polls, batch in hand or not. *)
Coordinate(w) ==
  /\ \/ \E p \in Partitions : CommitLands(w, p)
     \/ pc[w] = "collect" /\ Rejoin(w)
     \/ pc[w] = "collect" /\ \E p \in Partitions : Assign(w, p)
  /\ UNCHANGED <<workerVars, outputVars, settled>>

Disturb(w) ==
  /\ \/ pc[w] = "collect" /\ \E p \in Partitions : Revoke(w, p)
     \/ Expel(w)
  /\ UNCHANGED <<workerVars, outputVars, settled>>

(* The pod is killed, or an exception nobody catches ends it; it is        *)
(* started again with a new connection.                                    *)
Crash(w) ==
  /\ Fault("crash")
  /\ Leave(w)
  /\ EmptyHanded(w)
  /\ outbox'     = [outbox EXCEPT ![w] = {}]
  /\ connection' = [connection EXCEPT ![w] = "ok"]
  /\ UNCHANGED <<store, events, dlq, indexed, lost, settled>>

ProcessBatch(w) ==
  \/ BatchReady(w)
  \/ Embed(w) \/ EmbedFails(w)
  \/ UpsertTenant(w) \/ UpsertFails(w)
  \/ Publish(w) \/ Flush(w) \/ CommitMessage(w)
  \/ SendToDlq(w)

Next ==
  \E w \in Workers :
    \/ \E p \in Partitions : Collect(w, p)
    \/ ProcessBatch(w)
    \/ DeliverEvent(w) \/ DeliveryFails(w)
    \/ Coordinate(w) \/ Disturb(w)
    \/ Crash(w)

Spec == Init /\ [][Next]_vars

----------------------------------------------------------------------------
(* Safety.                                                                 *)

(* The group's offset never passes a message no worker is finished with,   *)
(* although a worker commits the messages of its batch after their         *)
(* partitions have been taken from it, and given to others.                *)
NothingSkipped ==
  \A p \in Partitions : \A o \in 0 .. committed[p] - 1 : o \in settled[p]

Stored(m)       == m \in store[Chunk(m).tenant]
DeadLettered(m) == \E r \in Reasons : [msg |-> m, reason |-> r] \in dlq

(* Nothing more needs to be done for a message: it is garbage, its row is  *)
(* stored and its event is out, or it is a dead letter.                    *)
Delivered(m) ==
  \/ ~Chunk(m).decodable
  \/ Stored(m) /\ m \in events
  \/ DeadLettered(m)

(* An offset is committed only when the row and the event of its chunk, or *)
(* its dead letter, are out of the worker's hands, unless a flush timed    *)
(* out, an event expired or a dead letter failed for this very chunk.      *)
CommittedDelivered ==
  \A p \in Partitions : \A o \in 0 .. committed[p] - 1 :
    Delivered([part |-> p, off |-> o]) \/ [part |-> p, off |-> o] \in lost

(* The event of a chunk never runs ahead of its row, and a file is not     *)
(* reported as indexed before some chunk of it is stored.  (Its other      *)
(* chunks may be in batches to come, or in one that failed.)               *)
ReportedStored ==
  /\ \A m \in events : Stored(m)
  /\ \A f \in indexed : \E p \in Partitions : \E o \in Offsets(p) :
       LET m == [part |-> p, off |-> o] IN Chunk(m).file = f /\ Stored(m)

(* The embedding worker is an at-least-once stage (AtLeastOnceStage).      *)
Stage == INSTANCE AtLeastOnceStage
           WITH Inputs   <- Partitions,
                Length   <- [p \in Partitions |-> End(p)],
                finished <- settled,
                resume   <- committed
ImplementsStage == Stage!StageSpec

----------------------------------------------------------------------------
(* Liveness.  Every worker's loop runs, its producer's thread delivers,    *)
(* and the coordinator answers and assigns free partitions.                *)

Fairness ==
  \A w \in Workers :
    /\ WF_vars(\E p \in Partitions : Collect(w, p))
    /\ WF_vars(ProcessBatch(w))
    /\ WF_vars(DeliverEvent(w))
    /\ WF_vars(Coordinate(w))

FairSpec == Spec /\ Fairness

(* Every chunk comes out at the other end, stored or as a dead letter,     *)
(* unless its event or its dead letter got lost unnoticed.                 *)
EveryChunkDelivered ==
  \A p \in Partitions : \A o \in Offsets(p) :
    <>[](Delivered([part |-> p, off |-> o]) \/ [part |-> p, off |-> o] \in lost)

=============================================================================
