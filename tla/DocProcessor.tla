----------------------------- MODULE DocProcessor -----------------------------
(***************************************************************************)
(* The document processor (src/services/doc-processor): every worker polls *)
(* one raw-document event at a time, fetches and parses its content, cuts  *)
(* it into chunks, publishes the chunks on document-chunks and commits the *)
(* event's offset.  What cannot be processed goes to dlq-raw-documents.    *)
(*                                                                         *)
(* The workers are the members of one consumer group (ConsumerGroup).  The *)
(* two Kafka producers of a worker are modelled by what produce() and      *)
(* flush() do: produce() only queues a record in the process, a background *)
(* thread delivers it later, and flush(timeout) waits until the queue is   *)
(* empty or the time is over, raising nothing in the second case.          *)
(***************************************************************************)
EXTENDS ConsumerGroup

ContentKinds == {"malformed", "corrupt", "unencodable", "text"}

(* An event of raw-documents, by what the processor will make of it: it    *)
(* cannot be deserialised, its content cannot be parsed, its text cannot   *)
(* be encoded (tiktoken raises ValueError for one that contains a special  *)
(* token such as <|endoftext|>), or it is a text of so many chunks (none,  *)
(* for an empty text).                                                     *)
RawDocumentEvent == [kind : ContentKinds, chunks : Nat]

ASSUME EventAssumption == Messages \subseteq RawDocumentEvent

VARIABLES
  pc,            (* where each worker stands in _process_message           *)
  job,           (* the message it works on                                *)
  produced,      (* how many of its chunks have been given to produce()    *)
  reason,        (* why the message goes to the dead-letter topic          *)
  outbox,        (* chunk producer's queue: produced, not yet delivered    *)
  dlqOutbox,     (* the same of the dead-letter producer                   *)
  documentChunks,(* the topic document-chunks                              *)
  dlq,           (* the topic dlq-raw-documents                            *)
  settled,       (* history: the offsets _process_message has returned from *)
  lost           (* history: those of which a record may be lost unnoticed *)

workerVars == <<pc, job, produced, reason>>
sentVars   == <<outbox, dlqOutbox, documentChunks, dlq>>
outVars    == <<sentVars, lost>>
vars       == <<groupVars, workerVars, outVars, settled>>

Stages  == {"poll", "process", "publish", "flush", "deadLetter", "deadLetterFlush"}
Reasons == {"none", "fetch_error", "parse_error", "chunk_publish_failed"}

Job   == [part : Partitions, off : Nat]
NoJob == [part |-> CHOOSE p \in Partitions : TRUE, off |-> 0]

(* chunk_id is made of doc_id and the index, and doc_id is a hash of the   *)
(* event: the same event gives the same chunk ids however often it is      *)
(* processed.  Two events never share one (they have an event_id each).    *)
Chunk(p, o, i) == [part |-> p, off |-> o, index |-> i]
Chunks         == [part : Partitions, off : Nat, index : Nat]
ChunksOf(p, o) == {Chunk(p, o, i) : i \in 0 .. Message(p, o).chunks - 1}

Dead(p, o, r)  == [part |-> p, off |-> o, reason |-> r]
DeadLetters    == [part : Partitions, off : Nat, reason : Reasons]

WorkerTypeOK ==
  /\ pc       \in [Workers -> Stages]
  /\ job      \in [Workers -> Job]
  /\ produced \in [Workers -> Nat]
  /\ reason   \in [Workers -> Reasons]
  /\ settled  \in [Partitions -> SUBSET Nat]

OutTypeOK ==
  /\ outbox    \in [Workers -> SUBSET Chunks]
  /\ dlqOutbox \in [Workers -> SUBSET DeadLetters]
  /\ documentChunks \in SUBSET Chunks
  /\ dlq            \in SUBSET DeadLetters
  /\ lost           \in [Partitions -> SUBSET Nat]

TypeOK == GroupTypeOK /\ WorkerTypeOK /\ OutTypeOK

Init ==
  /\ GroupInit
  /\ pc       = [w \in Workers |-> "poll"]
  /\ job      = [w \in Workers |-> NoJob]
  /\ produced = [w \in Workers |-> 0]
  /\ reason   = [w \in Workers |-> "none"]
  /\ outbox    = [w \in Workers |-> {}]
  /\ dlqOutbox = [w \in Workers |-> {}]
  /\ documentChunks = {}
  /\ dlq            = {}
  /\ settled = [p \in Partitions |-> {}]
  /\ lost    = [p \in Partitions |-> {}]

JobMessage(w) == Message(job[w].part, job[w].off)

GoTo(w, stage) == pc' = [pc EXCEPT ![w] = stage]

(* The worker is back in its poll loop and holds no message.               *)
BackToPoll(w) ==
  /\ GoTo(w, "poll")
  /\ job'      = [job EXCEPT ![w] = NoJob]
  /\ produced' = [produced EXCEPT ![w] = 0]
  /\ reason'   = [reason EXCEPT ![w] = "none"]

(* _process_message returns, with and without committing the offset.       *)
Return(w) ==
  /\ BackToPoll(w)
  /\ settled' = [settled EXCEPT ![job[w].part] = @ \cup {job[w].off}]

CommitAndReturn(w) ==
  /\ Commit(w, job[w].part, job[w].off)
  /\ Return(w)

(* Something of event o of partition p may not have arrived, and nobody    *)
(* will look: the producers have no delivery callback, the result of flush *)
(* is ignored, and _route_to_dlq catches everything.                       *)
Lose(p, o) == lost' = [lost EXCEPT ![p] = @ \cup {o}]

SendToDlq(w, r) ==
  /\ GoTo(w, "deadLetter")
  /\ reason' = [reason EXCEPT ![w] = r]
  /\ UNCHANGED <<job, produced, outVars, settled>>

----------------------------------------------------------------------------
(* The worker: run and _process_message.                                   *)

Poll(w, p) ==
  /\ pc[w] = "poll"
  /\ Fetch(w, p)
  /\ GoTo(w, "process")
  /\ job' = [job EXCEPT ![w] = [part |-> p, off |-> position[p]]]
  /\ UNCHANGED <<produced, reason, outVars, settled>>

(* The event cannot be deserialised: logged, committed, forgotten.         *)
SkipMalformed(w) ==
  /\ pc[w] = "process"
  /\ JobMessage(w).kind = "malformed"
  /\ CommitAndReturn(w)
  /\ UNCHANGED <<faults, outVars>>

(* The content cannot be fetched in any of the three attempts.             *)
FetchFails(w) ==
  /\ pc[w] = "process"
  /\ JobMessage(w).kind # "malformed"
  /\ Fault("fetch")
  /\ SendToDlq(w, "fetch_error")
  /\ UNCHANGED memberVars

ParseFails(w) ==
  /\ pc[w] = "process"
  /\ JobMessage(w).kind = "corrupt"
  /\ SendToDlq(w, "parse_error")
  /\ UNCHANGED groupVars

(* Wrong: an empty document returns early without a commit.                *)
NoChunksUncommitted(w) ==
  /\ pc[w] = "process"
  /\ JobMessage(w) = [kind |-> "text", chunks |-> 0]
  /\ Return(w)
  /\ UNCHANGED <<groupVars, outVars>>

NoChunks(w) ==
  /\ pc[w] = "process"
  /\ JobMessage(w) = [kind |-> "text", chunks |-> 0]
  /\ CommitAndReturn(w)
  /\ UNCHANGED <<faults, outVars>>

(* Wrong: the offset is committed before the chunks are published.         *)
StartPublishingCommits(w) ==
  /\ pc[w] = "process"
  /\ JobMessage(w).kind = "text"
  /\ JobMessage(w).chunks > 0
  /\ GoTo(w, "publish")
  /\ produced' = [produced EXCEPT ![w] = 0]
  /\ Commit(w, job[w].part, job[w].off)
  /\ UNCHANGED <<faults, job, reason, outVars, settled>>

StartPublishing(w) ==
  /\ pc[w] = "process"
  /\ JobMessage(w).kind = "text"
  /\ JobMessage(w).chunks > 0
  /\ GoTo(w, "publish")
  /\ produced' = [produced EXCEPT ![w] = 0]
  /\ UNCHANGED <<groupVars, job, reason, outVars, settled>>

ProduceChunk(w) ==
  LET last == produced[w] + 1 = JobMessage(w).chunks
  IN  /\ pc[w] = "publish"
      /\ outbox'   = [outbox EXCEPT ![w] = @ \cup {Chunk(job[w].part, job[w].off, produced[w])}]
      /\ produced' = [produced EXCEPT ![w] = @ + 1]
      /\ GoTo(w, IF last THEN "flush" ELSE "publish")
      /\ UNCHANGED <<groupVars, job, reason, dlqOutbox, documentChunks, dlq, settled, lost>>

(* Wrong: a reason the dead-letter envelope does not know, ...             *)
ProduceFailsUnknown(w) ==
  /\ pc[w] = "publish"
  /\ Fault("produce")
  /\ SendToDlq(w, "kafka_timeout")
  /\ UNCHANGED memberVars

(* ... and a failed publication that is not sent to the dead-letter topic.  *)
ProduceFailsDropped(w) ==
  /\ pc[w] = "publish"
  /\ Fault("produce")
  /\ Return(w)
  /\ UNCHANGED <<memberVars, outVars>>

(* All five attempts of produce() raise: what was produced of the document *)
(* so far stays produced.                                                  *)
ProduceFails(w) ==
  /\ pc[w] = "publish"
  /\ Fault("produce")
  /\ SendToDlq(w, "chunk_publish_failed")
  /\ UNCHANGED memberVars

(* Wrong: the flush before the commit is forgotten.                        *)
FlushForgotten(w) ==
  /\ pc[w] = "flush"
  /\ CommitAndReturn(w)
  /\ UNCHANGED <<faults, outVars>>

(* flush(timeout) returns when the queue is empty or the time is over;      *)
(* what it returns, the number of records still queued, nobody looks at.   *)
FlushReturns(w) ==
  /\ pc[w] = "flush"
  /\ \/ outbox[w] = {} /\ UNCHANGED <<faults, lost>>
     \/ outbox[w] # {} /\ Fault("flushTimeout") /\ Lose(job[w].part, job[w].off)
  /\ CommitAndReturn(w)
  /\ UNCHANGED sentVars

FlushRaises(w) ==
  /\ pc[w] = "flush"
  /\ Fault("flushError")
  /\ SendToDlq(w, "chunk_publish_failed")
  /\ UNCHANGED memberVars

(* _route_to_dlq queues the envelope and flushes the dead-letter producer. *)
ProduceDeadLetter(w) ==
  /\ pc[w] = "deadLetter"
  /\ dlqOutbox' = [dlqOutbox EXCEPT ![w] = @ \cup {Dead(job[w].part, job[w].off, reason[w])}]
  /\ GoTo(w, "deadLetterFlush")
  /\ UNCHANGED <<groupVars, job, produced, reason, outbox, documentChunks, dlq, settled, lost>>

(* _route_to_dlq is over: the envelope is out, or the flush timed out, or  *)
(* an exception was logged, and _process_message goes on the same in all   *)
(* three cases.  It commits the offset unless it was the publication of    *)
(* the chunks that failed.                                                 *)
DeadLetterDone(w) ==
  /\ \/ pc[w] = "deadLetterFlush" /\ dlqOutbox[w] = {} /\ UNCHANGED <<faults, lost>>
     \/ /\ pc[w] \in {"deadLetter", "deadLetterFlush"}
        /\ Fault("deadLetter")
        /\ Lose(job[w].part, job[w].off)
  /\ IF reason[w] = "chunk_publish_failed"
     THEN UNCHANGED memberVars
     ELSE Commit(w, job[w].part, job[w].off)
  /\ Return(w)
  /\ UNCHANGED sentVars

----------------------------------------------------------------------------
(* The rest of the world: the producers' background threads, the           *)
(* coordinator, and pods that die.                                         *)

DeliverChunk(w) ==
  /\ \E c \in outbox[w] :
       /\ outbox' = [outbox EXCEPT ![w] = @ \ {c}]
       /\ documentChunks' = documentChunks \cup {c}
  /\ UNCHANGED <<groupVars, workerVars, dlqOutbox, dlq, settled, lost>>

DeliverDeadLetter(w) ==
  /\ \E d \in dlqOutbox[w] :
       /\ dlqOutbox' = [dlqOutbox EXCEPT ![w] = @ \ {d}]
       /\ dlq' = dlq \cup {d}
  /\ UNCHANGED <<groupVars, workerVars, outbox, documentChunks, settled, lost>>

(* The broker refuses a record, or it expires in the queue.                *)
DeliveryFails(w) ==
  /\ Fault("delivery")
  /\ \/ \E c \in outbox[w] :
          /\ outbox' = [outbox EXCEPT ![w] = @ \ {c}]
          /\ Lose(c.part, c.off)
          /\ UNCHANGED dlqOutbox
     \/ \E d \in dlqOutbox[w] :
          /\ dlqOutbox' = [dlqOutbox EXCEPT ![w] = @ \ {d}]
          /\ Lose(d.part, d.off)
          /\ UNCHANGED outbox
  /\ UNCHANGED <<memberVars, workerVars, documentChunks, dlq, settled>>

(* The coordinator answers w, and gives it partitions when it polls.       *)
Coordinate(w) ==
  /\ \/ \E p \in Partitions : CommitLands(w, p)
     \/ pc[w] = "poll" /\ Rejoin(w)
     \/ pc[w] = "poll" /\ \E p \in Partitions : Assign(w, p)
  /\ UNCHANGED <<workerVars, outVars, settled>>

(* A rebalance reaches w when it polls; it is expelled when it does not.   *)
Disturb(w) ==
  /\ \/ pc[w] = "poll" /\ \E p \in Partitions : Revoke(w, p)
     \/ Expel(w)
  /\ UNCHANGED <<workerVars, outVars, settled>>

(* The process ends and is started again: its message, both queues and its *)
(* membership are gone.                                                    *)
Die(w) ==
  /\ Leave(w)
  /\ BackToPoll(w)
  /\ outbox'    = [outbox EXCEPT ![w] = {}]
  /\ dlqOutbox' = [dlqOutbox EXCEPT ![w] = {}]
  /\ UNCHANGED <<documentChunks, dlq, settled, lost>>

(* The pod is killed in the middle of anything.                            *)
Crash(w) == Fault("crash") /\ Die(w)

(* The chunker raises outside of any try of _process_message: the          *)
(* exception leaves run() and main().                                      *)
ChunkingRaises(w) ==
  /\ pc[w] = "process"
  /\ JobMessage(w).kind = "unencodable"
  /\ Die(w)
  /\ UNCHANGED faults

ProcessMessage(w) ==
  \/ SkipMalformed(w) \/ FetchFails(w) \/ ParseFails(w) \/ NoChunks(w)
  \/ StartPublishing(w) \/ ProduceChunk(w) \/ ProduceFails(w)
  \/ FlushReturns(w) \/ FlushRaises(w)
  \/ ProduceDeadLetter(w) \/ DeadLetterDone(w)

Next ==
  \E w \in Workers :
    \/ \E p \in Partitions : Poll(w, p)
    \/ ProcessMessage(w)
    \/ DeliverChunk(w) \/ DeliverDeadLetter(w) \/ DeliveryFails(w)
    \/ Coordinate(w) \/ Disturb(w)
    \/ Crash(w) \/ ChunkingRaises(w)

Spec == Init /\ [][Next]_vars

----------------------------------------------------------------------------
(* Safety.                                                                 *)

(* The group's offset never passes an event that no _process_message has   *)
(* returned from, whatever dies, is expelled or rebalanced meanwhile: an   *)
(* event is skipped by its handler's decision or not at all.               *)
NothingSkipped ==
  \A p \in Partitions : \A o \in 0 .. committed[p] - 1 : o \in settled[p]

(* Nothing more needs to be done for an event: it is one the processor     *)
(* drops on purpose, all its chunks are on document-chunks, or its         *)
(* envelope is on the dead-letter topic.                                   *)
Delivered(p, o) ==
  LET m == Message(p, o)
  IN  \/ m.kind = "malformed"
      \/ m.kind = "text" /\ ChunksOf(p, o) \subseteq documentChunks
      \/ \E r \in Reasons : Dead(p, o, r) \in dlq

(* An offset is committed only when the event's chunks or its dead letter  *)
(* have reached the broker, so no crash after the commit can lose it,      *)
(* unless a flush timed out, a record expired or a dead letter failed for  *)
(* this very event.                                                        *)
CommittedDelivered ==
  \A p \in Partitions : \A o \in 0 .. committed[p] - 1 : Delivered(p, o) \/ o \in lost[p]

(* Why it holds: an event is settled only when it is delivered, as what    *)
(* its handler has sent is on the topic or in the queue that it flushes    *)
(* before it returns.                                                      *)
SettledDelivered ==
  \A p \in Partitions : \A o \in settled[p] : Delivered(p, o) \/ o \in lost[p]

ChunksSentBy(w) ==
  LET p == job[w].part
      o == job[w].off
      sent == documentChunks \cup outbox[w]
  IN  /\ pc[w] \in {"publish", "flush"} => Message(p, o).kind = "text"
      /\ pc[w] = "publish" /\ o \notin lost[p] =>
           \A i \in 0 .. produced[w] - 1 : Chunk(p, o, i) \in sent
      /\ pc[w] = "flush" /\ o \notin lost[p] => ChunksOf(p, o) \subseteq sent

DeadLetterSentBy(w) ==
  LET p == job[w].part
      o == job[w].off
  IN  pc[w] = "deadLetterFlush" /\ o \notin lost[p] =>
        Dead(p, o, reason[w]) \in dlq \cup dlqOutbox[w]

DeliveryInv ==
  /\ SettledDelivered
  /\ \A w \in Workers : ChunksSentBy(w) /\ DeadLetterSentBy(w)

(* What the tests, the error-handling guide and a comment in               *)
(* _process_message say of an event whose chunks could not be published:   *)
(* its offset is not committed.  The code only refrains from committing it *)
(* then: the commit of a later event passes it.                            *)
FailedPublicationNotCommitted ==
  \A p \in Partitions : \A o \in Offsets(p) :
    /\ Dead(p, o, "chunk_publish_failed") \in dlq
    /\ ~ ChunksOf(p, o) \subseteq documentChunks
    => committed[p] <= o

(* The committed offset only moves forward: a commit an expelled worker    *)
(* sends, or one that a rebalance overtakes, does not rewind the group.    *)
CommittedOnlyForward ==
  [][\A p \in Partitions : committed'[p] >= committed[p]]_vars

(* Two workers may hold events of one partition at the same time only when *)
(* the group has expelled one of them: a partition has one live handler.   *)
OneLiveHandler ==
  \A v, w \in Workers :
    /\ pc[v] # "poll" /\ pc[w] # "poll"
    /\ joined[v] /\ joined[w]
    /\ job[v].part = job[w].part
    => v = w

(* Why NothingSkipped holds, as an inductive invariant: an owner has read  *)
(* only what is settled and the one event it works on, what lies below a   *)
(* worker's event is settled, and so is all a commit under way passes.     *)
Working(w, p, o) == pc[w] # "poll" /\ job[w] = [part |-> p, off |-> o]

ReadInOrder ==
  \A p \in Partitions : owner[p] # NoWorker =>
    \A o \in 0 .. position[p] - 1 : o \in settled[p] \/ Working(owner[p], p, o)

HandledInOrder ==
  \A w \in Workers : pc[w] # "poll" =>
    /\ job[w].off < End(job[w].part)
    /\ \A o \in 0 .. job[w].off - 1 : o \in settled[job[w].part]

RequestsSettled ==
  \A w \in Workers, p \in Partitions :
    /\ request[w][p] <= End(p)
    /\ \A o \in 0 .. request[w][p] - 1 : o \in settled[p]

OrderInv == NothingSkipped /\ ReadInOrder /\ HandledInOrder /\ RequestsSettled

(* Why CommittedOnlyForward and OneLiveHandler hold: only the owner of a   *)
(* partition has a commit under way for it, between the committed offset   *)
(* and its read position, and a member that holds an event owns its        *)
(* partition and read that event last.                                     *)
OwnersCommit ==
  /\ \A p \in Partitions : owner[p] # NoWorker =>
       joined[owner[p]] /\ committed[p] <= position[p]
  /\ \A w \in Workers, p \in Partitions : request[w][p] # 0 =>
       owner[p] = w /\ committed[p] <= request[w][p] /\ request[w][p] <= position[p]

MembersHold ==
  \A w \in Workers : pc[w] # "poll" /\ joined[w] =>
    LET p == job[w].part
    IN  /\ owner[p] = w
        /\ position[p] = job[w].off + 1
        /\ committed[p] <= job[w].off
        /\ request[w][p] <= job[w].off

LiveInv == OwnersCommit /\ MembersHold

(* What the proofs show to be invariant.                                   *)
ProcessorInv == OrderInv /\ LiveInv /\ DeliveryInv

(* The processor is an at-least-once stage (AtLeastOnceStage): its         *)
(* committed offsets follow what its workers have finished with.           *)
Stage == INSTANCE AtLeastOnceStage
           WITH Inputs   <- Partitions,
                Length   <- [p \in Partitions |-> End(p)],
                finished <- settled,
                resume   <- committed
ImplementsStage == Stage!StageSpec

----------------------------------------------------------------------------
(* Liveness.  Every worker's loop runs, its producers' threads deliver,    *)
(* and the coordinator answers and assigns free partitions.                *)

Fairness ==
  \A w \in Workers :
    /\ WF_vars(\E p \in Partitions : Poll(w, p))
    /\ WF_vars(ProcessMessage(w)) /\ WF_vars(ChunkingRaises(w))
    /\ WF_vars(DeliverChunk(w)) /\ WF_vars(DeliverDeadLetter(w))
    /\ WF_vars(Coordinate(w))

FairSpec == Spec /\ Fairness

(* Every event comes out at the other end, complete or as a dead letter,   *)
(* although workers die half-way through its chunks, unless something of   *)
(* it got lost unnoticed.                                                  *)
EveryEventDelivered ==
  \A p \in Partitions : \A o \in Offsets(p) : <>[](Delivered(p, o) \/ o \in lost[p])

(* In the end the lag of the group consists of failed publications only:   *)
(* events whose chunks could not be published and that nobody followed by  *)
(* a commit.                                                               *)
LagIsFailedPublications ==
  \A p \in Partitions :
    <>[](\A o \in committed[p] .. End(p) - 1 :
           Dead(p, o, "chunk_publish_failed") \in dlq \/ o \in lost[p])

=============================================================================
