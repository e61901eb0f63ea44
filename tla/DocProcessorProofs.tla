-------------------------- MODULE DocProcessorProofs --------------------------
(***************************************************************************)
(* Theorems about the document processor, for any number of workers,       *)
(* partitions, events and faults.                                          *)
(***************************************************************************)
EXTENDS DocProcessor, TLAPS

----------------------------------------------------------------------------
(* The operations of the consumer group keep its types.                   *)

(* The end of a partition's log is a natural number.                       *)
LEMMA EndType == \A p \in Partitions : End(p) \in Nat
BY GroupAssumption DEF End

(* The numbers up to m are m and those below it.                           *)
LEMMA UpTo == \A m \in Nat : \A o \in 0 .. (m + 1) - 1 : o = m \/ o \in 0 .. m - 1
OBVIOUS

(* A fault stays within the bound.                                         *)
LEMMA FaultType ==
  ASSUME NEW k, faults \in 0 .. MaxFaults, Fault(k)
  PROVE  faults' \in 0 .. MaxFaults
BY FaultAssumption DEF Fault

(* Each operation of a worker or of the coordinator keeps the types of the *)
(* group's state.                                                          *)
LEMMA FetchType ==
  ASSUME GroupTypeOK, NEW w \in Workers, NEW p \in Partitions, Fetch(w, p)
  PROVE  GroupTypeOK'
BY DEF Fetch, GroupTypeOK, MemberTypeOK

(* A worker's commit keeps the types of the group's state.                 *)
LEMMA CommitType ==
  ASSUME MemberTypeOK, NEW w \in Workers, NEW p \in Partitions, NEW o \in Nat,
         Commit(w, p, o)
  PROVE  MemberTypeOK'
<1>1. CASE joined[w]
  <2>1. request' = [request EXCEPT ![w] = [request[w] EXCEPT ![p] = o + 1]]
    BY <1>1 DEF Commit, MemberTypeOK
  <2>2. request[w] \in [Partitions -> Nat]
    BY DEF MemberTypeOK
  <2>3. [request[w] EXCEPT ![p] = o + 1] \in [Partitions -> Nat]
    BY <2>2
  <2>4. request' \in [Workers -> [Partitions -> Nat]]
    BY <2>1, <2>3 DEF MemberTypeOK
  <2>5. QED
    BY <2>4 DEF Commit, MemberTypeOK
<1>2. CASE ~joined[w]
  BY <1>2 DEF Commit, MemberTypeOK
<1>3. QED
  BY <1>1, <1>2

(* What it does to the requests under way: only one may change.           *)
LEMMA CommitRequest ==
  ASSUME MemberTypeOK, NEW w \in Workers, NEW p \in Partitions, NEW o \in Nat,
         Commit(w, p, o), NEW v \in Workers, NEW q \in Partitions
  PROVE  \/ request'[v][q] = request[v][q]
         \/ v = w /\ q = p /\ joined[w] /\ request'[v][q] = o + 1
<1>1. CASE joined[w]
  <2>1. request' = [request EXCEPT ![w] = [request[w] EXCEPT ![p] = o + 1]]
    BY <1>1 DEF Commit
  <2>2. request[w] \in [Partitions -> Nat] /\ request \in [Workers -> [Partitions -> Nat]]
    BY DEF MemberTypeOK
  <2>3. CASE v = w
    BY <1>1, <2>1, <2>2, <2>3
  <2>4. CASE v # w
    BY <2>1, <2>2, <2>4
  <2>5. QED
    BY <2>3, <2>4
<1>2. CASE ~joined[w]
  BY <1>2 DEF Commit
<1>3. QED
  BY <1>1, <1>2

(* A commit that reaches the coordinator keeps the types, too, ...         *)
LEMMA CommitLandsType ==
  ASSUME GroupTypeOK, NEW w \in Workers, NEW p \in Partitions, CommitLands(w, p)
  PROVE  GroupTypeOK'
<1> USE DEF GroupTypeOK, MemberTypeOK
<1>1. request[w] \in [Partitions -> Nat] /\ request[w][p] \in Nat
  OBVIOUS
<1>2. committed' \in [Partitions -> Nat]
  BY <1>1 DEF CommitLands
<1>3. [request[w] EXCEPT ![p] = 0] \in [Partitions -> Nat]
  BY <1>1
<1>4. request' = [request EXCEPT ![w] = [request[w] EXCEPT ![p] = 0]]
  BY DEF CommitLands
<1>5. request' \in [Workers -> [Partitions -> Nat]]
  BY <1>3, <1>4
<1>6. QED
  BY <1>2, <1>5 DEF CommitLands

(* ... the assignment of a free partition, ...                             *)
LEMMA AssignType ==
  ASSUME GroupTypeOK, NEW w \in Workers, NEW p \in Partitions, Assign(w, p)
  PROVE  GroupTypeOK'
BY DEF Assign, GroupTypeOK, MemberTypeOK

(* ... a worker that joins again, ...                                      *)
LEMMA RejoinType ==
  ASSUME GroupTypeOK, NEW w \in Workers, Rejoin(w)
  PROVE  GroupTypeOK'
BY DEF Rejoin, GroupTypeOK, MemberTypeOK

(* ... a partition that is taken from its owner, ...                       *)
LEMMA RevokeType ==
  ASSUME GroupTypeOK, NEW w \in Workers, NEW p \in Partitions, Revoke(w, p)
  PROVE  GroupTypeOK'
<1>1. faults' \in 0 .. MaxFaults
  BY FaultType DEF Revoke, GroupTypeOK
<1>2. QED
  BY <1>1 DEF Revoke, GroupTypeOK, MemberTypeOK, NoRequests

(* ... a member that leaves, ...                                           *)
LEMMA LeaveType ==
  ASSUME MemberTypeOK, NEW w \in Workers, Leave(w)
  PROVE  MemberTypeOK'
BY DEF Leave, MemberTypeOK, NoRequests

(* ... one that is expelled, ...                                           *)
LEMMA ExpelType ==
  ASSUME GroupTypeOK, NEW w \in Workers, Expel(w)
  PROVE  GroupTypeOK'
BY FaultType, LeaveType DEF Expel, GroupTypeOK

(* ... and a step of something else.                                       *)
LEMMA UnchangedGroupType ==
  ASSUME GroupTypeOK, UNCHANGED groupVars
  PROVE  GroupTypeOK'
BY DEF groupVars, memberVars, GroupTypeOK, MemberTypeOK

----------------------------------------------------------------------------
(* Type correctness.                                                       *)

(* The place holder of a worker without an event is a job.                 *)
LEMMA NoJobType == NoJob \in Job
BY GroupAssumption DEF NoJob, Job

(* The event a worker polls is a job.                                      *)
LEMMA JobType ==
  ASSUME WorkerTypeOK, NEW w \in Workers
  PROVE  job[w].part \in Partitions /\ job[w].off \in Nat
BY DEF WorkerTypeOK, Job

(* Returning to the poll loop keeps the types of a worker's state, ...     *)
LEMMA BackToPollType ==
  ASSUME WorkerTypeOK, NEW w \in Workers, BackToPoll(w)
  PROVE  /\ pc' \in [Workers -> Stages]
         /\ job' \in [Workers -> Job]
         /\ produced' \in [Workers -> Nat]
         /\ reason' \in [Workers -> Reasons]
BY NoJobType DEF BackToPoll, GoTo, WorkerTypeOK, Stages, Reasons

(* ... and so do returning from _process_message, ...                      *)
LEMMA ReturnType ==
  ASSUME WorkerTypeOK, NEW w \in Workers, Return(w)
  PROVE  WorkerTypeOK'
<1>1. settled' \in [Partitions -> SUBSET Nat]
  BY JobType DEF Return, WorkerTypeOK
<1>2. QED
  BY <1>1, BackToPollType DEF Return, WorkerTypeOK

(* ... committing and returning, ...                                       *)
LEMMA CommitAndReturnType ==
  ASSUME MemberTypeOK, WorkerTypeOK, NEW w \in Workers, CommitAndReturn(w)
  PROVE  MemberTypeOK' /\ WorkerTypeOK'
BY JobType, CommitType, ReturnType DEF CommitAndReturn

(* ... and starting to send a dead letter.                                 *)
LEMMA SendToDlqType ==
  ASSUME WorkerTypeOK, OutTypeOK, NEW w \in Workers, NEW r \in Reasons, SendToDlq(w, r)
  PROVE  WorkerTypeOK' /\ OutTypeOK'
BY DEF SendToDlq, GoTo, WorkerTypeOK, OutTypeOK, sentVars, outVars, Stages

(* Types survive a step that leaves the producers' side alone, ...         *)
LEMMA UnchangedOutType ==
  ASSUME OutTypeOK, UNCHANGED outVars
  PROVE  OutTypeOK'
BY DEF OutTypeOK, sentVars, outVars

(* ... one that only loses something of an event, ...                      *)
LEMMA LoseType ==
  ASSUME OutTypeOK, NEW p \in Partitions, NEW o \in Nat, UNCHANGED sentVars,
         UNCHANGED lost \/ Lose(p, o)
  PROVE  OutTypeOK'
BY DEF OutTypeOK, sentVars, Lose

(* ... and one that leaves the group alone or counts a fault.              *)
LEMMA UnchangedMemberType ==
  ASSUME MemberTypeOK, UNCHANGED memberVars
  PROVE  MemberTypeOK'
BY DEF MemberTypeOK, memberVars

(* One call of a step of _process_message keeps the types.                 *)
LEMMA ProcessMessageType ==
  ASSUME TypeOK, NEW w \in Workers, ProcessMessage(w)
  PROVE  TypeOK'
<1> USE DEF TypeOK, GroupTypeOK
<1>1. CASE SkipMalformed(w)
  BY <1>1, CommitAndReturnType, UnchangedOutType DEF SkipMalformed
<1>2. CASE FetchFails(w)
  BY <1>2, FaultType, SendToDlqType, UnchangedMemberType DEF FetchFails, Reasons
<1>3. CASE ParseFails(w)
  BY <1>3, SendToDlqType, UnchangedGroupType DEF ParseFails, Reasons
<1>4. CASE NoChunks(w)
  BY <1>4, CommitAndReturnType, UnchangedOutType DEF NoChunks
<1>5. CASE StartPublishing(w)
  <2>1. WorkerTypeOK'
    BY <1>5 DEF StartPublishing, GoTo, WorkerTypeOK, Stages
  <2>2. QED
    BY <1>5, <2>1, UnchangedGroupType, UnchangedOutType DEF StartPublishing
<1>6. CASE ProduceChunk(w)
  <2>1. WorkerTypeOK'
    BY <1>6 DEF ProduceChunk, GoTo, WorkerTypeOK, Stages
  <2>2. Chunk(job[w].part, job[w].off, produced[w]) \in Chunks
    BY JobType DEF Chunk, Chunks, WorkerTypeOK
  <2>3. OutTypeOK'
    BY <1>6, <2>2 DEF ProduceChunk, OutTypeOK
  <2>4. QED
    BY <1>6, <2>1, <2>3, UnchangedGroupType DEF ProduceChunk
<1>7. CASE ProduceFails(w)
  BY <1>7, FaultType, SendToDlqType, UnchangedMemberType DEF ProduceFails, Reasons
<1>8. CASE FlushReturns(w)
  <2>1. OutTypeOK'
    BY <1>8, JobType, LoseType DEF FlushReturns
  <2>2. QED
    BY <1>8, <2>1, FaultType, CommitAndReturnType DEF FlushReturns
<1>9. CASE FlushRaises(w)
  BY <1>9, FaultType, SendToDlqType, UnchangedMemberType DEF FlushRaises, Reasons
<1>10. CASE ProduceDeadLetter(w)
  <2>1. WorkerTypeOK'
    BY <1>10 DEF ProduceDeadLetter, GoTo, WorkerTypeOK, Stages
  <2>2. Dead(job[w].part, job[w].off, reason[w]) \in DeadLetters
    BY JobType DEF Dead, DeadLetters, WorkerTypeOK
  <2>3. OutTypeOK'
    BY <1>10, <2>2 DEF ProduceDeadLetter, OutTypeOK
  <2>4. QED
    BY <1>10, <2>1, <2>3, UnchangedGroupType DEF ProduceDeadLetter
<1>11. CASE DeadLetterDone(w)
  <2>1. MemberTypeOK'
    BY <1>11, JobType, CommitType, UnchangedMemberType DEF DeadLetterDone
  <2>2. faults' \in 0 .. MaxFaults
    BY <1>11, FaultType DEF DeadLetterDone
  <2>3. OutTypeOK'
    BY <1>11, JobType, LoseType DEF DeadLetterDone
  <2>4. QED
    BY <1>11, <2>1, <2>2, <2>3, ReturnType DEF DeadLetterDone
<1>12. QED
  BY <1>1, <1>2, <1>3, <1>4, <1>5, <1>6, <1>7, <1>8, <1>9, <1>10, <1>11
  DEF ProcessMessage

(* Every variable keeps its type.                                          *)
THEOREM TypeCorrect == Spec => []TypeOK
<1>1. Init => TypeOK
  BY NoJobType, GroupAssumption, FaultAssumption
  DEF Init, GroupInit, TypeOK, GroupTypeOK, MemberTypeOK, WorkerTypeOK, OutTypeOK,
      NoRequests, Stages, Reasons
<1>2. TypeOK /\ [Next]_vars => TypeOK'
  <2> SUFFICES ASSUME TypeOK, [Next]_vars PROVE TypeOK'
    OBVIOUS
  <2> USE DEF TypeOK
  <2>1. ASSUME NEW w \in Workers, NEW p \in Partitions, Poll(w, p) PROVE TypeOK'
    <3>1. GroupTypeOK'
      BY <2>1, FetchType DEF Poll
    <3>2. [part |-> p, off |-> position[p]] \in Job
      BY DEF GroupTypeOK, MemberTypeOK, Job
    <3>3. WorkerTypeOK'
      BY <2>1, <3>2 DEF Poll, GoTo, WorkerTypeOK, Stages
    <3>4. QED
      BY <2>1, <3>1, <3>3, UnchangedOutType DEF Poll
  <2>2. ASSUME NEW w \in Workers, ProcessMessage(w) PROVE TypeOK'
    BY <2>2, ProcessMessageType
  <2>3. ASSUME NEW w \in Workers, DeliverChunk(w) PROVE TypeOK'
    <3>1. OutTypeOK'
      BY <2>3 DEF DeliverChunk, OutTypeOK
    <3>2. WorkerTypeOK'
      BY <2>3 DEF DeliverChunk, WorkerTypeOK, workerVars
    <3>3. QED
      BY <2>3, <3>1, <3>2, UnchangedGroupType DEF DeliverChunk
  <2>4. ASSUME NEW w \in Workers, DeliverDeadLetter(w) PROVE TypeOK'
    <3>1. OutTypeOK'
      BY <2>4 DEF DeliverDeadLetter, OutTypeOK
    <3>2. WorkerTypeOK'
      BY <2>4 DEF DeliverDeadLetter, WorkerTypeOK, workerVars
    <3>3. QED
      BY <2>4, <3>1, <3>2, UnchangedGroupType DEF DeliverDeadLetter
  <2>5. ASSUME NEW w \in Workers, DeliveryFails(w) PROVE TypeOK'
    <3>1. OutTypeOK'
      BY <2>5 DEF DeliveryFails, Lose, Chunks, DeadLetters, OutTypeOK
    <3>2. WorkerTypeOK'
      BY <2>5 DEF DeliveryFails, WorkerTypeOK, workerVars
    <3>3. GroupTypeOK'
      BY <2>5, FaultType, UnchangedMemberType DEF DeliveryFails, GroupTypeOK
    <3>4. QED
      BY <3>1, <3>2, <3>3
  <2>6. ASSUME NEW w \in Workers, Coordinate(w) PROVE TypeOK'
    <3>1. WorkerTypeOK'
      BY <2>6 DEF Coordinate, WorkerTypeOK, workerVars
    <3>2. GroupTypeOK'
      BY <2>6, CommitLandsType, RejoinType, AssignType DEF Coordinate
    <3>3. QED
      BY <2>6, <3>1, <3>2, UnchangedOutType DEF Coordinate
  <2>7. ASSUME NEW w \in Workers, Disturb(w) PROVE TypeOK'
    <3>1. WorkerTypeOK'
      BY <2>7 DEF Disturb, WorkerTypeOK, workerVars
    <3>2. GroupTypeOK'
      BY <2>7, RevokeType, ExpelType DEF Disturb
    <3>3. QED
      BY <2>7, <3>1, <3>2, UnchangedOutType DEF Disturb
  <2>8. ASSUME NEW w \in Workers, Crash(w) \/ ChunkingRaises(w) PROVE TypeOK'
    <3>1. WorkerTypeOK'
      BY <2>8, BackToPollType DEF Crash, ChunkingRaises, Die, WorkerTypeOK
    <3>2. OutTypeOK'
      BY <2>8 DEF Crash, ChunkingRaises, Die, OutTypeOK
    <3>3. GroupTypeOK'
      BY <2>8, FaultType, LeaveType DEF Crash, ChunkingRaises, Die, GroupTypeOK
    <3>4. QED
      BY <3>1, <3>2, <3>3
  <2>9. CASE UNCHANGED vars
    <3>1. WorkerTypeOK' /\ OutTypeOK'
      BY <2>9 DEF vars, workerVars, sentVars, outVars, WorkerTypeOK, OutTypeOK
    <3>2. QED
      BY <2>9, <3>1, UnchangedGroupType DEF vars
  <2>10. QED
    BY <2>1, <2>2, <2>3, <2>4, <2>5, <2>6, <2>7, <2>8, <2>9 DEF Next
<1>3. QED
  BY <1>1, <1>2, PTL DEF Spec

----------------------------------------------------------------------------
(* The shape of the steps, as far as the group's order is concerned.       *)

(* A step inside _process_message touches neither the group nor the        *)
(* message the worker holds.                                               *)
InnerStep(w) ==
  /\ pc[w] # "poll"
  /\ \E s \in Stages \ {"poll"} : pc' = [pc EXCEPT ![w] = s]
  /\ UNCHANGED <<memberVars, job, settled>>

(* The step that ends it settles the message, and may ask for a commit.    *)
LastStep(w) ==
  /\ pc[w] # "poll"
  /\ Return(w)
  /\ Commit(w, job[w].part, job[w].off) \/ UNCHANGED memberVars

(* Every step of _process_message goes on with the same event without      *)
(* touching the group, or is its last one.                                 *)
LEMMA ProcessMessageShape ==
  ASSUME NEW w \in Workers, ProcessMessage(w)
  PROVE  InnerStep(w) \/ LastStep(w)
<1> USE DEF InnerStep, LastStep, groupVars, GoTo, Stages
<1>1. CASE SkipMalformed(w)
  BY <1>1 DEF SkipMalformed, CommitAndReturn
<1>2. CASE FetchFails(w)
  BY <1>2 DEF FetchFails, SendToDlq
<1>3. CASE ParseFails(w)
  BY <1>3 DEF ParseFails, SendToDlq
<1>4. CASE NoChunks(w)
  BY <1>4 DEF NoChunks, CommitAndReturn
<1>5. CASE StartPublishing(w)
  BY <1>5 DEF StartPublishing
<1>6. CASE ProduceChunk(w)
  BY <1>6 DEF ProduceChunk
<1>7. CASE ProduceFails(w)
  BY <1>7 DEF ProduceFails, SendToDlq
<1>8. CASE FlushReturns(w)
  BY <1>8 DEF FlushReturns, CommitAndReturn
<1>9. CASE FlushRaises(w)
  BY <1>9 DEF FlushRaises, SendToDlq
<1>10. CASE ProduceDeadLetter(w)
  BY <1>10 DEF ProduceDeadLetter
<1>11. CASE DeadLetterDone(w)
  BY <1>11 DEF DeadLetterDone
<1>12. QED
  BY <1>1, <1>2, <1>3, <1>4, <1>5, <1>6, <1>7, <1>8, <1>9, <1>10, <1>11
  DEF ProcessMessage

(* The invariants below read these variables only.                         *)
orderVars == <<memberVars, pc, job, settled>>

(* What the producers' threads do touches neither the group nor a worker.  *)
LEMMA DeliveryShape ==
  ASSUME NEW w \in Workers, DeliverChunk(w) \/ DeliverDeadLetter(w) \/ DeliveryFails(w)
  PROVE  UNCHANGED orderVars
BY DEF DeliverChunk, DeliverDeadLetter, DeliveryFails, orderVars, groupVars, workerVars

----------------------------------------------------------------------------
(* No event is skipped.                                                    *)

(* OrderInv survives a step that changes nothing it speaks of, ...         *)
LEMMA UnchangedOrder ==
  ASSUME OrderInv, UNCHANGED orderVars
  PROVE  OrderInv'
BY DEF OrderInv, NothingSkipped, ReadInOrder, HandledInOrder, RequestsSettled,
       Working, orderVars, memberVars

(* ... the poll of the next event, ...                                     *)
LEMMA PollOrder ==
  ASSUME TypeOK, OrderInv, NEW w \in Workers, NEW p \in Partitions, Poll(w, p)
  PROVE  OrderInv'
<1> USE DEF TypeOK, GroupTypeOK, MemberTypeOK, WorkerTypeOK, Poll, Fetch, GoTo
<1>1. NothingSkipped' /\ RequestsSettled'
  BY DEF OrderInv, NothingSkipped, RequestsSettled
<1>2. \A o \in 0 .. position[p] - 1 : o \in settled[p]
  BY GroupAssumption DEF OrderInv, ReadInOrder, Working
<1>3. HandledInOrder'
  BY <1>2 DEF OrderInv, HandledInOrder, Job
<1>4. ReadInOrder'
  <2> SUFFICES ASSUME NEW q \in Partitions, owner[q] # NoWorker,
                      NEW o \in 0 .. position'[q] - 1
               PROVE  o \in settled[q] \/ Working(owner[q], q, o)'
    BY DEF ReadInOrder
  <2>1. CASE q = p
    <3>1. owner[q] = w /\ position'[q] = position[p] + 1
      BY <2>1
    <3>2. CASE o = position[p]
      BY <2>1, <3>1, <3>2 DEF Working
    <3>3. CASE o # position[p]
      BY <2>1, <3>1, <3>3, <1>2
    <3>4. QED
      BY <3>2, <3>3
  <2>2. CASE q # p
    <3>1. position'[q] = position[q]
      BY <2>2
    <3>2. CASE owner[q] = w
      BY <3>1, <3>2 DEF OrderInv, ReadInOrder, Working
    <3>3. CASE owner[q] # w
      BY <3>1, <3>3 DEF OrderInv, ReadInOrder, Working
    <3>4. QED
      BY <3>2, <3>3
  <2>3. QED
    BY <2>1, <2>2
<1>5. QED
  BY <1>1, <1>3, <1>4 DEF OrderInv

(* ... a step in the middle of _process_message, ...                       *)
LEMMA InnerOrder ==
  ASSUME TypeOK, OrderInv, NEW w \in Workers, InnerStep(w)
  PROVE  OrderInv'
<1> USE DEF InnerStep, TypeOK, WorkerTypeOK, memberVars
<1>1. NothingSkipped' /\ RequestsSettled'
  BY DEF OrderInv, NothingSkipped, RequestsSettled
<1>2. HandledInOrder'
  BY DEF OrderInv, HandledInOrder
<1>3. ReadInOrder'
  BY GroupAssumption DEF OrderInv, ReadInOrder, Working
<1>4. QED
  BY <1>1, <1>2, <1>3 DEF OrderInv

(* ... its last step, which settles the event and may commit it, ...       *)
LEMMA LastOrder ==
  ASSUME TypeOK, OrderInv, NEW w \in Workers, LastStep(w)
  PROVE  OrderInv'
<1> USE DEF TypeOK, GroupTypeOK, MemberTypeOK, WorkerTypeOK
<1> DEFINE q == job[w].part
           n == job[w].off
<1>1. q \in Partitions /\ n \in Nat
  BY JobType
<1>2. settled' = [settled EXCEPT ![q] = @ \cup {n}]
  BY DEF LastStep, Return
<1>3. pc' = [pc EXCEPT ![w] = "poll"] /\ job' = [job EXCEPT ![w] = NoJob]
  BY DEF LastStep, Return, BackToPoll, GoTo
<1>4. UNCHANGED <<owner, position, committed>>
  BY DEF LastStep, Commit, memberVars
<1>5. \A p \in Partitions : settled[p] \subseteq settled'[p]
  BY <1>1, <1>2
<1>6. n < End(q) /\ \A o \in 0 .. n - 1 : o \in settled[q]
  BY DEF LastStep, OrderInv, HandledInOrder
<1>7. NothingSkipped'
  BY <1>4, <1>5 DEF OrderInv, NothingSkipped
<1>8. HandledInOrder'
  <2> SUFFICES ASSUME NEW v \in Workers, pc'[v] # "poll"
               PROVE  /\ job'[v].off < End(job'[v].part)
                      /\ \A o \in 0 .. job'[v].off - 1 : o \in settled'[job'[v].part]
    BY DEF HandledInOrder
  <2>1. v # w /\ job'[v] = job[v] /\ pc'[v] = pc[v]
    BY <1>3
  <2>2. QED
    BY <2>1, <1>5, JobType DEF OrderInv, HandledInOrder
<1>9. ReadInOrder'
  <2> SUFFICES ASSUME NEW p \in Partitions, owner[p] # NoWorker,
                      NEW o \in 0 .. position[p] - 1
               PROVE  o \in settled'[p] \/ Working(owner[p], p, o)'
    BY <1>4 DEF ReadInOrder
  <2>1. CASE o \in settled[p]
    BY <2>1, <1>5
  <2>2. CASE Working(owner[p], p, o) /\ owner[p] = w
    BY <2>2, <1>1, <1>2 DEF Working
  <2>3. CASE Working(owner[p], p, o) /\ owner[p] # w
    BY <2>3, <1>3, <1>4 DEF Working
  <2>4. QED
    BY <2>1, <2>2, <2>3 DEF OrderInv, ReadInOrder
<1>10. RequestsSettled'
  <2> SUFFICES ASSUME NEW v \in Workers, NEW p \in Partitions
               PROVE  /\ request'[v][p] <= End(p)
                      /\ \A o \in 0 .. request'[v][p] - 1 : o \in settled'[p]
    BY DEF RequestsSettled
  <2>1. CASE request'[v][p] = request[v][p]
    BY <2>1, <1>5 DEF OrderInv, RequestsSettled
  <2>2. CASE v = w /\ p = q /\ request'[w][q] = n + 1
    <3>1. n \in settled'[q] /\ \A o \in 0 .. n - 1 : o \in settled'[q]
      BY <1>1, <1>2, <1>5, <1>6
    <3>2. n + 1 <= End(q)
      BY <1>1, <1>6, EndType
    <3>3. \A o \in 0 .. (n + 1) - 1 : o = n \/ o \in 0 .. n - 1
      BY <1>1, UpTo
    <3>4. QED
      BY <2>2, <3>1, <3>2, <3>3
  <2>3. request'[v][p] = request[v][p] \/ (v = w /\ p = q /\ request'[w][q] = n + 1)
    BY <1>1, CommitRequest DEF LastStep, memberVars
  <2>4. QED
    BY <2>1, <2>2, <2>3
<1>11. QED
  BY <1>7, <1>8, <1>9, <1>10 DEF OrderInv

(* ... a commit that reaches the coordinator, ...                          *)
LEMMA CommitLandsOrder ==
  ASSUME TypeOK, OrderInv, NEW w \in Workers, NEW p \in Partitions,
         CommitLands(w, p), UNCHANGED <<pc, job, settled>>
  PROVE  OrderInv'
<1> USE DEF TypeOK, GroupTypeOK, MemberTypeOK, CommitLands
<1>1. NothingSkipped'
  BY DEF OrderInv, NothingSkipped, RequestsSettled
<1>2. ReadInOrder' /\ HandledInOrder'
  BY DEF OrderInv, ReadInOrder, HandledInOrder, Working
<1>3. RequestsSettled'
  <2> SUFFICES ASSUME NEW v \in Workers, NEW q \in Partitions
               PROVE  request'[v][q] = 0 \/ request'[v][q] = request[v][q]
    BY EndType DEF OrderInv, RequestsSettled
  <2>1. request' = [request EXCEPT ![w] = [request[w] EXCEPT ![p] = 0]]
    OBVIOUS
  <2>2. request[w] \in [Partitions -> Nat] /\ request \in [Workers -> [Partitions -> Nat]]
    OBVIOUS
  <2>3. CASE v = w
    BY <2>1, <2>2, <2>3
  <2>4. CASE v # w
    BY <2>1, <2>2, <2>4
  <2>5. QED
    BY <2>3, <2>4
<1>4. QED
  BY <1>1, <1>2, <1>3 DEF OrderInv

(* ... an owner that starts from the committed offset, ...                 *)
LEMMA AssignOrder ==
  ASSUME TypeOK, OrderInv, NEW w \in Workers, NEW p \in Partitions,
         Assign(w, p), UNCHANGED <<pc, job, settled>>
  PROVE  OrderInv'
<1> USE DEF TypeOK, GroupTypeOK, MemberTypeOK, Assign
<1>1. NothingSkipped' /\ HandledInOrder' /\ RequestsSettled'
  BY DEF OrderInv, NothingSkipped, HandledInOrder, RequestsSettled
<1>2. ReadInOrder'
  BY DEF OrderInv, NothingSkipped, ReadInOrder, Working
<1>3. QED
  BY <1>1, <1>2 DEF OrderInv

(* A worker that leaves, or that a rebalance takes a partition from, only  *)
(* loses partitions and requests.                                          *)
LEMMA LoseOrder ==
  ASSUME TypeOK, OrderInv, NEW w \in Workers,
         Leave(w) \/ (\E p \in Partitions : Revoke(w, p)),
         UNCHANGED <<pc, job, settled>>
  PROVE  OrderInv'
<1> USE DEF TypeOK, GroupTypeOK, MemberTypeOK
<1>1. UNCHANGED <<position, committed>>
  BY DEF Leave, Revoke
<1>2. NothingSkipped' /\ HandledInOrder'
  BY <1>1 DEF OrderInv, NothingSkipped, HandledInOrder
<1>3. \A p \in Partitions : owner'[p] = owner[p] \/ owner'[p] = NoWorker
  BY DEF Leave, Revoke
<1>4. ReadInOrder'
  BY <1>1, <1>3 DEF OrderInv, ReadInOrder, Working
<1>5. \A v \in Workers, p \in Partitions :
        request'[v][p] = request[v][p] \/ request'[v][p] = 0
  BY DEF Leave, Revoke, NoRequests
<1>6. RequestsSettled'
  BY <1>5, EndType DEF OrderInv, RequestsSettled
<1>7. QED
  BY <1>2, <1>4, <1>6 DEF OrderInv

(* ... and a worker that dies with its event.                              *)
LEMMA DieOrder ==
  ASSUME TypeOK, OrderInv, NEW w \in Workers, Die(w)
  PROVE  OrderInv'
<1> USE DEF TypeOK, GroupTypeOK, MemberTypeOK, WorkerTypeOK, Die, Leave, BackToPoll, GoTo
<1>1. NothingSkipped'
  BY DEF OrderInv, NothingSkipped
<1>2. HandledInOrder'
  <2> SUFFICES ASSUME NEW v \in Workers, pc'[v] # "poll"
               PROVE  pc[v] # "poll" /\ job'[v] = job[v]
    BY DEF OrderInv, HandledInOrder
  <2>1. QED
    OBVIOUS
<1>3. ReadInOrder'
  <2> SUFFICES ASSUME NEW p \in Partitions, owner'[p] # NoWorker
               PROVE  /\ owner'[p] = owner[p] /\ owner[p] # w
                      /\ pc'[owner[p]] = pc[owner[p]]
                      /\ job'[owner[p]] = job[owner[p]]
    BY DEF OrderInv, ReadInOrder, Working
  <2>1. owner'[p] = owner[p] /\ owner[p] # w /\ owner[p] \in Workers
    OBVIOUS
  <2>2. QED
    BY <2>1
<1>4. \A v \in Workers, p \in Partitions :
        request'[v][p] = request[v][p] \/ request'[v][p] = 0
  BY DEF NoRequests
<1>5. RequestsSettled'
  <2> SUFFICES ASSUME NEW v \in Workers, NEW p \in Partitions
               PROVE  /\ request'[v][p] <= End(p)
                      /\ \A o \in 0 .. request'[v][p] - 1 : o \in settled[p]
    BY DEF RequestsSettled
  <2>1. CASE request'[v][p] = request[v][p]
    BY <2>1 DEF OrderInv, RequestsSettled
  <2>2. CASE request'[v][p] = 0
    BY <2>2, EndType
  <2>3. QED
    BY <1>4, <2>1, <2>2
<1>6. QED
  BY <1>1, <1>2, <1>3, <1>5 DEF OrderInv

(* The committed offset never passes an event whose handler has not        *)
(* returned: _process_message decides about every event, however often     *)
(* pods die, are expelled, or lose their partitions.                       *)
THEOREM OrderCorrect == Spec => []OrderInv
<1>1. Init => OrderInv
  <2> SUFFICES ASSUME Init PROVE OrderInv
    OBVIOUS
  <2> USE DEF Init, GroupInit, NoRequests
  <2>1. NothingSkipped
    BY DEF NothingSkipped
  <2>2. ReadInOrder
    BY DEF ReadInOrder
  <2>3. HandledInOrder
    BY DEF HandledInOrder
  <2>4. RequestsSettled
    BY EndType DEF RequestsSettled
  <2>5. QED
    BY <2>1, <2>2, <2>3, <2>4 DEF OrderInv
<1>2. TypeOK /\ OrderInv /\ [Next]_vars => OrderInv'
  <2> SUFFICES ASSUME TypeOK, OrderInv, [Next]_vars PROVE OrderInv'
    OBVIOUS
  <2>1. ASSUME NEW w \in Workers, NEW p \in Partitions, Poll(w, p) PROVE OrderInv'
    BY <2>1, PollOrder
  <2>2. ASSUME NEW w \in Workers, ProcessMessage(w) PROVE OrderInv'
    BY <2>2, ProcessMessageShape, InnerOrder, LastOrder
  <2>3. ASSUME NEW w \in Workers, DeliverChunk(w) \/ DeliverDeadLetter(w) \/ DeliveryFails(w)
        PROVE  OrderInv'
    BY <2>3, DeliveryShape, UnchangedOrder
  <2>4. ASSUME NEW w \in Workers, Coordinate(w) PROVE OrderInv'
    <3>1. UNCHANGED <<pc, job, settled>>
      BY <2>4 DEF Coordinate, workerVars
    <3>2. CASE Rejoin(w)
      BY <3>1, <3>2
      DEF Rejoin, OrderInv, NothingSkipped, ReadInOrder, HandledInOrder,
          RequestsSettled, Working
    <3>3. QED
      BY <2>4, <3>1, <3>2, CommitLandsOrder, AssignOrder DEF Coordinate
  <2>5. ASSUME NEW w \in Workers, Disturb(w) PROVE OrderInv'
    BY <2>5, LoseOrder DEF Disturb, Expel, workerVars
  <2>6. ASSUME NEW w \in Workers, Crash(w) \/ ChunkingRaises(w) PROVE OrderInv'
    BY <2>6, DieOrder DEF Crash, ChunkingRaises
  <2>7. CASE UNCHANGED vars
    BY <2>7, UnchangedOrder DEF vars, groupVars, workerVars, orderVars
  <2>8. QED
    BY <2>1, <2>2, <2>3, <2>4, <2>5, <2>6, <2>7 DEF Next
<1>3. QED
  BY <1>1, <1>2, TypeCorrect, PTL DEF Spec

(* The committed offset never passes an event no handler has returned from *)
(* (processor.py:161).                                                     *)
COROLLARY NothingSkippedAlways == Spec => []NothingSkipped
<1>1. OrderInv => NothingSkipped
  BY DEF OrderInv
<1>2. QED
  BY <1>1, OrderCorrect, PTL

----------------------------------------------------------------------------
(* The committed offset moves forward, and a partition has one live        *)
(* handler.                                                                *)

(* LiveInv survives a step that changes nothing it speaks of, ...          *)
LEMMA UnchangedLive ==
  ASSUME LiveInv, UNCHANGED orderVars
  PROVE  LiveInv'
BY DEF LiveInv, OwnersCommit, MembersHold, orderVars, memberVars

(* ... the poll of the next event, ...                                     *)
LEMMA PollLive ==
  ASSUME TypeOK, LiveInv, NEW w \in Workers, NEW p \in Partitions, Poll(w, p)
  PROVE  LiveInv'
<1> USE DEF TypeOK, GroupTypeOK, MemberTypeOK, WorkerTypeOK, Poll, Fetch, GoTo
<1>1. \A q \in Partitions : position'[q] = IF q = p THEN position[p] + 1 ELSE position[q]
  OBVIOUS
<1>2. UNCHANGED <<owner, joined, request, committed>>
  OBVIOUS
<1>3. OwnersCommit'
  BY <1>1, <1>2 DEF LiveInv, OwnersCommit
<1>4. MembersHold'
  <2> SUFFICES ASSUME NEW v \in Workers, pc'[v] # "poll", joined[v]
               PROVE  LET q == job'[v].part
                      IN  /\ owner[q] = v
                          /\ position'[q] = job'[v].off + 1
                          /\ committed[q] <= job'[v].off
                          /\ request[v][q] <= job'[v].off
    BY <1>2 DEF MembersHold
  <2>1. CASE v = w
    <3>1. job'[v] = [part |-> p, off |-> position[p]]
      BY <2>1
    <3>2. committed[p] <= position[p]
      BY GroupAssumption DEF LiveInv, OwnersCommit
    <3>3. request[w][p] <= position[p]
      BY DEF LiveInv, OwnersCommit
    <3>4. QED
      BY <2>1, <3>1, <3>2, <3>3, <1>1
  <2>2. CASE v # w
    <3>1. job'[v] = job[v] /\ pc'[v] = pc[v]
      BY <2>2
    <3>2. job[v].part # p
      BY <2>2, <3>1 DEF LiveInv, MembersHold
    <3>3. QED
      BY <3>1, <3>2, <1>1, JobType DEF LiveInv, MembersHold
  <2>3. QED
    BY <2>1, <2>2
<1>5. QED
  BY <1>3, <1>4 DEF LiveInv

(* ... a step in the middle of _process_message, ...                       *)
LEMMA InnerLive ==
  ASSUME TypeOK, LiveInv, NEW w \in Workers, InnerStep(w)
  PROVE  LiveInv'
<1> USE DEF InnerStep, TypeOK, WorkerTypeOK, memberVars
<1>1. OwnersCommit'
  BY DEF LiveInv, OwnersCommit
<1>2. MembersHold'
  BY DEF LiveInv, MembersHold
<1>3. QED
  BY <1>1, <1>2 DEF LiveInv

(* ... its last step, ...                                                  *)
LEMMA LastLive ==
  ASSUME TypeOK, LiveInv, NEW w \in Workers, LastStep(w)
  PROVE  LiveInv'
<1> DEFINE q == job[w].part
           n == job[w].off
<1>1. q \in Partitions /\ n \in Nat
  BY JobType DEF TypeOK
<1>2. pc' = [pc EXCEPT ![w] = "poll"] /\ job' = [job EXCEPT ![w] = NoJob]
  BY DEF LastStep, Return, BackToPoll, GoTo
<1>3. UNCHANGED <<owner, joined, position, committed>>
  BY DEF LastStep, Commit, memberVars
<1>4. \A v \in Workers, p \in Partitions :
        \/ request'[v][p] = request[v][p]
        \/ v = w /\ p = q /\ joined[w] /\ request'[v][p] = n + 1
  <2>1. CASE UNCHANGED memberVars
    BY <2>1 DEF memberVars
  <2>2. CASE Commit(w, q, n)
    BY <2>2, <1>1, CommitRequest DEF TypeOK, GroupTypeOK
  <2>3. QED
    BY <2>1, <2>2 DEF LastStep
<1>5. joined[w] => owner[q] = w /\ position[q] = n + 1 /\ committed[q] <= n
  BY DEF LiveInv, MembersHold, LastStep
<1>6. OwnersCommit'
  <2>1. \A p \in Partitions : owner[p] # NoWorker =>
          joined[owner[p]] /\ committed[p] <= position[p]
    BY DEF LiveInv, OwnersCommit
  <2>2. ASSUME NEW v \in Workers, NEW p \in Partitions, request'[v][p] # 0
        PROVE  owner[p] = v /\ committed[p] <= request'[v][p]
               /\ request'[v][p] <= position[p]
    <3>1. CASE request'[v][p] = request[v][p]
      BY <2>2, <3>1 DEF LiveInv, OwnersCommit
    <3>2. CASE v = w /\ p = q /\ joined[w] /\ request'[v][p] = n + 1
      <4>1. committed[q] \in Nat
        BY <1>1 DEF TypeOK, GroupTypeOK, MemberTypeOK
      <4>2. QED
        BY <3>2, <1>1, <1>5, <4>1
    <3>3. QED
      BY <3>1, <3>2, <1>4
  <2>3. QED
    BY <2>1, <2>2, <1>3 DEF OwnersCommit
<1>7. MembersHold'
  <2> SUFFICES ASSUME NEW v \in Workers, pc'[v] # "poll", joined[v]
               PROVE  LET p == job'[v].part
                      IN  /\ owner[p] = v
                          /\ position[p] = job'[v].off + 1
                          /\ committed[p] <= job'[v].off
                          /\ request'[v][p] <= job'[v].off
    BY <1>3 DEF MembersHold
  <2>1. v # w /\ pc'[v] = pc[v] /\ job'[v] = job[v]
    BY <1>2 DEF TypeOK, WorkerTypeOK
  <2>2. job[v].part \in Partitions
    BY JobType DEF TypeOK
  <2>3. request'[v][job[v].part] = request[v][job[v].part]
    BY <2>1, <2>2, <1>4
  <2>4. QED
    BY <2>1, <2>3 DEF LiveInv, MembersHold
<1>8. QED
  BY <1>6, <1>7 DEF LiveInv

(* ... a commit that reaches the coordinator, ...                          *)
LEMMA CommitLandsLive ==
  ASSUME TypeOK, LiveInv, NEW w \in Workers, NEW p \in Partitions,
         CommitLands(w, p), UNCHANGED <<pc, job, settled>>
  PROVE  LiveInv' /\ \A q \in Partitions : committed'[q] >= committed[q]
<1> DEFINE n == request[w][p]
<1>1. request[w] \in [Partitions -> Nat] /\ request \in [Workers -> [Partitions -> Nat]]
  BY DEF TypeOK, GroupTypeOK, MemberTypeOK
<1>2. n # 0 /\ owner[p] = w /\ committed[p] <= n /\ n <= position[p] /\ n \in Nat
  BY <1>1 DEF CommitLands, LiveInv, OwnersCommit
<1>3. committed' = [committed EXCEPT ![p] = n]
  BY DEF CommitLands
<1>4. request' = [request EXCEPT ![w] = [request[w] EXCEPT ![p] = 0]]
  BY DEF CommitLands
<1>5. \A v \in Workers, q \in Partitions :
        request'[v][q] = IF v = w /\ q = p THEN 0 ELSE request[v][q]
  BY <1>1, <1>4
<1>6. \A q \in Partitions :
        committed'[q] = IF q = p THEN n ELSE committed[q]
  BY <1>3 DEF TypeOK, GroupTypeOK, MemberTypeOK
<1>7. \A q \in Partitions : committed[q] \in Nat
  BY DEF TypeOK, GroupTypeOK, MemberTypeOK
<1>8. UNCHANGED <<owner, joined, position>>
  BY DEF CommitLands
<1>9. OwnersCommit'
  <2>1. \A q \in Partitions : owner[q] # NoWorker =>
          joined[owner[q]] /\ committed'[q] <= position[q]
    BY <1>2, <1>6 DEF LiveInv, OwnersCommit
  <2>2. ASSUME NEW v \in Workers, NEW q \in Partitions, request'[v][q] # 0
        PROVE  owner[q] = v /\ committed'[q] <= request'[v][q]
               /\ request'[v][q] <= position[q]
    <3>1. ~(v = w /\ q = p) /\ request'[v][q] = request[v][q]
      BY <2>2, <1>5
    <3>2. owner[q] = v
      BY <2>2, <3>1 DEF LiveInv, OwnersCommit
    <3>3. q # p
      BY <3>1, <3>2, <1>2
    <3>4. QED
      BY <2>2, <3>1, <3>2, <3>3, <1>6 DEF LiveInv, OwnersCommit
  <2>3. QED
    BY <2>1, <2>2, <1>8 DEF OwnersCommit
<1>10. MembersHold'
  <2> SUFFICES ASSUME NEW v \in Workers, pc[v] # "poll", joined[v]
               PROVE  LET q == job[v].part
                      IN  /\ owner[q] = v
                          /\ position[q] = job[v].off + 1
                          /\ committed'[q] <= job[v].off
                          /\ request'[v][q] <= job[v].off
    BY <1>8 DEF MembersHold
  <2>1. job[v].part \in Partitions /\ job[v].off \in Nat
    BY JobType DEF TypeOK
  <2>2. owner[job[v].part] = v /\ position[job[v].part] = job[v].off + 1
        /\ committed[job[v].part] <= job[v].off /\ request[v][job[v].part] <= job[v].off
    BY DEF LiveInv, MembersHold
  <2>3. committed'[job[v].part] <= job[v].off
    BY <2>1, <2>2, <1>2, <1>6
  <2>4. request'[v][job[v].part] <= job[v].off
    BY <2>1, <2>2, <1>5
  <2>5. QED
    BY <2>2, <2>3, <2>4
<1>11. \A q \in Partitions : committed'[q] >= committed[q]
  BY <1>2, <1>6, <1>7
<1>12. QED
  BY <1>9, <1>10, <1>11 DEF LiveInv

(* ... the assignment of a free partition, ...                             *)
LEMMA AssignLive ==
  ASSUME TypeOK, LiveInv, NEW w \in Workers, NEW p \in Partitions,
         Assign(w, p), UNCHANGED <<pc, job, settled>>
  PROVE  LiveInv'
<1> USE DEF TypeOK, GroupTypeOK, MemberTypeOK, Assign
<1>1. \A q \in Partitions : q # p => owner'[q] = owner[q] /\ position'[q] = position[q]
  OBVIOUS
<1>2. owner'[p] = w /\ position'[p] = committed[p] /\ owner[p] = NoWorker /\ joined[w]
  OBVIOUS
<1>3. \A v \in Workers : request[v][p] = 0
  BY GroupAssumption DEF LiveInv, OwnersCommit
<1>4. OwnersCommit'
  BY <1>1, <1>2, <1>3 DEF LiveInv, OwnersCommit
<1>5. \A v \in Workers : pc[v] # "poll" /\ joined[v] => job[v].part # p
  BY <1>2, GroupAssumption DEF LiveInv, MembersHold
<1>6. MembersHold'
  BY <1>1, <1>5, JobType DEF LiveInv, MembersHold
<1>7. QED
  BY <1>4, <1>6 DEF LiveInv

(* ... an expelled worker that joins again, ...                            *)
LEMMA RejoinLive ==
  ASSUME TypeOK, LiveInv, NEW w \in Workers, pc[w] = "poll", Rejoin(w),
         UNCHANGED <<pc, job, settled>>
  PROVE  LiveInv'
<1> USE DEF TypeOK, GroupTypeOK, MemberTypeOK, Rejoin
<1>1. OwnersCommit'
  BY DEF LiveInv, OwnersCommit
<1>2. MembersHold'
  BY DEF LiveInv, MembersHold
<1>3. QED
  BY <1>1, <1>2 DEF LiveInv

(* ... a rebalance that reaches a polling worker, ...                      *)
LEMMA RevokeLive ==
  ASSUME TypeOK, LiveInv, NEW w \in Workers, pc[w] = "poll", NEW p \in Partitions,
         Revoke(w, p), UNCHANGED <<pc, job, settled>>
  PROVE  LiveInv'
<1> USE DEF TypeOK, GroupTypeOK, MemberTypeOK, Revoke
<1>1. \A v \in Workers, q \in Partitions :
        request'[v][q] = IF v = w /\ q = p THEN 0 ELSE request[v][q]
  OBVIOUS
<1>2. \A q \in Partitions : owner'[q] = IF q = p THEN NoWorker ELSE owner[q]
  OBVIOUS
<1>3. OwnersCommit'
  <2>1. ASSUME NEW q \in Partitions, owner'[q] # NoWorker
        PROVE  joined'[owner'[q]] /\ committed'[q] <= position'[q]
    BY <1>2, <2>1 DEF LiveInv, OwnersCommit
  <2>2. ASSUME NEW v \in Workers, NEW q \in Partitions, request'[v][q] # 0
        PROVE  owner'[q] = v /\ committed'[q] <= request'[v][q] /\ request'[v][q] <= position'[q]
    <3>1. request'[v][q] = request[v][q] /\ ~(v = w /\ q = p)
      BY <1>1, <2>2
    <3>2. owner[q] = v /\ committed[q] <= request[v][q] /\ request[v][q] <= position[q]
      BY <2>2, <3>1 DEF LiveInv, OwnersCommit
    <3>3. q # p
      BY <3>1, <3>2
    <3>4. QED
      BY <1>2, <3>1, <3>2, <3>3
  <2>3. QED
    BY <2>1, <2>2 DEF OwnersCommit
<1>4. MembersHold'
  <2> SUFFICES ASSUME NEW v \in Workers, pc[v] # "poll", joined[v]
               PROVE  LET q == job[v].part
                      IN  /\ owner'[q] = v
                          /\ position[q] = job[v].off + 1
                          /\ committed[q] <= job[v].off
                          /\ request'[v][q] <= job[v].off
    BY DEF MembersHold
  <2>1. job[v].part \in Partitions /\ job[v].off \in Nat
    BY JobType
  <2>2. owner[job[v].part] = v /\ position[job[v].part] = job[v].off + 1
        /\ committed[job[v].part] <= job[v].off
        /\ request[v][job[v].part] <= job[v].off
    BY DEF LiveInv, MembersHold
  <2>3. v # w /\ job[v].part # p
    BY <2>2
  <2>4. QED
    BY <2>1, <2>2, <2>3, <1>1, <1>2
<1>5. QED
  BY <1>3, <1>4 DEF LiveInv

(* ... and a member that leaves the group.                                 *)
LEMMA LeaveLive ==
  ASSUME TypeOK, LiveInv, NEW w \in Workers, Leave(w),
         \A v \in Workers : v # w => pc'[v] = pc[v] /\ job'[v] = job[v]
  PROVE  LiveInv'
<1> USE DEF TypeOK, GroupTypeOK, MemberTypeOK, Leave
<1>1. \A v \in Workers, p \in Partitions :
        request'[v][p] = IF v = w THEN 0 ELSE request[v][p]
  BY DEF NoRequests
<1>2. \A p \in Partitions : owner'[p] = IF owner[p] = w THEN NoWorker ELSE owner[p]
  OBVIOUS
<1>3. \A v \in Workers : joined'[v] = IF v = w THEN FALSE ELSE joined[v]
  OBVIOUS
<1>4. UNCHANGED <<position, committed>>
  OBVIOUS
<1>5. OwnersCommit'
  <2>1. \A p \in Partitions : owner'[p] # NoWorker =>
          joined'[owner'[p]] /\ committed[p] <= position[p]
    BY <1>2, <1>3 DEF LiveInv, OwnersCommit
  <2>2. \A v \in Workers, p \in Partitions : request'[v][p] # 0 =>
          owner'[p] = v /\ committed[p] <= request'[v][p] /\ request'[v][p] <= position[p]
    BY <1>1, <1>2 DEF LiveInv, OwnersCommit
  <2>3. QED
    BY <2>1, <2>2, <1>4 DEF OwnersCommit
<1>6. MembersHold'
  <2> SUFFICES ASSUME NEW v \in Workers, pc'[v] # "poll", joined'[v]
               PROVE  LET q == job'[v].part
                      IN  /\ owner'[q] = v
                          /\ position[q] = job'[v].off + 1
                          /\ committed[q] <= job'[v].off
                          /\ request'[v][q] <= job'[v].off
    BY <1>4 DEF MembersHold
  <2>1. v # w /\ pc'[v] = pc[v] /\ job'[v] = job[v] /\ joined[v]
    BY <1>3
  <2>2. job[v].part \in Partitions
    BY JobType
  <2>3. QED
    BY <2>1, <2>2, <1>1, <1>2 DEF LiveInv, MembersHold
<1>7. QED
  BY <1>5, <1>6 DEF LiveInv

(* One step keeps LiveInv and never moves a committed offset back.         *)
LEMMA LiveStep ==
  ASSUME TypeOK, LiveInv, [Next]_vars
  PROVE  LiveInv' /\ \A p \in Partitions : committed'[p] >= committed[p]
<1> DEFINE Forward == \A p \in Partitions : committed'[p] >= committed[p]
<1>1. ASSUME UNCHANGED committed PROVE Forward
  BY <1>1 DEF TypeOK, GroupTypeOK, MemberTypeOK
<1> HIDE DEF Forward
<1>2. ASSUME NEW w \in Workers, NEW p \in Partitions, Poll(w, p)
      PROVE  LiveInv' /\ Forward
  BY <1>1, <1>2, PollLive DEF Poll, Fetch
<1>3. ASSUME NEW w \in Workers, ProcessMessage(w) PROVE LiveInv' /\ Forward
  <2>1. UNCHANGED committed
    BY <1>3, ProcessMessageShape DEF InnerStep, LastStep, Commit, memberVars
  <2>2. LiveInv'
    BY <1>3, ProcessMessageShape, InnerLive, LastLive
  <2>3. QED
    BY <1>1, <2>1, <2>2
<1>4. ASSUME NEW w \in Workers, DeliverChunk(w) \/ DeliverDeadLetter(w) \/ DeliveryFails(w)
      PROVE  LiveInv' /\ Forward
  <2>1. UNCHANGED orderVars
    BY <1>4, DeliveryShape
  <2>2. QED
    BY <1>1, <2>1, UnchangedLive DEF orderVars, memberVars
<1>5. ASSUME NEW w \in Workers, Coordinate(w) PROVE LiveInv' /\ Forward
  <2>1. UNCHANGED <<pc, job, settled>>
    BY <1>5 DEF Coordinate, workerVars
  <2>2. ASSUME NEW p \in Partitions, CommitLands(w, p) PROVE LiveInv' /\ Forward
    BY <2>1, <2>2, CommitLandsLive DEF Forward
  <2>3. CASE pc[w] = "poll" /\ Rejoin(w)
    BY <1>1, <2>1, <2>3, RejoinLive DEF Rejoin
  <2>4. ASSUME NEW p \in Partitions, Assign(w, p) PROVE LiveInv' /\ Forward
    BY <1>1, <2>1, <2>4, AssignLive DEF Assign
  <2>5. QED
    BY <1>5, <2>2, <2>3, <2>4 DEF Coordinate
<1>6. ASSUME NEW w \in Workers, Disturb(w) PROVE LiveInv' /\ Forward
  <2>1. UNCHANGED <<pc, job, settled>>
    BY <1>6 DEF Disturb, workerVars
  <2>2. UNCHANGED committed
    BY <1>6 DEF Disturb, Revoke, Expel, Leave
  <2>3. ASSUME pc[w] = "poll", NEW p \in Partitions, Revoke(w, p) PROVE LiveInv'
    BY <2>1, <2>3, RevokeLive
  <2>4. CASE Expel(w)
    <3>1. \A v \in Workers : v # w => pc'[v] = pc[v] /\ job'[v] = job[v]
      BY <2>1
    <3>2. Leave(w)
      BY <2>4 DEF Expel
    <3>3. QED
      BY <1>1, <2>2, <3>1, <3>2, LeaveLive
  <2>5. QED
    BY <1>1, <1>6, <2>2, <2>3, <2>4 DEF Disturb
<1>7. ASSUME NEW w \in Workers, Crash(w) \/ ChunkingRaises(w) PROVE LiveInv' /\ Forward
  <2>1. \A v \in Workers : v # w => pc'[v] = pc[v] /\ job'[v] = job[v]
    BY <1>7 DEF Crash, ChunkingRaises, Die, BackToPoll, GoTo, TypeOK, WorkerTypeOK
  <2>2. Leave(w) /\ UNCHANGED committed
    BY <1>7 DEF Crash, ChunkingRaises, Die, Leave
  <2>3. QED
    BY <1>1, <2>1, <2>2, LeaveLive
<1>8. CASE UNCHANGED vars
  <2>1. UNCHANGED orderVars /\ UNCHANGED committed
    BY <1>8 DEF vars, groupVars, memberVars, workerVars, orderVars
  <2>2. QED
    BY <1>1, <2>1, UnchangedLive DEF Forward
<1>9. QED
  BY <1>2, <1>3, <1>4, <1>5, <1>6, <1>7, <1>8 DEF Next, Forward

(* Only the owner of a partition has a commit under way for it, and a      *)
(* member that holds an event owns its partition.                          *)
THEOREM LiveCorrect == Spec => []LiveInv
<1>1. Init => LiveInv
  <2> SUFFICES ASSUME Init PROVE LiveInv
    OBVIOUS
  <2> USE DEF Init, GroupInit, NoRequests
  <2>1. OwnersCommit
    BY DEF OwnersCommit
  <2>2. MembersHold
    BY DEF MembersHold
  <2>3. QED
    BY <2>1, <2>2 DEF LiveInv
<1>2. TypeOK /\ LiveInv /\ [Next]_vars => LiveInv'
  BY LiveStep
<1>3. QED
  BY <1>1, <1>2, TypeCorrect, PTL DEF Spec

(* The committed offsets never go back, although commits are asynchronous  *)
(* and expelled workers still send them.                                   *)
THEOREM CommittedForward == Spec => CommittedOnlyForward
<1>1. TypeOK /\ LiveInv /\ [Next]_vars
        => [\A p \in Partitions : committed'[p] >= committed[p]]_vars
  BY LiveStep
<1>2. QED
  BY <1>1, TypeCorrect, LiveCorrect, PTL DEF Spec, CommittedOnlyForward

(* Two members of the group never handle one partition at the same time.   *)
THEOREM OneHandler == Spec => []OneLiveHandler
<1>1. TypeOK /\ LiveInv => OneLiveHandler
  BY DEF LiveInv, MembersHold, OneLiveHandler
<1>2. QED
  BY <1>1, TypeCorrect, LiveCorrect, PTL

----------------------------------------------------------------------------
(* The processor implements the at-least-once stage.                       *)

(* Every step finishes with one event, moves one committed offset to where *)
(* everything below is finished, or leaves both as they are.               *)
THEOREM StageRefinement == Spec => ImplementsStage
<1>1. Init => Stage!StageInit
  BY DEF Init, GroupInit, Stage!StageInit
<1>2. TypeOK /\ OrderInv /\ [Next]_vars => [Stage!StageNext]_(Stage!stageVars)
  <2> SUFFICES ASSUME TypeOK, OrderInv, [Next]_vars
               PROVE  Stage!StageNext \/ UNCHANGED <<settled, committed>>
    BY DEF Stage!stageVars
  <2>1. ASSUME NEW w \in Workers, NEW p \in Partitions, Poll(w, p)
        PROVE  UNCHANGED <<settled, committed>>
    BY <2>1 DEF Poll, Fetch
  <2>2. ASSUME NEW w \in Workers, ProcessMessage(w)
        PROVE  Stage!StageNext \/ UNCHANGED <<settled, committed>>
    <3>1. CASE InnerStep(w)
      BY <3>1 DEF InnerStep, memberVars
    <3>2. CASE LastStep(w)
      <4> DEFINE q == job[w].part
                 n == job[w].off
      <4>1. q \in Partitions /\ n \in Nat
        BY JobType DEF TypeOK
      <4>2. n < End(q)
        BY <3>2 DEF LastStep, OrderInv, HandledInOrder
      <4>3. n \in 0 .. End(q) - 1
        BY <4>1, <4>2, EndType
      <4>4. settled' = [settled EXCEPT ![q] = @ \cup {n}] /\ UNCHANGED committed
        BY <3>2 DEF LastStep, Return, Commit, memberVars
      <4>5. Stage!Finish(q, n)
        BY <4>1, <4>2, <4>4 DEF Stage!Finish
      <4>6. QED
        BY <4>1, <4>3, <4>5 DEF Stage!StageNext
    <3>3. QED
      BY <2>2, <3>1, <3>2, ProcessMessageShape
  <2>3. ASSUME NEW w \in Workers, DeliverChunk(w) \/ DeliverDeadLetter(w) \/ DeliveryFails(w)
        PROVE  UNCHANGED <<settled, committed>>
    BY <2>3 DEF DeliverChunk, DeliverDeadLetter, DeliveryFails, groupVars, memberVars
  <2>4. ASSUME NEW w \in Workers, Coordinate(w)
        PROVE  Stage!StageNext \/ UNCHANGED <<settled, committed>>
    <3>1. UNCHANGED settled
      BY <2>4 DEF Coordinate
    <3>2. ASSUME NEW p \in Partitions, CommitLands(w, p) PROVE Stage!StageNext
      <4> DEFINE n == request[w][p]
      <4>1. n \in Nat
        BY DEF TypeOK, GroupTypeOK, MemberTypeOK
      <4>2. n <= End(p) /\ \A o \in 0 .. n - 1 : o \in settled[p]
        BY DEF OrderInv, RequestsSettled
      <4>3. n \in 0 .. End(p)
        BY <4>1, <4>2, EndType
      <4>4. committed' = [committed EXCEPT ![p] = n]
        BY <3>2 DEF CommitLands
      <4>5. Stage!MoveResume(p, n)
        BY <3>1, <4>2, <4>4 DEF Stage!MoveResume
      <4>6. QED
        BY <4>3, <4>5 DEF Stage!StageNext
    <3>3. QED
      BY <2>4, <3>1, <3>2 DEF Coordinate, Rejoin, Assign
  <2>5. ASSUME NEW w \in Workers, Disturb(w) \/ Crash(w) \/ ChunkingRaises(w)
        PROVE  UNCHANGED <<settled, committed>>
    BY <2>5 DEF Disturb, Crash, ChunkingRaises, Die, Revoke, Expel, Leave
  <2>6. CASE UNCHANGED vars
    BY <2>6 DEF vars, groupVars, memberVars
  <2>7. QED
    BY <2>1, <2>2, <2>3, <2>4, <2>5, <2>6 DEF Next
<1>3. QED
  BY <1>1, <1>2, TypeCorrect, OrderCorrect, PTL
  DEF Spec, ImplementsStage, Stage!StageSpec

----------------------------------------------------------------------------
(* What is committed has been delivered, or was lost unnoticed.            *)

(* Topics only grow, and so does what may be lost.                         *)
OnlyMore ==
  /\ documentChunks \subseteq documentChunks'
  /\ dlq \subseteq dlq'
  /\ \A p \in Partitions : lost[p] \subseteq lost'[p]

(* The records of v's event stay with v or on the topics, or may be lost.  *)
RecordsKept(v) ==
  LET p == job[v].part
      o == job[v].off
  IN  \/ o \in lost'[p]
      \/ /\ \A c \in outbox[v] :
              c.part = p /\ c.off = o => c \in documentChunks' \cup outbox'[v]
         /\ \A d \in dlqOutbox[v] :
              d.part = p /\ d.off = o => d \in dlq' \cup dlqOutbox'[v]

(* What is delivered stays delivered.                                      *)
LEMMA DeliveredStays ==
  ASSUME OnlyMore, NEW p, NEW o, Delivered(p, o)
  PROVE  Delivered(p, o)'
BY DEF OnlyMore, Delivered, ChunksOf, Message

(* A worker that does nothing keeps its part while the topics grow.        *)
LEMMA OthersKeep ==
  ASSUME WorkerTypeOK, OnlyMore, NEW v \in Workers, RecordsKept(v),
         ChunksSentBy(v), DeadLetterSentBy(v),
         pc'[v] = pc[v], job'[v] = job[v], produced'[v] = produced[v],
         reason'[v] = reason[v]
  PROVE  ChunksSentBy(v)' /\ DeadLetterSentBy(v)'
<1> DEFINE p == job[v].part
           o == job[v].off
<1>1. p \in Partitions
  BY JobType
<1>2. CASE o \in lost'[p]
  BY <1>2 DEF ChunksSentBy, DeadLetterSentBy, Message
<1>3. CASE o \notin lost'[p]
  <2>1. o \notin lost[p]
    BY <1>1, <1>3 DEF OnlyMore
  <2>2. \A i : Chunk(p, o, i) \in documentChunks \cup outbox[v] =>
               Chunk(p, o, i) \in documentChunks' \cup outbox'[v]
    BY <1>3 DEF RecordsKept, OnlyMore, Chunk
  <2>3. \A rr : Dead(p, o, rr) \in dlq \cup dlqOutbox[v] =>
                Dead(p, o, rr) \in dlq' \cup dlqOutbox'[v]
    BY <1>3 DEF RecordsKept, OnlyMore, Dead
  <2>4. ChunksSentBy(v)'
    BY <2>1, <2>2 DEF ChunksSentBy, ChunksOf, Message
  <2>5. DeadLetterSentBy(v)'
    BY <2>1, <2>3 DEF DeadLetterSentBy
  <2>6. QED
    BY <2>4, <2>5
<1>4. QED
  BY <1>2, <1>3

(* A step of w alone: what is left to show is its own part.                *)
LEMMA OwnStep ==
  ASSUME WorkerTypeOK, OutTypeOK, DeliveryInv, NEW w \in Workers, OnlyMore,
         \A v \in Workers \ {w} :
           /\ pc'[v] = pc[v] /\ job'[v] = job[v]
           /\ produced'[v] = produced[v] /\ reason'[v] = reason[v]
           /\ outbox'[v] = outbox[v] /\ dlqOutbox'[v] = dlqOutbox[v],
         SettledDelivered', ChunksSentBy(w)', DeadLetterSentBy(w)'
  PROVE  DeliveryInv'
<1>1. ASSUME NEW v \in Workers \ {w} PROVE ChunksSentBy(v)' /\ DeadLetterSentBy(v)'
  <2>1. RecordsKept(v)
    BY <1>1 DEF RecordsKept
  <2>2. QED
    BY <1>1, <2>1, OthersKeep DEF DeliveryInv
<1>2. \A v \in Workers : ChunksSentBy(v)' /\ DeadLetterSentBy(v)'
  BY <1>1
<1>3. QED
  BY <1>2 DEF DeliveryInv

(* DeliveryInv survives a step that changes nothing it speaks of.          *)
LEMMA UnchangedDelivery ==
  ASSUME DeliveryInv, UNCHANGED <<workerVars, outVars, settled>>
  PROVE  DeliveryInv'
BY DEF DeliveryInv, SettledDelivered, ChunksSentBy, DeadLetterSentBy, Delivered,
       workerVars, sentVars, outVars, ChunksOf, Message

(* What is settled stays accounted for.                                    *)
LEMMA SettledStays ==
  ASSUME DeliveryInv, OnlyMore, UNCHANGED settled
  PROVE  SettledDelivered'
BY DeliveredStays DEF DeliveryInv, SettledDelivered, OnlyMore

(* A worker that has just stopped sending owes nothing.                    *)
LEMMA NothingOwed ==
  ASSUME NEW w \in Workers, pc'[w] \notin {"publish", "flush", "deadLetterFlush"}
  PROVE  ChunksSentBy(w)' /\ DeadLetterSentBy(w)'
BY DEF ChunksSentBy, DeadLetterSentBy

(* An event that may be lost is one more.                                  *)
LEMMA LoseMore ==
  ASSUME OutTypeOK, NEW p \in Partitions, NEW o, Lose(p, o)
  PROVE  o \in lost'[p] /\ \A q \in Partitions : lost[q] \subseteq lost'[q]
BY DEF Lose, OutTypeOK

(* DeliveryInv survives the decision to send a dead letter, ...            *)
LEMMA SendToDlqDelivery ==
  ASSUME TypeOK, DeliveryInv, NEW w \in Workers, NEW r, SendToDlq(w, r)
  PROVE  DeliveryInv'
<1> USE DEF TypeOK, WorkerTypeOK
<1>1. UNCHANGED <<outbox, dlqOutbox, documentChunks, dlq, lost, settled>>
  BY DEF SendToDlq, sentVars, outVars
<1>2. pc'[w] = "deadLetter"
  BY DEF SendToDlq, GoTo
<1>3. \A v \in Workers \ {w} :
        pc'[v] = pc[v] /\ job'[v] = job[v] /\ produced'[v] = produced[v] /\ reason'[v] = reason[v]
  BY DEF SendToDlq, GoTo
<1>4. OnlyMore
  BY <1>1 DEF OnlyMore
<1>5. SettledDelivered' /\ ChunksSentBy(w)' /\ DeadLetterSentBy(w)'
  BY <1>1, <1>2, <1>4, SettledStays, NothingOwed
<1>6. QED
  BY <1>1, <1>3, <1>4, <1>5, OwnStep

(* A worker returns from an event that is delivered, or may be lost.       *)
LEMMA ReturnDelivery ==
  ASSUME TypeOK, DeliveryInv, NEW w \in Workers, Return(w), UNCHANGED sentVars, OnlyMore,
         Delivered(job[w].part, job[w].off) \/ job[w].off \in lost'[job[w].part]
  PROVE  DeliveryInv'
<1> USE DEF TypeOK, WorkerTypeOK
<1>1. UNCHANGED <<outbox, dlqOutbox, documentChunks, dlq>>
  BY DEF sentVars
<1>2. \A v \in Workers \ {w} :
        pc'[v] = pc[v] /\ job'[v] = job[v] /\ produced'[v] = produced[v] /\ reason'[v] = reason[v]
  BY DEF Return, BackToPoll, GoTo
<1>3. pc'[w] = "poll"
  BY DEF Return, BackToPoll, GoTo
<1>4. SettledDelivered'
  <2> SUFFICES ASSUME NEW p \in Partitions, NEW o \in settled'[p]
               PROVE  Delivered(p, o) \/ o \in lost'[p]
    BY DeliveredStays DEF SettledDelivered
  <2>1. o \in settled[p] \/ (p = job[w].part /\ o = job[w].off)
    BY DEF Return
  <2>2. QED
    BY <2>1 DEF DeliveryInv, SettledDelivered, OnlyMore
<1>5. QED
  BY <1>1, <1>2, <1>3, <1>4, NothingOwed, OwnStep

(* Producing the next chunk, or the dead letter, puts it where the flush   *)
(* that follows waits for it.                                              *)
LEMMA ProduceChunkDelivery ==
  ASSUME TypeOK, DeliveryInv, NEW w \in Workers, ProduceChunk(w)
  PROVE  DeliveryInv'
<1> USE DEF TypeOK, WorkerTypeOK, OutTypeOK
<1> DEFINE p == job[w].part
           o == job[w].off
           n == produced[w]
           m == Message(p, o)
<1>1. pc[w] = "publish" /\ UNCHANGED <<job, reason, dlqOutbox, documentChunks, dlq, settled, lost>>
  BY DEF ProduceChunk
<1>2. outbox' = [outbox EXCEPT ![w] = @ \cup {Chunk(p, o, n)}]
  BY DEF ProduceChunk
<1>3. produced' = [produced EXCEPT ![w] = n + 1]
  BY DEF ProduceChunk
<1>4. pc' = [pc EXCEPT ![w] = IF n + 1 = m.chunks THEN "flush" ELSE "publish"]
  BY DEF ProduceChunk, GoTo, JobMessage
<1>5. m.kind = "text" /\ (o \in lost[p] \/ \A i \in 0 .. n - 1 : Chunk(p, o, i) \in documentChunks \cup outbox[w])
  BY <1>1 DEF DeliveryInv, ChunksSentBy
<1>6. o \in lost[p] \/ \A i \in 0 .. (n + 1) - 1 : Chunk(p, o, i) \in documentChunks' \cup outbox'[w]
  <2>1. n \in Nat
    OBVIOUS
  <2>2. \A i \in 0 .. (n + 1) - 1 : i = n \/ i \in 0 .. n - 1
    BY <2>1, UpTo
  <2>3. outbox'[w] = outbox[w] \cup {Chunk(p, o, n)}
    BY <1>2
  <2>4. QED
    BY <1>1, <1>5, <2>2, <2>3
<1>7. ChunksSentBy(w)'
  <2>1. produced'[w] = n + 1
    BY <1>3
  <2>2. pc'[w] = "flush" => m.chunks = n + 1
    BY <1>4
  <2>3. job'[w] = job[w]
    BY <1>1
  <2>4. pc'[w] = "flush" => o \in lost[p] \/ ChunksOf(p, o) \subseteq documentChunks' \cup outbox'[w]
    BY <1>6, <2>2 DEF ChunksOf
  <2>5. QED
    BY <1>1, <1>5, <1>6, <2>1, <2>3, <2>4 DEF ChunksSentBy, ChunksOf, Message
<1>8. DeadLetterSentBy(w)'
  BY <1>4 DEF DeadLetterSentBy
<1>9. \A v \in Workers \ {w} :
        /\ pc'[v] = pc[v] /\ job'[v] = job[v]
        /\ produced'[v] = produced[v] /\ reason'[v] = reason[v]
        /\ outbox'[v] = outbox[v] /\ dlqOutbox'[v] = dlqOutbox[v]
  BY <1>1, <1>2, <1>3, <1>4
<1>10. OnlyMore
  BY <1>1 DEF OnlyMore
<1>11. SettledDelivered'
  BY <1>1, <1>10, SettledStays
<1>12. QED
  BY <1>7, <1>8, <1>9, <1>10, <1>11, OwnStep

(* ... its production, ...                                                 *)
LEMMA ProduceDeadLetterDelivery ==
  ASSUME TypeOK, DeliveryInv, NEW w \in Workers, ProduceDeadLetter(w)
  PROVE  DeliveryInv'
<1> USE DEF TypeOK, WorkerTypeOK, OutTypeOK
<1>1. UNCHANGED <<job, produced, reason, outbox, documentChunks, dlq, settled, lost>>
  BY DEF ProduceDeadLetter
<1>2. pc' = [pc EXCEPT ![w] = "deadLetterFlush"]
  BY DEF ProduceDeadLetter, GoTo
<1>3. dlqOutbox' = [dlqOutbox EXCEPT ![w] = @ \cup {Dead(job[w].part, job[w].off, reason[w])}]
  BY DEF ProduceDeadLetter
<1>4. ChunksSentBy(w)'
  BY <1>2 DEF ChunksSentBy
<1>5. DeadLetterSentBy(w)'
  BY <1>1, <1>3 DEF DeadLetterSentBy
<1>6. \A v \in Workers \ {w} :
        /\ pc'[v] = pc[v] /\ job'[v] = job[v]
        /\ produced'[v] = produced[v] /\ reason'[v] = reason[v]
        /\ outbox'[v] = outbox[v] /\ dlqOutbox'[v] = dlqOutbox[v]
  BY <1>1, <1>2, <1>3
<1>7. OnlyMore
  BY <1>1, <1>3 DEF OnlyMore
<1>8. SettledDelivered'
  BY <1>1, <1>7, SettledStays
<1>9. QED
  BY <1>4, <1>5, <1>6, <1>7, <1>8, OwnStep

(* ... and the start of a publication.                                     *)
LEMMA StartPublishingDelivery ==
  ASSUME TypeOK, DeliveryInv, NEW w \in Workers, StartPublishing(w)
  PROVE  DeliveryInv'
<1> USE DEF TypeOK, WorkerTypeOK, OutTypeOK
<1>1. UNCHANGED <<job, reason, outbox, dlqOutbox, documentChunks, dlq, settled, lost>>
  BY DEF StartPublishing, sentVars, outVars
<1>2. pc' = [pc EXCEPT ![w] = "publish"] /\ produced' = [produced EXCEPT ![w] = 0]
  BY DEF StartPublishing, GoTo
<1>3. ChunksSentBy(w)'
  <2>1. JobMessage(w).kind = "text" /\ produced'[w] = 0 /\ pc'[w] = "publish"
    BY <1>2 DEF StartPublishing
  <2>2. QED
    BY <1>1, <2>1 DEF ChunksSentBy, JobMessage, Message
<1>4. DeadLetterSentBy(w)'
  BY <1>2 DEF DeadLetterSentBy
<1>5. \A v \in Workers \ {w} :
        /\ pc'[v] = pc[v] /\ job'[v] = job[v]
        /\ produced'[v] = produced[v] /\ reason'[v] = reason[v]
        /\ outbox'[v] = outbox[v] /\ dlqOutbox'[v] = dlqOutbox[v]
  BY <1>1, <1>2
<1>6. OnlyMore
  BY <1>1 DEF OnlyMore
<1>7. SettledDelivered'
  BY <1>1, <1>6, SettledStays
<1>8. QED
  BY <1>3, <1>4, <1>5, <1>6, <1>7, OwnStep

(* Every step of _process_message preserves DeliveryInv, ...               *)
LEMMA ProcessMessageDelivery ==
  ASSUME TypeOK, DeliveryInv, NEW w \in Workers, ProcessMessage(w)
  PROVE  DeliveryInv'
<1> DEFINE p == job[w].part
           o == job[w].off
<1> p \in Partitions
  BY JobType DEF TypeOK
<1>1. CASE SkipMalformed(w)
  <2>1. Delivered(p, o)
    BY <1>1 DEF SkipMalformed, Delivered, JobMessage
  <2>2. UNCHANGED sentVars /\ OnlyMore
    BY <1>1 DEF SkipMalformed, sentVars, outVars, OnlyMore
  <2>3. QED
    BY <1>1, <2>1, <2>2, ReturnDelivery DEF SkipMalformed, CommitAndReturn
<1>2. CASE FetchFails(w)
  BY <1>2, SendToDlqDelivery DEF FetchFails
<1>3. CASE ParseFails(w)
  BY <1>3, SendToDlqDelivery DEF ParseFails
<1>4. CASE NoChunks(w)
  <2>1. Message(p, o).kind = "text" /\ Message(p, o).chunks = 0
    BY <1>4 DEF NoChunks, JobMessage
  <2>2. Delivered(p, o)
    BY <2>1 DEF Delivered, ChunksOf
  <2>3. UNCHANGED sentVars /\ OnlyMore
    BY <1>4 DEF NoChunks, sentVars, outVars, OnlyMore
  <2>4. QED
    BY <1>4, <2>2, <2>3, ReturnDelivery DEF NoChunks, CommitAndReturn
<1>5. CASE StartPublishing(w)
  BY <1>5, StartPublishingDelivery
<1>6. CASE ProduceChunk(w)
  BY <1>6, ProduceChunkDelivery
<1>7. CASE ProduceFails(w)
  BY <1>7, SendToDlqDelivery DEF ProduceFails
<1>8. CASE FlushReturns(w)
  <2>1. pc[w] = "flush" /\ UNCHANGED sentVars
    BY <1>8 DEF FlushReturns
  <2>2. \/ outbox[w] = {} /\ UNCHANGED lost
        \/ Lose(p, o)
    BY <1>8 DEF FlushReturns
  <2>3. OnlyMore
    BY <2>1, <2>2, LoseMore DEF OnlyMore, sentVars, TypeOK
  <2>4. Delivered(p, o) \/ o \in lost'[p]
    <3>1. CASE outbox[w] = {} /\ UNCHANGED lost
      BY <2>1, <3>1 DEF DeliveryInv, ChunksSentBy, Delivered
    <3>2. CASE Lose(p, o)
      BY <3>2, LoseMore DEF TypeOK
    <3>3. QED
      BY <2>2, <3>1, <3>2
  <2>5. QED
    BY <1>8, <2>1, <2>3, <2>4, ReturnDelivery DEF FlushReturns, CommitAndReturn
<1>9. CASE FlushRaises(w)
  BY <1>9, SendToDlqDelivery DEF FlushRaises
<1>10. CASE ProduceDeadLetter(w)
  BY <1>10, ProduceDeadLetterDelivery
<1>11. CASE DeadLetterDone(w)
  <2>1. UNCHANGED sentVars
    BY <1>11 DEF DeadLetterDone
  <2>2. \/ pc[w] = "deadLetterFlush" /\ dlqOutbox[w] = {} /\ UNCHANGED lost
        \/ Lose(p, o)
    BY <1>11 DEF DeadLetterDone
  <2>3. OnlyMore
    BY <2>1, <2>2, LoseMore DEF OnlyMore, sentVars, TypeOK
  <2>4. Delivered(p, o) \/ o \in lost'[p]
    <3>1. CASE pc[w] = "deadLetterFlush" /\ dlqOutbox[w] = {} /\ UNCHANGED lost
      <4>1. o \in lost[p] \/ Dead(p, o, reason[w]) \in dlq
        BY <3>1 DEF DeliveryInv, DeadLetterSentBy
      <4>2. reason[w] \in Reasons
        BY DEF TypeOK, WorkerTypeOK
      <4>3. QED
        BY <3>1, <4>1, <4>2 DEF Delivered
    <3>2. CASE Lose(p, o)
      BY <3>2, LoseMore DEF TypeOK
    <3>3. QED
      BY <2>2, <3>1, <3>2
  <2>5. QED
    BY <1>11, <2>1, <2>3, <2>4, ReturnDelivery DEF DeadLetterDone
<1>12. QED
  BY <1>1, <1>2, <1>3, <1>4, <1>5, <1>6, <1>7, <1>8, <1>9, <1>10, <1>11
  DEF ProcessMessage

(* The producers' threads move records from a queue to its topic, ...      *)
LEMMA TransferDelivery ==
  ASSUME TypeOK, DeliveryInv, NEW w \in Workers, DeliverChunk(w) \/ DeliverDeadLetter(w)
  PROVE  DeliveryInv'
<1> USE DEF TypeOK, OutTypeOK
<1>1. UNCHANGED <<pc, job, produced, reason, settled, lost>>
  BY DEF DeliverChunk, DeliverDeadLetter, workerVars
<1>2. OnlyMore
  BY <1>1 DEF DeliverChunk, DeliverDeadLetter, OnlyMore
<1>3. \A v \in Workers : /\ outbox[v] \subseteq documentChunks' \cup outbox'[v]
                         /\ dlqOutbox[v] \subseteq dlq' \cup dlqOutbox'[v]
  BY DEF DeliverChunk, DeliverDeadLetter
<1>4. \A v \in Workers : RecordsKept(v)
  BY <1>3 DEF RecordsKept
<1>5. \A v \in Workers : ChunksSentBy(v)' /\ DeadLetterSentBy(v)'
  BY <1>1, <1>2, <1>4, OthersKeep DEF DeliveryInv
<1>6. SettledDelivered'
  BY <1>1, <1>2, SettledStays
<1>7. QED
  BY <1>5, <1>6 DEF DeliveryInv

(* ... or lose one, after which its event may be lost.                     *)
LEMMA DeliveryFailsDelivery ==
  ASSUME TypeOK, DeliveryInv, NEW w \in Workers, DeliveryFails(w)
  PROVE  DeliveryInv'
<1> USE DEF TypeOK, OutTypeOK
<1>1. UNCHANGED <<pc, job, produced, reason, settled, documentChunks, dlq>>
  BY DEF DeliveryFails, workerVars
<1>2. OnlyMore /\ \A v \in Workers : RecordsKept(v)
  <2>1. CASE \E c \in outbox[w] :
               /\ outbox' = [outbox EXCEPT ![w] = @ \ {c}]
               /\ Lose(c.part, c.off)
               /\ UNCHANGED dlqOutbox
    <3>1. PICK c \in outbox[w] :
            /\ outbox' = [outbox EXCEPT ![w] = @ \ {c}]
            /\ Lose(c.part, c.off)
            /\ UNCHANGED dlqOutbox
      BY <2>1
    <3>2. c.part \in Partitions
      BY DEF Chunks
    <3>3. OnlyMore /\ c.off \in lost'[c.part]
      BY <1>1, <3>1, <3>2, LoseMore DEF OnlyMore
    <3>4. ASSUME NEW v \in Workers PROVE RecordsKept(v)
      BY <3>1, <3>3 DEF RecordsKept
    <3>5. QED
      BY <3>3, <3>4
  <2>2. CASE \E d \in dlqOutbox[w] :
               /\ dlqOutbox' = [dlqOutbox EXCEPT ![w] = @ \ {d}]
               /\ Lose(d.part, d.off)
               /\ UNCHANGED outbox
    <3>1. PICK d \in dlqOutbox[w] :
            /\ dlqOutbox' = [dlqOutbox EXCEPT ![w] = @ \ {d}]
            /\ Lose(d.part, d.off)
            /\ UNCHANGED outbox
      BY <2>2
    <3>2. d.part \in Partitions
      BY DEF DeadLetters
    <3>3. OnlyMore /\ d.off \in lost'[d.part]
      BY <1>1, <3>1, <3>2, LoseMore DEF OnlyMore
    <3>4. ASSUME NEW v \in Workers PROVE RecordsKept(v)
      BY <3>1, <3>3 DEF RecordsKept
    <3>5. QED
      BY <3>3, <3>4
  <2>3. QED
    BY <2>1, <2>2 DEF DeliveryFails
<1>3. \A v \in Workers : ChunksSentBy(v)' /\ DeadLetterSentBy(v)'
  BY <1>1, <1>2, OthersKeep DEF DeliveryInv
<1>4. SettledDelivered'
  BY <1>1, <1>2, SettledStays
<1>5. QED
  BY <1>3, <1>4 DEF DeliveryInv

(* A worker that dies takes its queues along, and owes nothing any more.   *)
LEMMA DieDelivery ==
  ASSUME TypeOK, DeliveryInv, NEW w \in Workers, Die(w)
  PROVE  DeliveryInv'
<1> USE DEF TypeOK, WorkerTypeOK, OutTypeOK, Die, BackToPoll, GoTo
<1>1. UNCHANGED <<documentChunks, dlq, lost, settled>>
  OBVIOUS
<1>2. pc'[w] = "poll"
  OBVIOUS
<1>3. \A v \in Workers \ {w} :
        /\ pc'[v] = pc[v] /\ job'[v] = job[v]
        /\ produced'[v] = produced[v] /\ reason'[v] = reason[v]
        /\ outbox'[v] = outbox[v] /\ dlqOutbox'[v] = dlqOutbox[v]
  OBVIOUS
<1>4. OnlyMore
  BY <1>1 DEF OnlyMore
<1>5. QED
  BY <1>1, <1>2, <1>3, <1>4, SettledStays, NothingOwed, OwnStep

(* Whatever is settled has all its chunks or a dead letter at the broker,  *)
(* unless something of it was lost unnoticed.                              *)
THEOREM DeliveryCorrect == Spec => []DeliveryInv
<1>1. Init => DeliveryInv
  BY DEF Init, DeliveryInv, SettledDelivered, ChunksSentBy, DeadLetterSentBy
<1>2. TypeOK /\ DeliveryInv /\ [Next]_vars => DeliveryInv'
  <2> SUFFICES ASSUME TypeOK, DeliveryInv, [Next]_vars PROVE DeliveryInv'
    OBVIOUS
  <2>1. ASSUME NEW w \in Workers, NEW p \in Partitions, Poll(w, p) PROVE DeliveryInv'
    <3> USE DEF TypeOK, WorkerTypeOK, OutTypeOK, Poll, GoTo
    <3>1. UNCHANGED <<outbox, dlqOutbox, documentChunks, dlq, settled, lost>>
      BY <2>1 DEF sentVars, outVars
    <3>2. pc'[w] = "process"
      BY <2>1
    <3>3. \A v \in Workers \ {w} :
            pc'[v] = pc[v] /\ job'[v] = job[v] /\ produced'[v] = produced[v] /\ reason'[v] = reason[v]
      BY <2>1
    <3>4. OnlyMore
      BY <3>1 DEF OnlyMore
    <3>5. QED
      BY <3>1, <3>2, <3>3, <3>4, SettledStays, NothingOwed, OwnStep
  <2>2. ASSUME NEW w \in Workers, ProcessMessage(w) PROVE DeliveryInv'
    BY <2>2, ProcessMessageDelivery
  <2>3. ASSUME NEW w \in Workers, DeliverChunk(w) \/ DeliverDeadLetter(w) PROVE DeliveryInv'
    BY <2>3, TransferDelivery
  <2>4. ASSUME NEW w \in Workers, DeliveryFails(w) PROVE DeliveryInv'
    BY <2>4, DeliveryFailsDelivery
  <2>5. ASSUME NEW w \in Workers, Coordinate(w) \/ Disturb(w) PROVE DeliveryInv'
    BY <2>5, UnchangedDelivery DEF Coordinate, Disturb
  <2>6. ASSUME NEW w \in Workers, Crash(w) \/ ChunkingRaises(w) PROVE DeliveryInv'
    BY <2>6, DieDelivery DEF Crash, ChunkingRaises
  <2>7. CASE UNCHANGED vars
    BY <2>7, UnchangedDelivery DEF vars
  <2>8. QED
    BY <2>1, <2>2, <2>3, <2>4, <2>5, <2>6, <2>7 DEF Next
<1>3. QED
  BY <1>1, <1>2, TypeCorrect, PTL DEF Spec

(* Whatever lies below the committed offset has all its chunks or a dead   *)
(* letter at the broker, so that no crash can lose it any more, unless a   *)
(* flush timed out, a record expired or a dead letter failed for that very *)
(* event (processor.py:189, 230).                                          *)
THEOREM CommittedDeliveredCorrect == Spec => []CommittedDelivered
<1>1. DeliveryInv /\ NothingSkipped => CommittedDelivered
  BY DEF DeliveryInv, SettledDelivered, NothingSkipped, CommittedDelivered
<1>2. QED
  BY <1>1, DeliveryCorrect, NothingSkippedAlways, PTL

(* The invariants of this module, together.                                *)
COROLLARY ProcessorCorrect == Spec => []ProcessorInv
BY OrderCorrect, LiveCorrect, DeliveryCorrect, PTL DEF ProcessorInv

=============================================================================
