-------------------------- MODULE EmbeddingWorkerProofs -------------------------
(***************************************************************************)
(* Theorems about the embedding worker, for any number of workers,         *)
(* partitions, chunks, tenants and faults and any size of a batch.         *)
(***************************************************************************)
EXTENDS EmbeddingWorker, TLAPS, WellFoundedInduction, FiniteSetTheorems

----------------------------------------------------------------------------
(* The operations of the consumer group keep its types.                   *)

(* The end of a partition's log is a natural number.                       *)
LEMMA EndType == \A p \in Partitions : End(p) \in Nat
BY GroupAssumption DEF End

(* The numbers up to m are m and those below it.                           *)
LEMMA UpTo == \A m \in Nat : \A o \in 0 .. (m + 1) - 1 : o = m \/ o \in 0 .. m - 1
OBVIOUS

(* A fault stays within the bound.                                         *)
LEMMA FaultType ==
  ASSUME NEW k, faults \in 0 .. MaxFaults, Fault(k)
  PROVE  faults' \in 0 .. MaxFaults
BY FaultAssumption DEF Fault

(* Each operation of a worker or of the coordinator keeps the types of the *)
(* group's state.                                                          *)
LEMMA FetchType ==
  ASSUME GroupTypeOK, NEW w \in Workers, NEW p \in Partitions, Fetch(w, p)
  PROVE  GroupTypeOK'
BY DEF Fetch, GroupTypeOK, MemberTypeOK

(* A worker's commit keeps the types of the group's state.                 *)
LEMMA CommitType ==
  ASSUME MemberTypeOK, NEW w \in Workers, NEW p \in Partitions, NEW o \in Nat,
         Commit(w, p, o)
  PROVE  MemberTypeOK'
<1>1. CASE joined[w]
  <2>1. request' = [request EXCEPT ![w] = [request[w] EXCEPT ![p] = o + 1]]
    BY <1>1 DEF Commit, MemberTypeOK
  <2>2. request[w] \in [Partitions -> Nat]
    BY DEF MemberTypeOK
  <2>3. [request[w] EXCEPT ![p] = o + 1] \in [Partitions -> Nat]
    BY <2>2
  <2>4. request' \in [Workers -> [Partitions -> Nat]]
    BY <2>1, <2>3 DEF MemberTypeOK
  <2>5. QED
    BY <2>4 DEF Commit, MemberTypeOK
<1>2. CASE ~joined[w]
  BY <1>2 DEF Commit, MemberTypeOK
<1>3. QED
  BY <1>1, <1>2

(* What it does to the requests under way: only one may change.           *)
LEMMA CommitRequest ==
  ASSUME MemberTypeOK, NEW w \in Workers, NEW p \in Partitions, NEW o \in Nat,
         Commit(w, p, o), NEW v \in Workers, NEW q \in Partitions
  PROVE  \/ request'[v][q] = request[v][q]
         \/ v = w /\ q = p /\ joined[w] /\ request'[v][q] = o + 1
<1>1. CASE joined[w]
  <2>1. request' = [request EXCEPT ![w] = [request[w] EXCEPT ![p] = o + 1]]
    BY <1>1 DEF Commit
  <2>2. request[w] \in [Partitions -> Nat] /\ request \in [Workers -> [Partitions -> Nat]]
    BY DEF MemberTypeOK
  <2>3. CASE v = w
    BY <1>1, <2>1, <2>2, <2>3
  <2>4. CASE v # w
    BY <2>1, <2>2, <2>4
  <2>5. QED
    BY <2>3, <2>4
<1>2. CASE ~joined[w]
  BY <1>2 DEF Commit
<1>3. QED
  BY <1>1, <1>2

(* A commit that reaches the coordinator keeps the types, too, ...         *)
LEMMA CommitLandsType ==
  ASSUME GroupTypeOK, NEW w \in Workers, NEW p \in Partitions, CommitLands(w, p)
  PROVE  GroupTypeOK'
<1> USE DEF GroupTypeOK, MemberTypeOK
<1>1. request[w] \in [Partitions -> Nat] /\ request[w][p] \in Nat
  OBVIOUS
<1>2. committed' \in [Partitions -> Nat]
  BY <1>1 DEF CommitLands
<1>3. [request[w] EXCEPT ![p] = 0] \in [Partitions -> Nat]
  BY <1>1
<1>4. request' = [request EXCEPT ![w] = [request[w] EXCEPT ![p] = 0]]
  BY DEF CommitLands
<1>5. request' \in [Workers -> [Partitions -> Nat]]
  BY <1>3, <1>4
<1>6. QED
  BY <1>2, <1>5 DEF CommitLands

(* ... the assignment of a free partition, ...                             *)
LEMMA AssignType ==
  ASSUME GroupTypeOK, NEW w \in Workers, NEW p \in Partitions, Assign(w, p)
  PROVE  GroupTypeOK'
BY DEF Assign, GroupTypeOK, MemberTypeOK

(* ... a worker that joins again, ...                                      *)
LEMMA RejoinType ==
  ASSUME GroupTypeOK, NEW w \in Workers, Rejoin(w)
  PROVE  GroupTypeOK'
BY DEF Rejoin, GroupTypeOK, MemberTypeOK

(* ... a partition that is taken from its owner, ...                       *)
LEMMA RevokeType ==
  ASSUME GroupTypeOK, NEW w \in Workers, NEW p \in Partitions, Revoke(w, p)
  PROVE  GroupTypeOK'
<1>1. faults' \in 0 .. MaxFaults
  BY FaultType DEF Revoke, GroupTypeOK
<1>2. QED
  BY <1>1 DEF Revoke, GroupTypeOK, MemberTypeOK, NoRequests

(* ... a member that leaves, ...                                           *)
LEMMA LeaveType ==
  ASSUME MemberTypeOK, NEW w \in Workers, Leave(w)
  PROVE  MemberTypeOK'
BY DEF Leave, MemberTypeOK, NoRequests

(* ... one that is expelled, ...                                           *)
LEMMA ExpelType ==
  ASSUME GroupTypeOK, NEW w \in Workers, Expel(w)
  PROVE  GroupTypeOK'
BY FaultType, LeaveType DEF Expel, GroupTypeOK

(* ... and a step of something else.                                       *)
LEMMA UnchangedGroupType ==
  ASSUME GroupTypeOK, UNCHANGED groupVars
  PROVE  GroupTypeOK'
BY DEF groupVars, memberVars, GroupTypeOK, MemberTypeOK

----------------------------------------------------------------------------
(* The inductive invariants.                                               *)

(* A message that the log of its partition has.                            *)
Real(m) == m \in Position /\ m.off < End(m.part)

(* Batches are read from the log, and a worker that upserts has rows left  *)
(* to upsert.                                                              *)
BatchesReal ==
  \A w \in Workers :
    /\ \A i \in DOMAIN batch[w] : Real(batch[w][i])
    /\ pc[w] \in {"collect", "embed"} => upserted[w] = {}
    /\ pc[w] = "upsert" => Unsaved(w) # {}

(* The places of the batch that the worker is not finished with.           *)
From(w)    == IF pc[w] \in {"commit", "deadLetter"} THEN next[w] ELSE 1
Waiting(w) == {i \in DOMAIN batch[w] : From(w) <= i}

Pending(w, p, o) == \E i \in Waiting(w) : batch[w][i] = [part |-> p, off |-> o]

(* What the owner of a partition has read is settled or waits in its batch. *)
ReadInOrder ==
  \A p \in Partitions : owner[p] # NoWorker =>
    \A o \in 0 .. position[p] - 1 : o \in settled[p] \/ Pending(owner[p], p, o)

(* What is below a message that waits is settled or waits before it, even  *)
(* if the partition has been taken away since.                             *)
BatchesInOrder ==
  \A w \in Workers : \A i \in Waiting(w) :
    \A o \in 0 .. batch[w][i].off - 1 :
      \/ o \in settled[batch[w][i].part]
      \/ \E j \in Waiting(w) : j < i /\ batch[w][j] = [part |-> batch[w][i].part, off |-> o]

(* A commit under way passes only settled messages of the log.             *)
RequestsSettled ==
  \A w \in Workers : \A p \in Partitions :
    /\ request[w][p] <= End(p)
    /\ \A o \in 0 .. request[w][p] - 1 : o \in settled[p]

OrderInv == NothingSkipped /\ ReadInOrder /\ BatchesInOrder /\ RequestsSettled

(* The worker has upserted the row of a message of its batch.              *)
Saved(w, i) ==
  \/ Chunk(batch[w][i]).tenant \in upserted[w]
  \/ pc[w] \in {"publish", "flush", "commit"}

(* Rows come first: what a worker has upserted, and what is in its queue,  *)
(* is stored.  Events follow: a message the loop of publication is past is *)
(* in the queue or out of it, and after the flush it is out of it.         *)
Follows(w) ==
  /\ \A i \in DOMAIN batch[w] : Saved(w, i) => Stored(batch[w][i])
  /\ \A m \in outbox[w] : Real(m) /\ Stored(m)
  /\ \A i \in DOMAIN batch[w] :
       /\ (pc[w] = "publish" /\ i < next[w]) \/ pc[w] = "flush" =>
            batch[w][i] \in outbox[w] \cup events \cup lost
       /\ pc[w] = "commit" => batch[w][i] \in events \cup lost

(* What has been reported is stored, some chunk of a file at least, ...    *)
OfFile(m, f) == Real(m) /\ Chunk(m).file = f

Reported ==
  /\ \A m \in events : Real(m) /\ Stored(m)
  /\ \A f \in indexed : \E m : OfFile(m, f) /\ Stored(m)

(* ... and what is settled is delivered or was lost unnoticed.             *)
SettledDelivered ==
  \A p \in Partitions : \A o \in settled[p] :
    Delivered([part |-> p, off |-> o]) \/ [part |-> p, off |-> o] \in lost

DeliveryInv == (\A w \in Workers : Follows(w)) /\ Reported /\ SettledDelivered

----------------------------------------------------------------------------
(* Types.                                                                  *)

(* The first of some places in a sequence.                                 *)
LEMMA FirstPlace ==
  ASSUME NEW n \in Nat, NEW U \in SUBSET (1 .. n), U # {}
  PROVE  \E m \in U : \A k \in U : m <= k
<1> DEFINE S == 1 .. n
           T == {1 .. k : k \in U}
<1>1. IsWellFoundedOn(StrictSubsetOrdering(S), SUBSET S)
  <2>1. IsFiniteSet(S)
    BY FS_Interval
  <2> HIDE DEF S
  <2>2. QED
    BY <2>1, FS_StrictSubsetOrderingWellFounded, FS_FiniteSubsetsOfFinite
<1>2. T \subseteq SUBSET S /\ T # {}
  <2>1. \A k \in U : 1 .. k \subseteq S
    OBVIOUS
  <2>2. QED
    BY <2>1
<1>3. PICK A \in T : \A B \in T : <<B, A>> \notin StrictSubsetOrdering(S)
  <2> HIDE DEF T, S
  <2> QED  BY <1>1, <1>2, WFMin
<1>4. PICK m \in U : A = 1 .. m
  BY <1>3
<1>5. ASSUME NEW k \in U, k < m  PROVE FALSE
  <2>1. k \in Nat /\ m \in Nat
    OBVIOUS
  <2>2. 1 .. k \in T /\ 1 .. k \subseteq 1 .. m /\ 1 .. k # 1 .. m
    <3>1. m \in 1 .. m /\ m \notin 1 .. k
      BY <1>5, <2>1
    <3>2. 1 .. k \subseteq 1 .. m
      BY <1>5, <2>1
    <3>3. QED
      BY <3>1, <3>2
  <2>3. <<1 .. k, A>> \in StrictSubsetOrdering(S)
    BY <1>2, <1>4, <2>2 DEF StrictSubsetOrdering
  <2>4. QED
    BY <1>3, <2>2, <2>3
<1>6. QED
  BY <1>5

(* A batch is a sequence of messages.                                      *)
LEMMA BatchForm ==
  ASSUME WorkerTypeOK, NEW w \in Workers
  PROVE  /\ Len(batch[w]) \in Nat /\ DOMAIN batch[w] = 1 .. Len(batch[w])
         /\ \A i \in DOMAIN batch[w] : batch[w][i] \in Position
         /\ batch[w] # <<>> <=> 1 \in DOMAIN batch[w]
BY DEF WorkerTypeOK

(* A message of the log is one of its kind.                                *)
LEMMA ChunkType ==
  ASSUME NEW m, Real(m)
  PROVE  m.part \in Partitions /\ m.off \in Nat /\ Chunk(m) \in ChunkEvent
         /\ Chunk(m).tenant \in Tenants /\ Chunk(m).file \in Files
<1>1. m.part \in Partitions /\ m.off \in Nat /\ m.off < Len(Log[m.part])
  BY DEF Real, Position, End
<1>2. m.off + 1 \in 1 .. Len(Log[m.part]) /\ Log[m.part] \in Seq(Messages)
  BY <1>1, GroupAssumption
<1>3. Chunk(m) \in Messages
  BY <1>2 DEF Chunk, Message
<1>4. QED
  BY <1>1, <1>3, WorkerAssumption DEF ChunkEvent

(* The message at hand.                                                    *)
LEMMA AtHandType ==
  ASSUME WorkerTypeOK, BatchBounded, NEW w \in Workers, pc[w] # "collect"
  PROVE  /\ next[w] \in DOMAIN batch[w] /\ next[w] \in Nat /\ batch[w] # <<>>
         /\ AtHand(w) \in Position
         /\ AtHand(w).part \in Partitions /\ AtHand(w).off \in Nat
BY BatchForm DEF BatchBounded, AtHand, Position

(* Going to a stage.                                                       *)
LEMMA GoToType ==
  ASSUME WorkerTypeOK, NEW w \in Workers, NEW s \in Stages, GoTo(w, s)
  PROVE  /\ pc' \in [Workers -> Stages] /\ next' \in [Workers -> Nat \ {0}]
         /\ pc'[w] = s /\ next'[w] = 1
         /\ \A v \in Workers \ {w} : pc'[v] = pc[v] /\ next'[v] = next[v]
BY DEF GoTo, WorkerTypeOK

(* One message further, or to the next stage.                              *)
LEMMA StepType ==
  ASSUME WorkerTypeOK, NEW w \in Workers, NEW s \in Stages, Step(w, s)
  PROVE  /\ pc' \in [Workers -> Stages] /\ next' \in [Workers -> Nat \ {0}]
         /\ \A v \in Workers \ {w} : pc'[v] = pc[v] /\ next'[v] = next[v]
         /\ \/ IsLast(w) /\ pc'[w] = s /\ next'[w] = 1
            \/ ~ IsLast(w) /\ pc'[w] = pc[w] /\ next'[w] = next[w] + 1
<1>1. CASE IsLast(w)
  BY <1>1, GoToType DEF Step
<1>2. CASE ~ IsLast(w)
  BY <1>2 DEF Step, WorkerTypeOK
<1>3. QED
  BY <1>1, <1>2

(* Having no batch.                                                        *)
LEMMA EmptyHandedType ==
  ASSUME WorkerTypeOK, NEW w \in Workers, EmptyHanded(w), settled' \in [Partitions -> SUBSET Nat]
  PROVE  /\ WorkerTypeOK'
         /\ pc'[w] = "collect" /\ batch'[w] = <<>> /\ upserted'[w] = {}
         /\ \A v \in Workers \ {w} :
              /\ pc'[v] = pc[v] /\ next'[v] = next[v] /\ batch'[v] = batch[v]
              /\ upserted'[v] = upserted[v]
<1>1. "collect" \in Stages /\ "none" \in Reasons
  BY DEF Stages, Reasons
<1>2. GoTo(w, "collect")
  BY DEF EmptyHanded
<1>3. batch' \in [Workers -> Seq(Position)]
  BY DEF EmptyHanded, WorkerTypeOK
<1>4. QED
  BY <1>1, <1>2, <1>3, GoToType DEF EmptyHanded, WorkerTypeOK

(* A batch with one message more.                                          *)
LEMMA CollectForm ==
  ASSUME WorkerTypeOK, GroupTypeOK, NEW w \in Workers, NEW p \in Partitions, Collect(w, p)
  PROVE  LET m == [part |-> p, off |-> position[p]]
         IN  /\ m \in Position /\ Real(m)
             /\ pc[w] = "collect" /\ Len(batch[w]) < BatchSize
             /\ owner[p] = w /\ position' = [position EXCEPT ![p] = @ + 1]
             /\ UNCHANGED <<owner, joined, request, committed, faults, pc, next, upserted, reason,
                            outputVars>>
             /\ \/ /\ batch' = [batch EXCEPT ![w] = Append(@, m)]
                   /\ batch' \in [Workers -> Seq(Position)]
                   /\ Len(batch'[w]) = Len(batch[w]) + 1
                   /\ DOMAIN batch'[w] = 1 .. Len(batch[w]) + 1
                   /\ \A i \in DOMAIN batch[w] : batch'[w][i] = batch[w][i]
                   /\ batch'[w][Len(batch[w]) + 1] = m
                   /\ UNCHANGED settled
                \/ /\ ~ Chunk(m).decodable
                   /\ settled' = [settled EXCEPT ![p] = @ \cup {m.off}]
                   /\ UNCHANGED batch
<1> DEFINE m == [part |-> p, off |-> position[p]]
<1>1. /\ pc[w] = "collect" /\ Len(batch[w]) < BatchSize
      /\ owner[p] = w /\ position[p] < End(p)
      /\ position' = [position EXCEPT ![p] = @ + 1]
      /\ UNCHANGED <<owner, joined, request, committed, faults, pc, next, upserted, reason,
                     outputVars>>
      /\ \/ batch' = [batch EXCEPT ![w] = Append(@, m)] /\ UNCHANGED settled
         \/ /\ ~ Chunk(m).decodable
            /\ settled' = [settled EXCEPT ![p] = @ \cup {m.off}]
            /\ UNCHANGED batch
  BY DEF Collect, Fetch
<1>2. m \in Position /\ m.part = p /\ m.off = position[p]
  BY DEF GroupTypeOK, MemberTypeOK, Position
<1>3. Real(m)
  BY <1>1, <1>2 DEF Real
<1>4. batch[w] \in Seq(Position)
  BY DEF WorkerTypeOK
<1> HIDE DEF m
<1>5. /\ Append(batch[w], m) \in Seq(Position)
      /\ Len(Append(batch[w], m)) = Len(batch[w]) + 1
      /\ DOMAIN Append(batch[w], m) = 1 .. Len(batch[w]) + 1
      /\ \A i \in DOMAIN batch[w] : Append(batch[w], m)[i] = batch[w][i]
      /\ Append(batch[w], m)[Len(batch[w]) + 1] = m
  BY <1>2, <1>4
<1>6. CASE batch' = [batch EXCEPT ![w] = Append(@, m)]
  <2>1. batch'[w] = Append(batch[w], m) /\ batch' \in [Workers -> Seq(Position)]
    BY <1>5, <1>6 DEF WorkerTypeOK
  <2>2. QED
    BY <1>1, <1>2, <1>3, <1>5, <1>6, <2>1 DEF m
<1>7. QED
  BY <1>1, <1>2, <1>3, <1>6 DEF m

(* What BatchBounded and BatchesReal say of one worker.                    *)
Ready(w) ==
  /\ Len(batch[w]) <= BatchSize
  /\ pc[w] # "collect" => next[w] \in DOMAIN batch[w]
  /\ \A i \in DOMAIN batch[w] : Real(batch[w][i])
  /\ pc[w] \in {"collect", "embed"} => upserted[w] = {}
  /\ pc[w] = "upsert" => Unsaved(w) # {}

BaseInv == TypeOK /\ BatchesReal

LEMMA AllReady ==
  BatchBounded /\ BatchesReal <=> \A w \in Workers : Ready(w)
BY DEF BatchBounded, BatchesReal, Ready

(* A step of one worker leaves the others as they are.                     *)
LEMMA OthersReady ==
  ASSUME BaseInv, NEW w \in Workers, Ready(w)',
         \A v \in Workers \ {w} :
           pc'[v] = pc[v] /\ next'[v] = next[v] /\ batch'[v] = batch[v] /\ upserted'[v] = upserted[v]
  PROVE  BatchBounded' /\ BatchesReal'
<1>1. \A v \in Workers \ {w} : Ready(v) => Ready(v)'
  BY DEF Ready, Unsaved
<1>2. \A v \in Workers : Ready(v)
  BY AllReady DEF BaseInv, TypeOK
<1>3. \A v \in Workers : Ready(v)'
  BY <1>1, <1>2
<1>4. QED
  BY <1>3 DEF BatchBounded, BatchesReal, Ready

(* Going on with the same batch, at its first message.                     *)
LEMMA GoToReady ==
  ASSUME BaseInv, NEW w \in Workers, NEW s \in Stages, GoTo(w, s), batch[w] # <<>>, UNCHANGED batch,
         \A v \in Workers \ {w} : upserted'[v] = upserted[v],
         s \in {"collect", "embed"} => upserted'[w] = {},
         s = "upsert" => Unsaved(w)' # {}
  PROVE  BatchBounded' /\ BatchesReal'
<1>1. WorkerTypeOK /\ Ready(w)
  BY AllReady DEF BaseInv, TypeOK
<1>2. /\ pc'[w] = s /\ next'[w] = 1
      /\ \A v \in Workers \ {w} : pc'[v] = pc[v] /\ next'[v] = next[v]
  BY <1>1, GoToType
<1>3. 1 \in DOMAIN batch[w]
  BY <1>1, BatchForm
<1>4. Ready(w)'
  BY <1>1, <1>2, <1>3 DEF Ready
<1>5. QED
  BY <1>2, <1>4, OthersReady

(* One message further in the same batch.                                  *)
LEMMA StepReady ==
  ASSUME BaseInv, NEW w \in Workers, NEW s \in Stages \ {"collect", "embed", "upsert"}, Step(w, s),
         pc[w] \notin {"collect", "embed", "upsert"}, UNCHANGED <<batch, upserted>>
  PROVE  BatchBounded' /\ BatchesReal'
<1>1. WorkerTypeOK /\ BatchBounded /\ Ready(w)
  BY AllReady DEF BaseInv, TypeOK
<1>2. CASE IsLast(w)
  <2>1. GoTo(w, s) /\ batch[w] # <<>>
    BY <1>1, <1>2, AtHandType DEF Step
  <2>2. QED
    BY <2>1, GoToReady
<1>3. CASE ~ IsLast(w)
  <2>1. /\ pc'[w] = pc[w] /\ next'[w] = next[w] + 1
        /\ \A v \in Workers \ {w} : pc'[v] = pc[v] /\ next'[v] = next[v]
    BY <1>1, <1>3, StepType
  <2>2. next[w] \in 1 .. Len(batch[w]) /\ next[w] # Len(batch[w]) /\ Len(batch[w]) \in Nat
    BY <1>1, <1>3, AtHandType, BatchForm DEF IsLast
  <2>3. next[w] + 1 \in DOMAIN batch[w]
    BY <1>1, <2>2, BatchForm
  <2>4. Ready(w)'
    BY <1>1, <2>1, <2>3 DEF Ready
  <2>5. QED
    BY <2>1, <2>4, OthersReady
<1>4. QED
  BY <1>2, <1>3

LEMMA EmptyHandedReady ==
  ASSUME BaseInv, NEW w \in Workers, EmptyHanded(w)
  PROVE  BatchBounded' /\ BatchesReal'
<1>1. WorkerTypeOK
  BY DEF BaseInv, TypeOK
<1>2. /\ pc'[w] = "collect" /\ batch'[w] = <<>> /\ upserted'[w] = {}
      /\ \A v \in Workers \ {w} :
           pc'[v] = pc[v] /\ next'[v] = next[v] /\ batch'[v] = batch[v] /\ upserted'[v] = upserted[v]
  BY <1>1 DEF EmptyHanded, GoTo, WorkerTypeOK
<1>3. Ready(w)'
  BY <1>2, WorkerAssumption DEF Ready
<1>4. QED
  BY <1>2, <1>3, OthersReady

(* The tenant whose rows are upserted is that of a message of the batch.   *)
LEMMA NextTenantType ==
  ASSUME BaseInv, NEW w \in Workers, pc[w] = "upsert"
  PROVE  NextTenant(w) \in Tenants
<1>1. WorkerTypeOK /\ Ready(w)
  BY AllReady DEF BaseInv, TypeOK
<1>2. Len(batch[w]) \in Nat /\ Unsaved(w) \in SUBSET (1 .. Len(batch[w])) /\ Unsaved(w) # {}
  BY <1>1, BatchForm DEF Ready, Unsaved
<1> DEFINE i == CHOOSE k \in Unsaved(w) : \A j \in Unsaved(w) : k <= j
<1>3. i \in Unsaved(w)
  <2>1. \E k \in Unsaved(w) : \A j \in Unsaved(w) : k <= j
    BY <1>2, FirstPlace
  <2>2. QED
    BY <2>1
<1>4. i \in DOMAIN batch[w] /\ NextTenant(w) = Chunk(batch[w][i]).tenant
  BY <1>3 DEF Unsaved, NextTenant
<1>5. QED
  BY <1>1, <1>4, ChunkType DEF Ready

(* The rows of an upsert are stored, and nothing that was is lost.         *)
LEMMA RowsStored ==
  ASSUME BaseInv, NEW w \in Workers, pc[w] = "upsert",
         store' = [store EXCEPT ![NextTenant(w)] = @ \cup RowsOf(w, NextTenant(w))]
  PROVE  /\ store' \in [Tenants -> SUBSET Position]
         /\ \A m : Real(m) /\ Stored(m) => Stored(m)'
         /\ \A i \in DOMAIN batch[w] :
              Chunk(batch[w][i]).tenant = NextTenant(w) =>
                batch[w][i] \in store'[NextTenant(w)]
<1> DEFINE t == NextTenant(w)
<1>1. t \in Tenants
  BY NextTenantType
<1>2. store \in [Tenants -> SUBSET Position] /\ WorkerTypeOK
  BY DEF BaseInv, TypeOK, OutputTypeOK
<1>3. RowsOf(w, t) \subseteq Position
  BY <1>2, BatchForm DEF RowsOf
<1>4. /\ store' \in [Tenants -> SUBSET Position]
      /\ \A u \in Tenants : store[u] \subseteq store'[u]
      /\ RowsOf(w, t) \subseteq store'[t]
  BY <1>1, <1>2, <1>3
<1>5. \A m : Real(m) /\ Stored(m) => Stored(m)'
  BY <1>4, ChunkType DEF Stored
<1>6. \A i \in DOMAIN batch[w] :
        Chunk(batch[w][i]).tenant = t => batch[w][i] \in RowsOf(w, t)
  BY DEF RowsOf
<1>7. QED
  BY <1>4, <1>5, <1>6 DEF Stored

(* The states that only the outputs have.                                  *)
LEMMA UnchangedOutputType ==
  ASSUME OutputTypeOK, UNCHANGED outputVars
  PROVE  OutputTypeOK'
BY DEF OutputTypeOK, outputVars

LEMMA UnchangedMemberType ==
  ASSUME MemberTypeOK, UNCHANGED memberVars
  PROVE  MemberTypeOK'
BY DEF MemberTypeOK, memberVars

LEMMA UnchangedReady ==
  ASSUME BaseInv, UNCHANGED workerVars
  PROVE  BatchBounded' /\ BatchesReal'
BY DEF BaseInv, TypeOK, workerVars, BatchBounded, BatchesReal, Unsaved

(* The message at hand is settled, and the worker goes on.                 *)
LEMMA FinishType ==
  ASSUME BaseInv, NEW w \in Workers, NEW s \in {"commit", "deadLetter"}, pc[w] = s,
         settled' = [settled EXCEPT ![AtHand(w).part] = @ \cup {AtHand(w).off}],
         IF IsLast(w) THEN EmptyHanded(w)
         ELSE Step(w, s) /\ UNCHANGED <<batch, upserted, reason>>
  PROVE  WorkerTypeOK' /\ BatchBounded' /\ BatchesReal'
<1>1. WorkerTypeOK /\ BatchBounded
  BY DEF BaseInv, TypeOK
<1>2. settled' \in [Partitions -> SUBSET Nat]
  BY <1>1, AtHandType DEF WorkerTypeOK
<1>3. CASE IsLast(w)
  BY <1>1, <1>2, <1>3, EmptyHandedType, EmptyHandedReady
<1>4. CASE ~ IsLast(w)
  <2>1. s \in Stages \ {"collect", "embed", "upsert"}
    BY DEF Stages
  <2>2. pc' \in [Workers -> Stages] /\ next' \in [Workers -> Nat \ {0}]
    BY <1>1, <1>4, <2>1, StepType
  <2>3. WorkerTypeOK'
    BY <1>1, <1>2, <1>4, <2>2 DEF WorkerTypeOK
  <2>4. QED
    BY <1>4, <2>1, <2>3, StepReady
<1>5. QED
  BY <1>3, <1>4

LEMMA CollectBase ==
  ASSUME BaseInv, NEW w \in Workers, NEW p \in Partitions, Collect(w, p)
  PROVE  BaseInv'
<1>1. GroupTypeOK /\ WorkerTypeOK /\ OutputTypeOK /\ Ready(w)
  BY AllReady DEF BaseInv, TypeOK
<1> DEFINE m == [part |-> p, off |-> position[p]]
<1>2. /\ m \in Position /\ Real(m) /\ pc[w] = "collect" /\ Len(batch[w]) < BatchSize
      /\ UNCHANGED <<pc, next, upserted, reason, outputVars>>
      /\ \/ /\ batch' = [batch EXCEPT ![w] = Append(@, m)]
            /\ batch' \in [Workers -> Seq(Position)]
            /\ Len(batch'[w]) = Len(batch[w]) + 1
            /\ DOMAIN batch'[w] = 1 .. Len(batch[w]) + 1
            /\ \A i \in DOMAIN batch[w] : batch'[w][i] = batch[w][i]
            /\ batch'[w][Len(batch[w]) + 1] = m
            /\ UNCHANGED settled
         \/ settled' = [settled EXCEPT ![p] = @ \cup {m.off}] /\ UNCHANGED batch
  BY <1>1, CollectForm
<1>3. m.off \in Nat
  BY <1>2 DEF Position
<1> HIDE DEF m
<1>4. GroupTypeOK'
  BY <1>1, FetchType DEF Collect
<1>5. WorkerTypeOK'
  BY <1>1, <1>2, <1>3 DEF WorkerTypeOK
<1>6. BatchBounded' /\ BatchesReal'
  <2>1. CASE UNCHANGED batch
    BY <1>2, <2>1, UnchangedReady DEF workerVars
  <2>2. CASE ~ UNCHANGED batch
    <3>1. \A v \in Workers \ {w} : batch'[v] = batch[v]
      BY <1>1, <1>2, <2>2 DEF WorkerTypeOK
    <3>2. Len(batch[w]) \in Nat /\ DOMAIN batch[w] = 1 .. Len(batch[w])
      BY <1>1, BatchForm
    <3>3. Len(batch'[w]) <= BatchSize
      BY <1>2, <2>2, <3>2, WorkerAssumption
    <3>4. \A i \in DOMAIN batch'[w] : Real(batch'[w][i])
      BY <1>1, <1>2, <2>2, <3>2 DEF Ready
    <3>5. Ready(w)'
      BY <1>1, <1>2, <3>3, <3>4 DEF Ready, Real
    <3>6. QED
      BY <1>2, <3>1, <3>5, OthersReady
  <2>3. QED
    BY <2>1, <2>2
<1>7. QED
  BY <1>1, <1>2, <1>4, <1>5, <1>6, UnchangedOutputType DEF BaseInv, TypeOK

(* Each step of _process_batch keeps the types.                            *)
LEMMA ProcessBatchBase ==
  ASSUME BaseInv, NEW w \in Workers, ProcessBatch(w)
  PROVE  BaseInv'
<1> USE DEF BaseInv, TypeOK, GroupTypeOK
<1>0. /\ Ready(w)
      /\ pc[w] # "collect" => batch[w] # <<>> /\ AtHand(w) \in Position
      /\ {"embed", "upsert", "publish", "flush", "commit", "deadLetter"} \subseteq Stages
      /\ {"embedding_rate_limit", "embedding_error", "milvus_error"} \subseteq Reasons
  BY AllReady, AtHandType DEF Stages, Reasons
<1>1. CASE BatchReady(w)
  <2>1. WorkerTypeOK'
    BY <1>0, <1>1, GoToType DEF BatchReady, WorkerTypeOK
  <2>2. BatchBounded' /\ BatchesReal'
    BY <1>0, <1>1, GoToReady DEF BatchReady, Ready
  <2>3. QED
    BY <1>1, <2>1, <2>2, UnchangedGroupType, UnchangedOutputType DEF BatchReady
<1>2. CASE Embed(w)
  <2>1. WorkerTypeOK'
    BY <1>0, <1>2, GoToType DEF Embed, WorkerTypeOK
  <2>2. Unsaved(w)' # {}
    BY <1>0, <1>2, BatchForm DEF Embed, Ready, Unsaved
  <2>3. BatchBounded' /\ BatchesReal'
    BY <1>0, <1>2, <2>2, GoToReady DEF Embed
  <2>4. QED
    BY <1>2, <2>1, <2>3, UnchangedGroupType, UnchangedOutputType DEF Embed
<1>3. ASSUME NEW r \in Reasons, RouteToDlq(w, r), pc[w] # "collect"
      PROVE  MemberTypeOK' /\ WorkerTypeOK' /\ BatchBounded' /\ BatchesReal'
  <2>1. WorkerTypeOK'
    BY <1>0, <1>3, GoToType DEF RouteToDlq, WorkerTypeOK
  <2>2. BatchBounded' /\ BatchesReal'
    BY <1>0, <1>3, GoToReady DEF RouteToDlq
  <2>3. QED
    BY <1>3, <2>1, <2>2, UnchangedMemberType DEF RouteToDlq
<1>4. CASE EmbedFails(w)
  BY <1>0, <1>3, <1>4, FaultType, UnchangedOutputType DEF EmbedFails
<1>5. CASE UpsertTenant(w)
  <2>1. /\ NextTenant(w) \in Tenants
        /\ upserted' = [upserted EXCEPT ![w] = @ \cup {NextTenant(w)}]
        /\ store' \in [Tenants -> SUBSET Position]
    BY <1>5, NextTenantType, RowsStored DEF UpsertTenant
  <2>2. /\ upserted' \in [Workers -> SUBSET Tenants]
        /\ upserted'[w] = upserted[w] \cup {NextTenant(w)}
        /\ \A v \in Workers \ {w} : upserted'[v] = upserted[v]
    BY <2>1 DEF WorkerTypeOK
  <2>3. OutputTypeOK'
    BY <1>5, <2>1 DEF UpsertTenant, OutputTypeOK
  <2>4. CASE GoTo(w, "publish")
    <3>1. WorkerTypeOK'
      BY <1>0, <1>5, <2>2, <2>4, GoToType DEF UpsertTenant, WorkerTypeOK
    <3>2. BatchBounded' /\ BatchesReal'
      BY <1>0, <1>5, <2>2, <2>4, GoToReady DEF UpsertTenant
    <3>3. QED
      BY <1>5, <2>3, <3>1, <3>2, UnchangedGroupType DEF UpsertTenant
  <2>5. CASE /\ UNCHANGED <<pc, next>>
             /\ ~ \A i \in Unsaved(w) : Chunk(batch[w][i]).tenant = NextTenant(w)
    <3>1. WorkerTypeOK'
      BY <1>5, <2>2, <2>5 DEF UpsertTenant, WorkerTypeOK
    <3>2. Unsaved(w)' # {}
      BY <1>5, <2>2, <2>5 DEF UpsertTenant, Unsaved
    <3>3. Ready(w)'
      BY <1>0, <1>5, <2>5, <3>2 DEF UpsertTenant, Ready
    <3>4. BatchBounded' /\ BatchesReal'
      BY <1>5, <2>2, <2>5, <3>3, OthersReady DEF UpsertTenant
    <3>5. QED
      BY <1>5, <2>3, <3>1, <3>4, UnchangedGroupType DEF UpsertTenant
  <2>6. QED
    BY <1>5, <2>4, <2>5 DEF UpsertTenant
<1>6. CASE UpsertFails(w)
  <2>1. store' \in [Tenants -> SUBSET Position]
    BY <1>6, RowsStored DEF UpsertFails, OutputTypeOK
  <2>2. OutputTypeOK'
    BY <1>6, <2>1 DEF UpsertFails, OutputTypeOK
  <2>3. QED
    BY <1>0, <1>3, <1>6, <2>2, FaultType DEF UpsertFails
<1>7. CASE Publish(w)
  <2>1. WorkerTypeOK'
    BY <1>0, <1>7, StepType DEF Publish, WorkerTypeOK
  <2>2. BatchBounded' /\ BatchesReal'
    BY <1>0, <1>7, StepReady DEF Publish
  <2>3. /\ AtHand(w) \in Position /\ Chunk(AtHand(w)).file \in Files
    <3>1. AtHand(w) \in Position /\ next[w] \in DOMAIN batch[w]
      BY <1>0, <1>7, AtHandType DEF Publish
    <3>2. Real(AtHand(w))
      BY <1>0, <3>1 DEF BatchesReal, AtHand
    <3>3. QED
      BY <3>1, <3>2, ChunkType
  <2>4. OutputTypeOK' /\ faults' \in 0 .. MaxFaults
    BY <1>0, <1>7, <2>3, FaultType DEF Publish, UpdateStatus, OutputTypeOK
  <2>5. QED
    BY <1>7, <2>1, <2>2, <2>4, UnchangedMemberType DEF Publish
<1>8. CASE Flush(w)
  <2>1. WorkerTypeOK'
    BY <1>0, <1>8, GoToType DEF Flush, WorkerTypeOK
  <2>2. BatchBounded' /\ BatchesReal'
    BY <1>0, <1>8, GoToReady DEF Flush
  <2>3. OutputTypeOK' /\ faults' \in 0 .. MaxFaults
    BY <1>8, FaultType DEF Flush, OutputTypeOK
  <2>4. QED
    BY <1>8, <2>1, <2>2, <2>3, UnchangedMemberType DEF Flush
<1>9. CASE CommitMessage(w)
  <2>1. MemberTypeOK'
    BY <1>9, AtHandType, CommitType DEF CommitMessage
  <2>2. QED
    BY <1>9, <2>1, FinishType, UnchangedOutputType DEF CommitMessage
<1>10. CASE SendToDlq(w)
  <2>1. OutputTypeOK' /\ faults' \in 0 .. MaxFaults
    <3>1. [msg |-> AtHand(w), reason |-> reason[w]] \in DeadLetters
      BY <1>0, <1>10 DEF SendToDlq, DeadLetters, WorkerTypeOK
    <3>2. QED
      BY <1>0, <1>10, <3>1, FaultType DEF SendToDlq, OutputTypeOK
  <2>2. QED
    BY <1>10, <2>1, FinishType, UnchangedMemberType DEF SendToDlq
<1>11. QED
  BY <1>1, <1>2, <1>4, <1>5, <1>6, <1>7, <1>8, <1>9, <1>10 DEF ProcessBatch

LEMMA BaseStep ==
  ASSUME BaseInv, [Next]_vars
  PROVE  BaseInv'
<1> USE DEF BaseInv, TypeOK
<1>1. ASSUME NEW w \in Workers, NEW p \in Partitions, Collect(w, p)  PROVE BaseInv'
  BY <1>1, CollectBase
<1>2. ASSUME NEW w \in Workers, ProcessBatch(w)  PROVE BaseInv'
  BY <1>2, ProcessBatchBase
<1>3. ASSUME UNCHANGED <<workerVars, settled>>, GroupTypeOK', OutputTypeOK'  PROVE BaseInv'
  <2>1. WorkerTypeOK'
    BY <1>3 DEF WorkerTypeOK, workerVars
  <2>2. QED
    BY <1>3, <2>1, UnchangedReady
<1>4. ASSUME NEW w \in Workers, DeliverEvent(w)  PROVE BaseInv'
  <2>1. OutputTypeOK'
    BY <1>4 DEF DeliverEvent, OutputTypeOK
  <2>2. QED
    BY <1>3, <1>4, <2>1, UnchangedGroupType DEF DeliverEvent
<1>5. ASSUME NEW w \in Workers, DeliveryFails(w)  PROVE BaseInv'
  <2>1. OutputTypeOK'
    BY <1>5 DEF DeliveryFails, OutputTypeOK
  <2>2. GroupTypeOK'
    BY <1>5, FaultType, UnchangedMemberType DEF DeliveryFails, GroupTypeOK
  <2>3. QED
    BY <1>3, <1>5, <2>1, <2>2 DEF DeliveryFails
<1>6. ASSUME NEW w \in Workers, Coordinate(w) \/ Disturb(w)  PROVE BaseInv'
  <2>1. GroupTypeOK'
    BY <1>6, CommitLandsType, RejoinType, AssignType, RevokeType, ExpelType
    DEF Coordinate, Disturb
  <2>2. QED
    BY <1>3, <1>6, <2>1, UnchangedOutputType DEF Coordinate, Disturb
<1>7. ASSUME NEW w \in Workers, Crash(w)  PROVE BaseInv'
  <2>1. WorkerTypeOK'
    BY <1>7, EmptyHandedType DEF Crash, WorkerTypeOK
  <2>2. BatchBounded' /\ BatchesReal'
    BY <1>7, EmptyHandedReady DEF Crash
  <2>3. GroupTypeOK'
    BY <1>7, FaultType, LeaveType DEF Crash, GroupTypeOK
  <2>4. OutputTypeOK'
    BY <1>7 DEF Crash, OutputTypeOK
  <2>5. QED
    BY <2>1, <2>2, <2>3, <2>4
<1>8. CASE UNCHANGED vars
  BY <1>3, <1>8, UnchangedGroupType, UnchangedOutputType DEF vars
<1>9. QED
  BY <1>1, <1>2, <1>4, <1>5, <1>6, <1>7, <1>8 DEF Next

(* Types hold, and batches are read from the log.                          *)
LEMMA WorkerBaseCorrect == Spec => []BaseInv
<1>1. Init => BaseInv
  <2> SUFFICES ASSUME Init PROVE BaseInv
    OBVIOUS
  <2> USE DEF Init
  <2>1. GroupTypeOK
    <3>1. NoRequests \in [Partitions -> Nat] /\ 0 \in 0 .. MaxFaults
      BY GroupAssumption, FaultAssumption DEF NoRequests
    <3>2. QED
      BY <3>1 DEF GroupInit, GroupTypeOK, MemberTypeOK
  <2>2. WorkerTypeOK
    <3>1. "collect" \in Stages /\ "none" \in Reasons /\ 1 \in Nat \ {0}
      BY DEF Stages, Reasons
    <3>2. <<>> \in Seq(Position)
      OBVIOUS
    <3>3. QED
      BY <3>1, <3>2 DEF WorkerTypeOK
  <2>3. \A w \in Workers : Ready(w)
    <3> SUFFICES ASSUME NEW w \in Workers PROVE Ready(w)
      OBVIOUS
    <3>1. batch[w] = <<>> /\ pc[w] = "collect" /\ upserted[w] = {}
      OBVIOUS
    <3>2. Len(batch[w]) = 0 /\ DOMAIN batch[w] = {}
      BY <3>1
    <3>3. QED
      BY <3>1, <3>2, WorkerAssumption DEF Ready
  <2>4. OutputTypeOK
    BY DEF OutputTypeOK
  <2>5. QED
    BY <2>1, <2>2, <2>3, <2>4, AllReady DEF BaseInv, TypeOK
<1>2. BaseInv /\ [Next]_vars => BaseInv'
  BY BaseStep
<1>3. QED
  BY <1>1, <1>2, PTL DEF Spec

(* Every variable of workers, topics, table and collections keeps its      *)
(* type, batches stay within their bound, and loops within their batch.    *)
THEOREM WorkerTypeCorrect == Spec => []TypeOK
<1>1. BaseInv => TypeOK
  BY DEF BaseInv
<1>2. QED
  BY <1>1, WorkerBaseCorrect, PTL

----------------------------------------------------------------------------
(* No message is skipped.                                                  *)

(* What a step of _process_batch does to the order: it goes on with the    *)
(* same batch, ...                                                         *)
Keeps(w) ==
  /\ UNCHANGED <<memberVars, batch, settled>>
  /\ \A v \in Workers : From(v)' = From(v)

(* ... or it settles the message at hand, and may ask for a commit.        *)
Finishes(w) ==
  /\ pc[w] \in {"commit", "deadLetter"}
  /\ Commit(w, AtHand(w).part, AtHand(w).off) \/ UNCHANGED memberVars
  /\ settled' = [settled EXCEPT ![AtHand(w).part] = @ \cup {AtHand(w).off}]
  /\ IF IsLast(w) THEN EmptyHanded(w)
     ELSE Step(w, pc[w]) /\ UNCHANGED <<batch, upserted, reason>>

LEMMA GoToKeeps ==
  ASSUME WorkerTypeOK, NEW w \in Workers, NEW s \in Stages, GoTo(w, s),
         pc[w] \notin {"commit", "deadLetter"}
  PROVE  \A v \in Workers : From(v)' = From(v)
BY GoToType DEF From

LEMMA ProcessBatchShape ==
  ASSUME BaseInv, NEW w \in Workers, ProcessBatch(w)
  PROVE  Keeps(w) \/ Finishes(w)
<1> USE DEF Keeps, groupVars
<1>0. /\ WorkerTypeOK /\ BatchBounded
      /\ {"embed", "upsert", "publish", "flush", "commit", "deadLetter"} \subseteq Stages
  BY DEF BaseInv, TypeOK, Stages
<1>1. CASE BatchReady(w)
  BY <1>0, <1>1, GoToKeeps DEF BatchReady
<1>2. CASE Embed(w)
  BY <1>0, <1>2, GoToKeeps DEF Embed
<1>3. CASE EmbedFails(w)
  BY <1>0, <1>3, GoToKeeps DEF EmbedFails, RouteToDlq
<1>4. CASE UpsertTenant(w)
  <2>1. \A v \in Workers : From(v)' = From(v)
    <3>1. CASE GoTo(w, "publish")
      BY <1>0, <1>4, <3>1, GoToKeeps DEF UpsertTenant
    <3>2. CASE UNCHANGED <<pc, next>>
      BY <3>2 DEF From
    <3>3. QED
      BY <1>4, <3>1, <3>2 DEF UpsertTenant
  <2>2. QED
    BY <1>4, <2>1 DEF UpsertTenant
<1>5. CASE UpsertFails(w)
  BY <1>0, <1>5, GoToKeeps DEF UpsertFails, RouteToDlq
<1>6. CASE Publish(w)
  <2>1. \A v \in Workers : From(v)' = From(v)
    BY <1>0, <1>6, StepType DEF Publish, From
  <2>2. QED
    BY <1>6, <2>1 DEF Publish
<1>7. CASE Flush(w)
  BY <1>0, <1>7, GoToKeeps DEF Flush
<1>8. CASE CommitMessage(w)
  BY <1>8 DEF CommitMessage, Finishes
<1>9. CASE SendToDlq(w)
  BY <1>9 DEF SendToDlq, Finishes
<1>10. QED
  BY <1>1, <1>2, <1>3, <1>4, <1>5, <1>6, <1>7, <1>8, <1>9 DEF ProcessBatch

(* The message at hand is the first that waits, and waits no longer.       *)
LEMMA FinishShape ==
  ASSUME BaseInv, NEW w \in Workers, Finishes(w)
  PROVE  /\ next[w] \in Waiting(w) /\ \A i \in Waiting(w) : next[w] <= i
         /\ \A i \in Waiting(w) : i # next[w] => i \in Waiting(w)'
         /\ \A i \in Waiting(w)' :
              i \in Waiting(w) /\ i # next[w] /\ batch'[w][i] = batch[w][i]
         /\ \A v \in Workers \ {w} : Waiting(v)' = Waiting(v) /\ batch'[v] = batch[v]
<1>1. WorkerTypeOK /\ BatchBounded
  BY DEF BaseInv, TypeOK
<1>2. /\ next[w] \in DOMAIN batch[w] /\ next[w] \in Nat /\ From(w) = next[w]
      /\ Len(batch[w]) \in Nat /\ DOMAIN batch[w] = 1 .. Len(batch[w])
  BY <1>1, AtHandType, BatchForm DEF Finishes, From
<1>3. next[w] \in Waiting(w) /\ \A i \in Waiting(w) : next[w] <= i
  BY <1>2 DEF Waiting
<1>4. CASE IsLast(w)
  <2>1. /\ batch'[w] = <<>>
        /\ \A v \in Workers \ {w} :
             pc'[v] = pc[v] /\ next'[v] = next[v] /\ batch'[v] = batch[v]
    BY <1>1, <1>4 DEF Finishes, EmptyHanded, GoTo, WorkerTypeOK
  <2>2. Waiting(w)' = {}
    BY <2>1 DEF Waiting
  <2>3. \A i \in Waiting(w) : i = next[w]
    BY <1>2, <1>4 DEF Waiting, IsLast
  <2>4. QED
    BY <1>3, <2>1, <2>2, <2>3 DEF Waiting, From
<1>5. CASE ~ IsLast(w)
  <2>1. /\ UNCHANGED batch /\ pc'[w] = pc[w] /\ next'[w] = next[w] + 1
        /\ \A v \in Workers \ {w} : pc'[v] = pc[v] /\ next'[v] = next[v]
    <3>1. pc[w] \in Stages
      BY <1>1 DEF WorkerTypeOK
    <3>2. QED
      BY <1>1, <1>5, <3>1, StepType DEF Finishes
  <2>2. From(w)' = next[w] + 1
    BY <2>1 DEF Finishes, From
  <2>3. Waiting(w)' = {i \in DOMAIN batch[w] : next[w] + 1 <= i}
    BY <2>1, <2>2 DEF Waiting
  <2>4. QED
    BY <1>2, <1>3, <2>1, <2>3 DEF Waiting, From
<1>6. QED
  BY <1>4, <1>5

(* OrderInv survives a step that changes nothing it speaks of, ...         *)
LEMMA KeepsOrder ==
  ASSUME BaseInv, OrderInv, UNCHANGED <<memberVars, batch, settled>>,
         \A v \in Workers : From(v)' = From(v)
  PROVE  OrderInv'
<1>1. \A v \in Workers : Waiting(v)' = Waiting(v)
  BY DEF Waiting
<1>2. \A p \in Partitions : owner[p] # NoWorker => owner[p] \in Workers
  BY DEF BaseInv, TypeOK, GroupTypeOK, MemberTypeOK
<1>3. QED
  BY <1>1, <1>2 DEF OrderInv, NothingSkipped, ReadInOrder, BatchesInOrder, RequestsSettled,
     Pending, memberVars

(* ... the collection of a message, ...                                    *)
LEMMA CollectOrder ==
  ASSUME BaseInv, OrderInv, NEW w \in Workers, NEW p \in Partitions, Collect(w, p)
  PROVE  OrderInv'
<1>1. GroupTypeOK /\ WorkerTypeOK
  BY DEF BaseInv, TypeOK
<1> DEFINE m == [part |-> p, off |-> position[p]]
           n == Len(batch[w]) + 1
<1>2. /\ m \in Position /\ pc[w] = "collect" /\ owner[p] = w
      /\ position' = [position EXCEPT ![p] = @ + 1]
      /\ UNCHANGED <<owner, joined, request, committed, pc, next>>
      /\ \/ /\ batch' = [batch EXCEPT ![w] = Append(@, m)]
            /\ DOMAIN batch'[w] = 1 .. n
            /\ \A i \in DOMAIN batch[w] : batch'[w][i] = batch[w][i]
            /\ batch'[w][n] = m
            /\ UNCHANGED settled
         \/ settled' = [settled EXCEPT ![p] = @ \cup {position[p]}] /\ UNCHANGED batch
  BY <1>1, CollectForm
<1>3. m.part = p /\ m.off = position[p] /\ position[p] \in Nat
  BY <1>1 DEF GroupTypeOK, MemberTypeOK
<1>4. Len(batch[w]) \in Nat /\ DOMAIN batch[w] = 1 .. Len(batch[w])
  BY <1>1, BatchForm
<1> HIDE DEF m
<1>5. \A q \in Partitions : settled[q] \subseteq settled'[q]
  BY <1>1, <1>2 DEF WorkerTypeOK
<1>6. \A v \in Workers \ {w} : Waiting(v)' = Waiting(v) /\ batch'[v] = batch[v]
  BY <1>1, <1>2 DEF Waiting, From, WorkerTypeOK
<1>7. /\ \A i \in Waiting(w) : i \in Waiting(w)' /\ batch'[w][i] = batch[w][i]
      /\ Waiting(w) = DOMAIN batch[w] /\ Waiting(w)' = DOMAIN batch'[w]
  BY <1>2, <1>4 DEF Waiting, From
<1>8. \/ position[p] \in settled'[p]
      \/ n \in Waiting(w)' /\ batch'[w][n] = m
  BY <1>1, <1>2, <1>3, <1>4, <1>7 DEF WorkerTypeOK
<1>9. \A v \in Workers : \A q \in Partitions : \A o : Pending(v, q, o) => Pending(v, q, o)'
  BY <1>6, <1>7 DEF Pending
<1>10. NothingSkipped' /\ RequestsSettled'
  BY <1>2, <1>5 DEF OrderInv, NothingSkipped, RequestsSettled
<1>11. \A o \in 0 .. position[p] - 1 : o \in settled[p] \/ Pending(w, p, o)
  BY <1>2, GroupAssumption DEF OrderInv, ReadInOrder
<1>12. ReadInOrder'
  <2> SUFFICES ASSUME NEW q \in Partitions, owner[q] # NoWorker,
                      NEW o \in 0 .. position'[q] - 1
               PROVE  o \in settled'[q] \/ Pending(owner[q], q, o)'
    BY <1>2 DEF ReadInOrder
  <2>0. owner[q] \in Workers
    BY <1>1 DEF GroupTypeOK, MemberTypeOK
  <2>1. CASE q = p /\ o = position[p]
    <3>1. m = [part |-> q, off |-> o]
      BY <2>1 DEF m
    <3>2. QED
      BY <1>2, <1>8, <2>1, <3>1 DEF Pending
  <2>2. CASE q # p \/ o # position[p]
    <3>1. o \in 0 .. position[q] - 1
      BY <1>1, <1>2, <1>3, <2>2 DEF GroupTypeOK, MemberTypeOK
    <3>2. o \in settled[q] \/ Pending(owner[q], q, o)
      BY <3>1 DEF OrderInv, ReadInOrder
    <3>3. owner' = owner
      BY <1>2
    <3>4. QED
      BY <1>5, <1>9, <2>0, <3>2, <3>3
  <2>3. QED
    BY <2>1, <2>2
<1>13. BatchesInOrder'
  <2> SUFFICES ASSUME NEW v \in Workers, NEW i \in Waiting(v)',
                      NEW o \in 0 .. batch'[v][i].off - 1
               PROVE  \/ o \in settled'[batch'[v][i].part]
                      \/ \E j \in Waiting(v)' :
                           j < i /\ batch'[v][j] = [part |-> batch'[v][i].part, off |-> o]
    BY DEF BatchesInOrder
  <2>1. CASE i \in Waiting(v)
    <3>1. batch'[v][i] = batch[v][i] /\ batch[v][i].part \in Partitions
      <4>1. batch[v][i] \in Position
        BY <1>1, <2>1, BatchForm DEF Waiting
      <4>2. QED
        BY <1>6, <1>7, <2>1, <4>1 DEF Position
    <3>2. \/ o \in settled[batch[v][i].part]
          \/ \E j \in Waiting(v) :
               j < i /\ batch[v][j] = [part |-> batch[v][i].part, off |-> o]
      BY <2>1, <3>1 DEF OrderInv, BatchesInOrder
    <3>3. QED
      BY <1>5, <1>6, <1>7, <3>1, <3>2
  <2>2. CASE i \notin Waiting(v)
    <3>1. v = w /\ ~ UNCHANGED batch
      BY <1>6, <1>7, <2>2
    <3>2. i = n /\ batch'[v][i] = m
      BY <1>2, <1>4, <1>7, <2>2, <3>1
    <3>3. o \in settled[p] \/ Pending(w, p, o)
      BY <1>3, <1>11, <3>2
    <3>4. \A j \in Waiting(w) : j < i
      BY <1>4, <1>7, <3>2
    <3>5. QED
      BY <1>3, <1>5, <1>7, <3>1, <3>2, <3>3, <3>4 DEF Pending
  <2>3. QED
    BY <2>1, <2>2
<1>14. QED
  BY <1>10, <1>12, <1>13 DEF OrderInv

(* ReadInOrder in the next state, with a name for the owner.               *)
LEMMA OwnedInOrder ==
  ASSUME \A p \in Partitions : owner'[p] \in Workers \cup {NoWorker},
         \A p \in Partitions : \A v \in Workers : owner'[p] = v =>
           \A o \in 0 .. position'[p] - 1 : o \in settled'[p] \/ Pending(v, p, o)'
  PROVE  ReadInOrder'
BY DEF ReadInOrder, Pending, Waiting, From

(* ... the end of _process_batch for one message, ...                      *)
LEMMA FinishOrder ==
  ASSUME BaseInv, OrderInv, NEW w \in Workers, Finishes(w)
  PROVE  OrderInv'
<1>1. MemberTypeOK /\ WorkerTypeOK /\ BatchBounded
  BY DEF BaseInv, TypeOK, GroupTypeOK
<1> DEFINE q == AtHand(w).part
           n == AtHand(w).off
<1>2. /\ next[w] \in DOMAIN batch[w] /\ AtHand(w) = batch[w][next[w]]
      /\ q \in Partitions /\ n \in Nat /\ n < End(q)
  BY <1>1, AtHandType DEF Finishes, AtHand, BaseInv, BatchesReal, Real
<1>3. /\ settled' = [settled EXCEPT ![q] = @ \cup {n}]
      /\ Commit(w, q, n) \/ UNCHANGED memberVars
      /\ UNCHANGED <<owner, position, committed>>
  BY DEF Finishes, Commit, memberVars
<1>4. next[w] \in Waiting(w) /\ \A i \in Waiting(w) : next[w] <= i
  BY FinishShape
<1>5. \A o \in 0 .. n - 1 : o \in settled[q]
  <2> SUFFICES ASSUME NEW o \in 0 .. n - 1 PROVE o \in settled[q]
    OBVIOUS
  <2>1. \A i \in Waiting(w) : i \in Nat /\ next[w] \in Nat
    BY <1>1, <1>2, BatchForm DEF Waiting
  <2>2. \/ o \in settled[q]
        \/ \E j \in Waiting(w) : j < next[w]
    BY <1>2, <1>4 DEF OrderInv, BatchesInOrder
  <2>3. QED
    BY <1>4, <2>1, <2>2
<1>6. n \in settled'[q] /\ \A p \in Partitions : settled[p] \subseteq settled'[p]
  BY <1>1, <1>2, <1>3 DEF WorkerTypeOK
<1>7. /\ \A v \in Workers : \A i \in Waiting(v) :
           \/ i \in Waiting(v)' /\ batch'[v][i] = batch[v][i]
           \/ batch[v][i] = AtHand(w)
      /\ \A v \in Workers : \A i \in Waiting(v)' :
           i \in Waiting(v) /\ batch'[v][i] = batch[v][i]
  <2>1. \A v \in Workers \ {w} : Waiting(v)' = Waiting(v) /\ batch'[v] = batch[v]
    BY FinishShape
  <2>2. /\ \A i \in Waiting(w) : i # next[w] => i \in Waiting(w)'
        /\ \A i \in Waiting(w)' : i \in Waiting(w) /\ batch'[w][i] = batch[w][i]
    BY FinishShape
  <2>3. QED
    BY <1>2, <2>1, <2>2
<1>8. NothingSkipped'
  BY <1>3, <1>6 DEF OrderInv, NothingSkipped
<1>9. ReadInOrder'
  <2> SUFFICES ASSUME NEW p \in Partitions, NEW v \in Workers, owner[p] = v,
                      NEW o \in 0 .. position[p] - 1
               PROVE  o \in settled'[p] \/ Pending(v, p, o)'
    BY <1>1, <1>3, OwnedInOrder DEF MemberTypeOK
  <2>2. CASE o \in settled[p]
    BY <1>6, <2>2
  <2>3. ASSUME NEW i \in Waiting(v), batch[v][i] = [part |-> p, off |-> o]
        PROVE  o \in settled'[p] \/ Pending(v, p, o)'
    <3>1. CASE i \in Waiting(v)' /\ batch'[v][i] = batch[v][i]
      BY <2>3, <3>1 DEF Pending
    <3>2. CASE batch[v][i] = AtHand(w)
      <4>1. q = p /\ n = o
        BY <2>3, <3>2
      <4>2. QED
        BY <1>6, <4>1
    <3>3. QED
      BY <1>7, <3>1, <3>2
  <2>4. o \in settled[p] \/ Pending(v, p, o)
    BY GroupAssumption DEF OrderInv, ReadInOrder
  <2>5. QED
    BY <2>2, <2>3, <2>4 DEF Pending
<1>10. BatchesInOrder'
  <2> SUFFICES ASSUME NEW v \in Workers, NEW i \in Waiting(v)',
                      NEW o \in 0 .. batch'[v][i].off - 1
               PROVE  \/ o \in settled'[batch'[v][i].part]
                      \/ \E j \in Waiting(v)' :
                           j < i /\ batch'[v][j] = [part |-> batch'[v][i].part, off |-> o]
    BY DEF BatchesInOrder
  <2> DEFINE p == batch[v][i].part
  <2>1. i \in Waiting(v) /\ batch'[v][i] = batch[v][i]
    BY <1>7
  <2>2. p \in Partitions
    BY <1>1, <2>1, BatchForm DEF Waiting, Position
  <2>3. o \in settled[p] \/ \E j \in Waiting(v) : j < i /\ batch[v][j] = [part |-> p, off |-> o]
    BY <2>1 DEF OrderInv, BatchesInOrder
  <2>4. CASE o \in settled[p]
    BY <1>6, <2>1, <2>2, <2>4
  <2>5. ASSUME NEW j \in Waiting(v), j < i, batch[v][j] = [part |-> p, off |-> o]
        PROVE  \/ o \in settled'[p]
               \/ \E k \in Waiting(v)' : k < i /\ batch'[v][k] = [part |-> p, off |-> o]
    <3>1. CASE j \in Waiting(v)' /\ batch'[v][j] = batch[v][j]
      BY <2>5, <3>1
    <3>2. CASE batch[v][j] = AtHand(w)
      <4>1. q = p /\ n = o
        BY <2>5, <3>2
      <4>2. QED
        BY <1>6, <4>1
    <3>3. QED
      BY <1>7, <3>1, <3>2
  <2>6. QED
    BY <2>1, <2>3, <2>4, <2>5
<1>11. RequestsSettled'
  <2> SUFFICES ASSUME NEW v \in Workers, NEW p \in Partitions
               PROVE  /\ request'[v][p] <= End(p)
                      /\ \A o \in 0 .. request'[v][p] - 1 : o \in settled'[p]
    BY DEF RequestsSettled
  <2>1. CASE request'[v][p] = request[v][p]
    BY <1>6, <2>1 DEF OrderInv, RequestsSettled
  <2>2. CASE p = q /\ request'[v][p] = n + 1
    <3>1. n + 1 <= End(q)
      BY <1>2, EndType
    <3>2. \A o \in 0 .. (n + 1) - 1 : o = n \/ o \in 0 .. n - 1
      BY <1>2, UpTo
    <3>3. \A o \in 0 .. (n + 1) - 1 : o \in settled'[q]
      BY <1>2, <1>5, <1>6, <3>2
    <3>4. QED
      BY <2>2, <3>1, <3>3
  <2>3. QED
    BY <1>1, <1>2, <1>3, <2>1, <2>2, CommitRequest DEF memberVars
<1>12. QED
  BY <1>8, <1>9, <1>10, <1>11 DEF OrderInv

(* ... a commit that reaches the coordinator, ...                          *)
LEMMA CommitLandsOrder ==
  ASSUME BaseInv, OrderInv, NEW w \in Workers, NEW p \in Partitions,
         CommitLands(w, p), UNCHANGED <<workerVars, settled>>
  PROVE  OrderInv'
<1>0. MemberTypeOK
  BY DEF BaseInv, TypeOK, GroupTypeOK
<1>1. NothingSkipped'
  BY <1>0 DEF CommitLands, MemberTypeOK, OrderInv, NothingSkipped, RequestsSettled
<1>2. ReadInOrder' /\ BatchesInOrder'
  <2>1. \A v \in Workers : Waiting(v)' = Waiting(v)
    BY DEF Waiting, From, workerVars
  <2>2. \A r \in Partitions : owner[r] # NoWorker => owner[r] \in Workers
    BY <1>0 DEF MemberTypeOK
  <2>3. QED
    BY <2>1, <2>2
    DEF OrderInv, ReadInOrder, BatchesInOrder, Pending, CommitLands, workerVars
<1>3. RequestsSettled'
  <2> SUFFICES ASSUME NEW v \in Workers, NEW q \in Partitions
               PROVE  request'[v][q] = 0 \/ request'[v][q] = request[v][q]
    BY EndType DEF OrderInv, RequestsSettled
  <2>1. request' = [request EXCEPT ![w] = [request[w] EXCEPT ![p] = 0]]
    BY DEF CommitLands
  <2>2. request[w] \in [Partitions -> Nat] /\ request \in [Workers -> [Partitions -> Nat]]
    BY <1>0 DEF MemberTypeOK
  <2>3. CASE v = w
    BY <2>1, <2>2, <2>3
  <2>4. CASE v # w
    BY <2>1, <2>2, <2>4
  <2>5. QED
    BY <2>3, <2>4
<1>4. QED
  BY <1>1, <1>2, <1>3 DEF OrderInv

(* ... an owner that starts from the committed offset, ...                 *)
LEMMA AssignOrder ==
  ASSUME BaseInv, OrderInv, NEW w \in Workers, NEW p \in Partitions,
         Assign(w, p), UNCHANGED <<workerVars, settled>>
  PROVE  OrderInv'
<1>0. MemberTypeOK
  BY DEF BaseInv, TypeOK, GroupTypeOK
<1>1. \A v \in Workers : Waiting(v)' = Waiting(v)
  BY DEF Waiting, From, workerVars
<1>2. NothingSkipped' /\ BatchesInOrder' /\ RequestsSettled'
  BY <1>1 DEF OrderInv, NothingSkipped, BatchesInOrder, RequestsSettled, Assign, workerVars
<1>3. ReadInOrder'
  <2> SUFFICES ASSUME NEW q \in Partitions, NEW v \in Workers, owner'[q] = v,
                      NEW o \in 0 .. position'[q] - 1
               PROVE  o \in settled'[q] \/ Pending(v, q, o)'
    BY <1>0, AssignType, OwnedInOrder DEF BaseInv, TypeOK, GroupTypeOK, MemberTypeOK
  <2>1. CASE q = p
    BY <1>0, <2>1 DEF Assign, MemberTypeOK, OrderInv, NothingSkipped
  <2>2. CASE q # p
    <3>1. owner[q] = v /\ position'[q] = position[q]
      BY <1>0, <2>2 DEF Assign, MemberTypeOK
    <3>2. o \in settled[q] \/ Pending(v, q, o)
      BY <3>1, GroupAssumption DEF OrderInv, ReadInOrder
    <3>3. QED
      BY <1>1, <3>2 DEF Pending, workerVars
  <2>3. QED
    BY <2>1, <2>2
<1>4. QED
  BY <1>2, <1>3 DEF OrderInv

(* ... and the loss of partitions, requests and, in a crash, of batches.   *)
LEMMA LoseOrder ==
  ASSUME BaseInv, OrderInv, NEW w \in Workers,
         \/ Leave(w) /\ UNCHANGED workerVars
         \/ Leave(w) /\ EmptyHanded(w)
         \/ (\E p \in Partitions : Revoke(w, p)) /\ UNCHANGED workerVars,
         UNCHANGED settled
  PROVE  OrderInv'
<1>0. MemberTypeOK /\ WorkerTypeOK
  BY DEF BaseInv, TypeOK, GroupTypeOK
<1>1. UNCHANGED <<position, committed>>
  BY DEF Leave, Revoke
<1>2. \A v \in Workers :
        \/ Waiting(v)' = Waiting(v) /\ batch'[v] = batch[v]
        \/ v = w /\ Waiting(v)' = {} /\ Leave(w)
  <2>1. CASE UNCHANGED workerVars
    BY <2>1 DEF Waiting, From, workerVars
  <2>2. CASE EmptyHanded(w) /\ Leave(w)
    <3>1. /\ batch'[w] = <<>>
          /\ \A v \in Workers \ {w} :
               pc'[v] = pc[v] /\ next'[v] = next[v] /\ batch'[v] = batch[v]
      BY <1>0, <2>2 DEF EmptyHanded, GoTo, WorkerTypeOK
    <3>2. Waiting(w)' = {}
      BY <3>1 DEF Waiting
    <3>3. QED
      BY <2>2, <3>1, <3>2 DEF Waiting, From
  <2>3. QED
    BY <2>1, <2>2
<1>3. \A p \in Partitions :
        owner'[p] # NoWorker =>
          owner'[p] = owner[p] /\ owner[p] \in Workers /\ (Leave(w) => owner[p] # w)
  BY <1>0 DEF Leave, Revoke, MemberTypeOK
<1>4. NothingSkipped'
  BY <1>1 DEF OrderInv, NothingSkipped
<1>5. BatchesInOrder'
  BY <1>2 DEF OrderInv, BatchesInOrder
<1>6. ReadInOrder'
  <2> SUFFICES ASSUME NEW p \in Partitions, NEW v \in Workers, owner'[p] = v,
                      NEW o \in 0 .. position[p] - 1
               PROVE  o \in settled'[p] \/ Pending(v, p, o)'
    BY <1>1, <1>3, OwnedInOrder DEF MemberTypeOK
  <2>1. /\ owner[p] = v
        /\ Waiting(v)' = Waiting(v) /\ batch'[v] = batch[v]
    BY <1>2, <1>3, GroupAssumption
  <2>2. o \in settled[p] \/ Pending(v, p, o)
    BY <2>1, GroupAssumption DEF OrderInv, ReadInOrder
  <2>3. QED
    BY <2>1, <2>2 DEF Pending
<1>7. \A v \in Workers, p \in Partitions :
        request'[v][p] = request[v][p] \/ request'[v][p] = 0
  BY <1>0 DEF Leave, Revoke, NoRequests, MemberTypeOK
<1>8. RequestsSettled'
  BY <1>7, EndType DEF OrderInv, RequestsSettled
<1>9. QED
  BY <1>4, <1>5, <1>6, <1>8 DEF OrderInv

(* Whatever pods die, are expelled or lose partitions, and in whatever     *)
(* order workers commit: below the group's offset, below what a live owner *)
(* has read and below every message of a batch all is settled or waits     *)
(* before it (worker.py:225).                                              *)
THEOREM WorkerOrderCorrect == Spec => []OrderInv
<1>1. Init => OrderInv
  <2> SUFFICES ASSUME Init PROVE OrderInv
    OBVIOUS
  <2> USE DEF Init, GroupInit, NoRequests
  <2>1. NothingSkipped /\ ReadInOrder
    BY DEF NothingSkipped, ReadInOrder
  <2>2. BatchesInOrder
    BY DEF BatchesInOrder, Waiting
  <2>3. RequestsSettled
    BY EndType DEF RequestsSettled
  <2>4. QED
    BY <2>1, <2>2, <2>3 DEF OrderInv
<1>2. BaseInv /\ OrderInv /\ [Next]_vars => OrderInv'
  <2> SUFFICES ASSUME BaseInv, OrderInv, [Next]_vars PROVE OrderInv'
    OBVIOUS
  <2>1. ASSUME NEW w \in Workers, NEW p \in Partitions, Collect(w, p) PROVE OrderInv'
    BY <2>1, CollectOrder
  <2>2. ASSUME NEW w \in Workers, ProcessBatch(w) PROVE OrderInv'
    BY <2>2, ProcessBatchShape, KeepsOrder, FinishOrder DEF Keeps
  <2>3. ASSUME UNCHANGED <<memberVars, pc, next, batch, settled>> PROVE OrderInv'
    BY <2>3, KeepsOrder DEF From
  <2>4. ASSUME NEW w \in Workers, DeliverEvent(w) \/ DeliveryFails(w) PROVE OrderInv'
    BY <2>3, <2>4 DEF DeliverEvent, DeliveryFails, groupVars, workerVars
  <2>5. ASSUME NEW w \in Workers, Coordinate(w) PROVE OrderInv'
    <3>1. UNCHANGED <<workerVars, settled>>
      BY <2>5 DEF Coordinate
    <3>2. CASE Rejoin(w)
      <4>1. \A v \in Workers : Waiting(v)' = Waiting(v)
        BY <3>1 DEF Waiting, From, workerVars
      <4>2. \A p \in Partitions : owner[p] # NoWorker => owner[p] \in Workers
        BY DEF BaseInv, TypeOK, GroupTypeOK, MemberTypeOK
      <4>3. QED
        BY <3>1, <3>2, <4>1, <4>2
        DEF Rejoin, OrderInv, NothingSkipped, ReadInOrder, BatchesInOrder, RequestsSettled,
            Pending, workerVars
    <3>3. QED
      BY <2>5, <3>1, <3>2, CommitLandsOrder, AssignOrder DEF Coordinate
  <2>6. ASSUME NEW w \in Workers, Disturb(w) PROVE OrderInv'
    BY <2>6, LoseOrder DEF Disturb, Expel
  <2>7. ASSUME NEW w \in Workers, Crash(w) PROVE OrderInv'
    BY <2>7, LoseOrder DEF Crash
  <2>8. CASE UNCHANGED vars
    BY <2>3, <2>8 DEF vars, groupVars, workerVars
  <2>9. QED
    BY <2>1, <2>2, <2>4, <2>5, <2>6, <2>7, <2>8 DEF Next
<1>3. QED
  BY <1>1, <1>2, WorkerBaseCorrect, PTL DEF Spec

(* The committed offset never passes a chunk no worker is finished with,   *)
(* although batches are committed message by message after their           *)
(* partitions are gone (worker.py:225).                                    *)
THEOREM WorkerSkipsNothing == Spec => []NothingSkipped
<1>1. OrderInv => NothingSkipped
  BY DEF OrderInv
<1>2. QED
  BY <1>1, WorkerOrderCorrect, PTL

----------------------------------------------------------------------------
(* What is reported is stored, and what is committed is delivered.         *)

(* What is out stays out.                                                  *)
Grows ==
  /\ \A m : Real(m) /\ Stored(m) => Stored(m)'
  /\ events \subseteq events' /\ dlq \subseteq dlq' /\ lost \subseteq lost'

(* A worker with the same batch at the same place.                         *)
SameBatch(v) ==
  /\ pc'[v] = pc[v] /\ next'[v] = next[v] /\ batch'[v] = batch[v]
  /\ upserted'[v] = upserted[v]

LEMMA GrowsWhenStored ==
  ASSUME UNCHANGED store, events \subseteq events', dlq \subseteq dlq', lost \subseteq lost'
  PROVE  Grows
BY DEF Grows, Stored

(* A worker that is not concerned.                                         *)
LEMMA OthersFollow ==
  ASSUME BaseInv, NEW v \in Workers, Follows(v), Grows, SameBatch(v), outbox'[v] = outbox[v]
  PROVE  Follows(v)'
<1>1. \A i \in DOMAIN batch[v] : Real(batch[v][i])
  BY DEF BaseInv, BatchesReal
<1>2. \A i \in DOMAIN batch'[v] : Saved(v, i)' => Saved(v, i)
  BY DEF SameBatch, Saved
<1>3. \A i \in DOMAIN batch'[v] : Saved(v, i)' => Stored(batch[v][i])'
  BY <1>1, <1>2 DEF Follows, Grows, SameBatch, Stored
<1>4. \A m \in outbox'[v] : Real(m) /\ Stored(m)'
  BY DEF Follows, Grows
<1>5. QED
  BY <1>3, <1>4 DEF Follows, Grows, SameBatch

(* A worker without a batch.                                               *)
LEMMA EmptyFollows ==
  ASSUME BaseInv, NEW v \in Workers, Follows(v), Grows, batch'[v] = <<>>,
         outbox'[v] \subseteq outbox[v]
  PROVE  Follows(v)'
BY DEF Follows, Grows

(* What has been reported and what has been delivered stay so.             *)
LEMMA ReportsGrow ==
  ASSUME DeliveryInv, Grows, UNCHANGED indexed, NEW M, \A m \in M : Real(m) /\ Stored(m)',
         events' \subseteq events \cup M
  PROVE  Reported'
<1>1. \A m, f : OfFile(m, f) /\ Stored(m) => Stored(m)'
  BY DEF OfFile, Grows
<1>2. \A m \in events' : Real(m) /\ Stored(m)'
  BY DEF DeliveryInv, Reported, Grows
<1>3. QED
  BY <1>1, <1>2 DEF DeliveryInv, Reported

LEMMA DeliveredGrows ==
  ASSUME DeliveryInv, Grows, NEW m, Delivered(m) \/ m \in lost
  PROVE  Delivered(m)' \/ m \in lost'
<1>1. CASE Stored(m) /\ m \in events
  BY <1>1 DEF DeliveryInv, Reported, Grows, Delivered
<1>2. CASE DeadLettered(m)
  BY <1>2 DEF Grows, Delivered, DeadLettered
<1>3. QED
  BY <1>1, <1>2 DEF Delivered, Grows

(* The offsets that are settled are delivered, one more included.          *)
LEMMA SettledGrow ==
  ASSUME BaseInv, DeliveryInv, Grows, NEW q \in Partitions, NEW n \in Nat,
         \/ UNCHANGED settled
         \/ /\ settled' = [settled EXCEPT ![q] = @ \cup {n}]
            /\ \/ Delivered([part |-> q, off |-> n])'
               \/ [part |-> q, off |-> n] \in lost'
  PROVE  SettledDelivered'
<1> SUFFICES ASSUME NEW p \in Partitions, NEW o \in settled'[p]
             PROVE  Delivered([part |-> p, off |-> o])' \/ [part |-> p, off |-> o] \in lost'
  BY DEF SettledDelivered
<1>1. CASE o \in settled[p]
  BY <1>1, DeliveredGrows DEF DeliveryInv, SettledDelivered
<1>2. CASE o \notin settled[p]
  <2>1. p = q /\ o = n /\ ~ UNCHANGED settled
    BY <1>2 DEF BaseInv, TypeOK, WorkerTypeOK
  <2>2. QED
    BY <2>1
<1>3. QED
  BY <1>1, <1>2

(* A step of one worker that settles nothing and reports what is stored.   *)
LEMMA WorkerDelivery ==
  ASSUME BaseInv, DeliveryInv, NEW w \in Workers, Grows, Follows(w)',
         \A v \in Workers \ {w} : SameBatch(v) /\ outbox'[v] = outbox[v],
         SettledDelivered', Reported'
  PROVE  DeliveryInv'
<1>1. \A v \in Workers \ {w} : Follows(v)'
  BY OthersFollow DEF DeliveryInv
<1>2. QED
  BY <1>1 DEF DeliveryInv

(* The collection of a message, ...                                        *)
LEMMA CollectDelivery ==
  ASSUME BaseInv, DeliveryInv, NEW w \in Workers, NEW p \in Partitions, Collect(w, p)
  PROVE  DeliveryInv'
<1>1. WorkerTypeOK /\ GroupTypeOK /\ position[p] \in Nat
  BY DEF BaseInv, TypeOK, GroupTypeOK, MemberTypeOK
<1> DEFINE m == [part |-> p, off |-> position[p]]
<1>2. /\ pc[w] = "collect" /\ UNCHANGED <<pc, next, upserted, reason, outputVars>>
      /\ \/ batch' = [batch EXCEPT ![w] = Append(@, m)] /\ UNCHANGED settled
         \/ /\ ~ Chunk(m).decodable
            /\ settled' = [settled EXCEPT ![p] = @ \cup {position[p]}]
            /\ UNCHANGED batch
  BY DEF Collect
<1>3. Grows
  BY <1>2, GrowsWhenStored DEF outputVars
<1>4. upserted'[w] = {} /\ pc'[w] = "collect"
  BY <1>2 DEF BaseInv, BatchesReal
<1>5. Follows(w)'
  BY <1>2, <1>3, <1>4 DEF Follows, Saved, DeliveryInv, outputVars, Stored
<1>6. \A v \in Workers \ {w} : SameBatch(v) /\ outbox'[v] = outbox[v]
  BY <1>1, <1>2 DEF SameBatch, outputVars, WorkerTypeOK
<1>7. SettledDelivered'
  BY <1>1, <1>2, <1>3, SettledGrow DEF Delivered
<1>8. Reported'
  BY <1>2 DEF outputVars, DeliveryInv, Reported, Stored
<1>9. QED
  BY <1>3, <1>5, <1>6, <1>7, <1>8, WorkerDelivery

(* ... the steps before anything is stored, ...                            *)
LEMMA EmbedDelivery ==
  ASSUME BaseInv, DeliveryInv, NEW w \in Workers,
         BatchReady(w) \/ Embed(w) \/ EmbedFails(w)
  PROVE  DeliveryInv'
<1>1. WorkerTypeOK
  BY DEF BaseInv, TypeOK
<1>2. /\ pc[w] \in {"collect", "embed"} /\ UNCHANGED <<batch, upserted, outputVars, settled>>
      /\ \E s \in {"embed", "upsert", "deadLetter"} : GoTo(w, s)
  BY DEF BatchReady, Embed, EmbedFails, RouteToDlq
<1>3. PICK s \in {"embed", "upsert", "deadLetter"} : GoTo(w, s)
  BY <1>2
<1>4. /\ pc'[w] = s /\ \A v \in Workers \ {w} : pc'[v] = pc[v] /\ next'[v] = next[v]
  BY <1>1, <1>3 DEF GoTo, WorkerTypeOK
<1>5. Grows
  BY <1>2, GrowsWhenStored DEF outputVars
<1>6. upserted'[w] = {}
  BY <1>2 DEF BaseInv, BatchesReal
<1>7. Follows(w)'
  BY <1>2, <1>3, <1>4, <1>6 DEF Follows, Saved, DeliveryInv, outputVars, Stored
<1>8. SettledDelivered' /\ Reported'
  BY <1>2, <1>5, DeliveredGrows
  DEF outputVars, DeliveryInv, SettledDelivered, Reported, Stored
<1>9. QED
  BY <1>2, <1>4, <1>5, <1>7, <1>8, WorkerDelivery DEF SameBatch, outputVars

(* ... the upsert of a tenant's rows, ...                                  *)
LEMMA UpsertDelivery ==
  ASSUME BaseInv, DeliveryInv, NEW w \in Workers, UpsertTenant(w) \/ UpsertFails(w)
  PROVE  DeliveryInv'
<1> DEFINE t == NextTenant(w)
<1>1. WorkerTypeOK
  BY DEF BaseInv, TypeOK
<1>2. /\ pc[w] = "upsert" /\ UNCHANGED <<batch, outbox, events, dlq, connection, indexed, lost, settled>>
      /\ \/ store' = [store EXCEPT ![t] = @ \cup RowsOf(w, t)]
         \/ UNCHANGED store
  BY DEF UpsertTenant, UpsertFails, RouteToDlq
<1>3. \A m : Real(m) /\ Stored(m) => Stored(m)'
  BY <1>2, RowsStored DEF Stored
<1>4. Grows
  BY <1>2, <1>3 DEF Grows
<1>5. \A i \in DOMAIN batch[w] : Real(batch[w][i])
  BY DEF BaseInv, BatchesReal
<1>6. /\ \A v \in Workers \ {w} : SameBatch(v) /\ outbox'[v] = outbox[v]
      /\ pc'[w] = "upsert" \/ (pc'[w] = "publish" /\ next'[w] = 1) \/ pc'[w] = "deadLetter"
  BY <1>1, <1>2 DEF UpsertTenant, UpsertFails, RouteToDlq, GoTo, SameBatch, WorkerTypeOK
<1>7. \A i \in DOMAIN batch[w] :
        Saved(w, i)' => \/ Saved(w, i)
                        \/ UpsertTenant(w) /\ Chunk(batch[w][i]).tenant = t
  <2>1. CASE UpsertFails(w)
    BY <1>2, <1>6, <2>1 DEF UpsertFails, RouteToDlq, GoTo, Saved, WorkerTypeOK, BaseInv, TypeOK
  <2>2. CASE UpsertTenant(w)
    <3>1. upserted'[w] = upserted[w] \cup {t}
      BY <1>1, <2>2 DEF UpsertTenant, WorkerTypeOK
    <3>2. pc'[w] = "publish" => \A i \in Unsaved(w) : Chunk(batch[w][i]).tenant = t
      BY <1>2, <2>2 DEF UpsertTenant
    <3>3. QED
      BY <1>2, <1>6, <2>2, <3>1, <3>2 DEF Saved, Unsaved
  <2>3. QED
    BY <2>1, <2>2
<1>8. \A i \in DOMAIN batch[w] : Saved(w, i)' => batch[w][i] \in store'[Chunk(batch[w][i]).tenant]
  <2> SUFFICES ASSUME NEW i \in DOMAIN batch[w], Saved(w, i)'
               PROVE  batch[w][i] \in store'[Chunk(batch[w][i]).tenant]
    OBVIOUS
  <2>1. CASE Saved(w, i)
    BY <1>3, <1>5, <2>1 DEF DeliveryInv, Follows, Stored
  <2>2. CASE UpsertTenant(w) /\ Chunk(batch[w][i]).tenant = t
    BY <1>2, <2>2, RowsStored DEF UpsertTenant
  <2>3. QED
    BY <1>7, <2>1, <2>2
<1>9. Follows(w)'
  <2>1. \A m \in outbox'[w] : Real(m) /\ Stored(m)'
    BY <1>2, <1>3 DEF DeliveryInv, Follows
  <2>2. \A i \in DOMAIN batch[w] : ~ (pc'[w] = "publish" /\ i < next'[w])
    BY <1>1, <1>6, BatchForm
  <2>3. pc'[w] # "flush" /\ pc'[w] # "commit"
    BY <1>6
  <2>4. \A i \in DOMAIN batch'[w] : Saved(w, i)' => batch'[w][i] \in store'[Chunk(batch'[w][i]).tenant]
    BY <1>2, <1>8
  <2>5. QED
    BY <1>2, <2>1, <2>2, <2>3, <2>4 DEF Follows, Stored
<1>10. SettledDelivered'
  BY <1>2, <1>4, DeliveredGrows DEF DeliveryInv, SettledDelivered
<1>11. \A m, f : OfFile(m, f) /\ Stored(m) => Stored(m)'
  BY <1>3 DEF OfFile
<1>12. Reported'
  BY <1>2, <1>3, <1>11 DEF DeliveryInv, Reported
<1>13. QED
  BY <1>4, <1>6, <1>9, <1>10, <1>12, WorkerDelivery

(* ... the publication of an event, ...                                    *)
LEMMA PublishDelivery ==
  ASSUME BaseInv, DeliveryInv, NEW w \in Workers, Publish(w)
  PROVE  DeliveryInv'
<1> DEFINE m == AtHand(w)
<1>1. WorkerTypeOK /\ BatchBounded /\ outbox \in [Workers -> SUBSET Position]
  BY DEF BaseInv, TypeOK, OutputTypeOK
<1>2. /\ pc[w] = "publish" /\ outbox' = [outbox EXCEPT ![w] = @ \cup {m}]
      /\ Step(w, "flush") /\ UNCHANGED <<batch, upserted, store, events, dlq, lost, settled>>
      /\ indexed' \subseteq indexed \cup {Chunk(m).file}
  BY DEF Publish, UpdateStatus
<1>3. next[w] \in DOMAIN batch[w] /\ m = batch[w][next[w]] /\ DOMAIN batch[w] = 1 .. Len(batch[w])
      /\ next[w] \in Nat /\ Len(batch[w]) \in Nat
  BY <1>1, <1>2, AtHandType, BatchForm DEF AtHand
<1>4. Real(m) /\ Stored(m) /\ Saved(w, next[w])
  BY <1>2, <1>3 DEF BaseInv, BatchesReal, DeliveryInv, Follows, Saved
<1>5. Grows
  BY <1>2, GrowsWhenStored
<1>6. /\ \A v \in Workers \ {w} : pc'[v] = pc[v] /\ next'[v] = next[v]
      /\ \/ IsLast(w) /\ pc'[w] = "flush" /\ next'[w] = 1
         \/ ~ IsLast(w) /\ pc'[w] = "publish" /\ next'[w] = next[w] + 1
  BY <1>1, <1>2, StepType DEF Stages
<1>7. outbox'[w] = outbox[w] \cup {m} /\ \A v \in Workers \ {w} : outbox'[v] = outbox[v]
  BY <1>1, <1>2
<1>8. Follows(w)'
  <2>1. \A i \in DOMAIN batch[w] : Stored(batch[w][i])
    BY <1>2 DEF DeliveryInv, Follows, Saved
  <2>2. \A k \in outbox'[w] : Real(k) /\ Stored(k)
    BY <1>4, <1>7 DEF DeliveryInv, Follows
  <2>3. \A i \in DOMAIN batch[w] :
          ((pc'[w] = "publish" /\ i < next'[w]) \/ pc'[w] = "flush") => i < next[w] \/ i = next[w]
    BY <1>3, <1>6 DEF IsLast
  <2>4. \A i \in DOMAIN batch[w] :
          (pc'[w] = "publish" /\ i < next'[w]) \/ pc'[w] = "flush" =>
            batch[w][i] \in outbox'[w] \cup events \cup lost
    BY <1>2, <1>3, <1>7, <2>3 DEF DeliveryInv, Follows
  <2>5. pc'[w] # "commit"
    BY <1>6
  <2>6. QED
    BY <1>2, <2>1, <2>2, <2>4, <2>5 DEF Follows, Stored
<1>9. SettledDelivered'
  BY <1>2, <1>5, DeliveredGrows DEF DeliveryInv, SettledDelivered
<1>10. Reported'
  <2>1. UNCHANGED store
    BY <1>2
  <2>2. OfFile(m, Chunk(m).file) /\ Stored(m)
    BY <1>4 DEF OfFile
  <2>3. \A f \in indexed' : \E k : OfFile(k, f) /\ Stored(k)
    BY <1>2, <2>2 DEF DeliveryInv, Reported
  <2>4. QED
    BY <1>2, <2>1, <2>3 DEF DeliveryInv, Reported, Stored
<1>11. QED
  BY <1>2, <1>5, <1>6, <1>7, <1>8, <1>9, <1>10, WorkerDelivery DEF SameBatch

(* ... the flush, ...                                                      *)
LEMMA FlushDelivery ==
  ASSUME BaseInv, DeliveryInv, NEW w \in Workers, Flush(w)
  PROVE  DeliveryInv'
<1>1. WorkerTypeOK
  BY DEF BaseInv, TypeOK
<1>2. /\ pc[w] = "flush" /\ GoTo(w, "commit")
      /\ UNCHANGED <<batch, upserted, outbox, store, events, dlq, indexed, settled>>
      /\ lost \subseteq lost' /\ outbox[w] \subseteq lost'
  BY DEF Flush
<1>3. pc'[w] = "commit" /\ \A v \in Workers \ {w} : pc'[v] = pc[v] /\ next'[v] = next[v]
  BY <1>1, <1>2 DEF GoTo, WorkerTypeOK
<1>4. Grows
  BY <1>2, GrowsWhenStored
<1>5. Follows(w)'
  <2>1. \A i \in DOMAIN batch[w] : Stored(batch[w][i]) /\ batch[w][i] \in events \cup lost'
    BY <1>2 DEF DeliveryInv, Follows, Saved
  <2>2. QED
    BY <1>2, <1>3, <2>1 DEF DeliveryInv, Follows, Stored
<1>6. SettledDelivered' /\ Reported'
  BY <1>2, <1>4, DeliveredGrows DEF DeliveryInv, SettledDelivered, Reported, Stored
<1>7. QED
  BY <1>2, <1>3, <1>4, <1>5, <1>6, WorkerDelivery DEF SameBatch

(* ... a commit or a dead letter, ...                                      *)
LEMMA FinishDelivery ==
  ASSUME BaseInv, DeliveryInv, NEW w \in Workers, CommitMessage(w) \/ SendToDlq(w)
  PROVE  DeliveryInv'
<1>1. WorkerTypeOK /\ BatchBounded
  BY DEF BaseInv, TypeOK
<1>2. PICK m : m = AtHand(w)
  OBVIOUS
<1>3. /\ pc[w] \in {"commit", "deadLetter"}
      /\ settled' = [settled EXCEPT ![m.part] = @ \cup {m.off}]
      /\ IF IsLast(w) THEN EmptyHanded(w)
         ELSE Step(w, pc[w]) /\ UNCHANGED <<batch, upserted, reason>>
      /\ UNCHANGED <<outbox, store, events, indexed>>
      /\ dlq \subseteq dlq' /\ lost \subseteq lost'
  BY <1>2 DEF CommitMessage, SendToDlq, outputVars
<1>4. /\ next[w] \in DOMAIN batch[w] /\ m = batch[w][next[w]]
      /\ m.part \in Partitions /\ m.off \in Nat /\ m = [part |-> m.part, off |-> m.off]
  BY <1>1, <1>2, <1>3, AtHandType DEF AtHand, Position
<1>5. Grows
  BY <1>3, GrowsWhenStored
<1>6. Delivered(m)' \/ m \in lost'
  <2>1. CASE CommitMessage(w)
    <3>1. Stored(m) /\ m \in events \cup lost
      BY <1>4, <2>1 DEF CommitMessage, DeliveryInv, Follows, Saved
    <3>2. QED
      BY <1>5, <3>1, DeliveredGrows DEF Delivered
  <2>2. CASE SendToDlq(w)
    <3>1. reason[w] \in Reasons
      BY <1>1 DEF WorkerTypeOK
    <3>2. [msg |-> m, reason |-> reason[w]] \in dlq' \/ m \in lost'
      BY <1>2, <2>2 DEF SendToDlq
    <3>3. QED
      BY <3>1, <3>2 DEF Delivered, DeadLettered
  <2>3. QED
    BY <2>1, <2>2
<1>7. SettledDelivered'
  BY <1>3, <1>4, <1>5, <1>6, SettledGrow
<1>8. Reported'
  BY <1>3 DEF DeliveryInv, Reported, Stored
<1>9. CASE IsLast(w)
  <2>1. /\ batch'[w] = <<>>
        /\ \A v \in Workers \ {w} : SameBatch(v) /\ outbox'[v] = outbox[v]
    BY <1>1, <1>3, <1>9 DEF EmptyHanded, GoTo, SameBatch, WorkerTypeOK
  <2>2. Follows(w)'
    BY <1>3, <1>5, <2>1, EmptyFollows DEF DeliveryInv
  <2>3. QED
    BY <1>5, <1>7, <1>8, <2>1, <2>2, WorkerDelivery
<1>10. CASE ~ IsLast(w)
  <2>1. UNCHANGED <<pc, batch, upserted>> /\ \A v \in Workers \ {w} : next'[v] = next[v]
    BY <1>1, <1>3, <1>10 DEF Step, WorkerTypeOK
  <2>2. Follows(w)'
    <3>1. pc'[w] # "publish"
      BY <1>3, <2>1
    <3>2. lost \subseteq lost' /\ UNCHANGED <<outbox, store, events>>
      BY <1>3
    <3>3. QED
      BY <2>1, <3>1, <3>2 DEF DeliveryInv, Follows, Saved, Stored
  <2>3. QED
    BY <1>3, <1>5, <1>7, <1>8, <2>1, <2>2, WorkerDelivery DEF SameBatch
<1>11. QED
  BY <1>9, <1>10

(* ... an event that leaves the queue, delivered or not, ...               *)
LEMMA EventDelivery ==
  ASSUME BaseInv, DeliveryInv, NEW w \in Workers, DeliverEvent(w) \/ DeliveryFails(w)
  PROVE  DeliveryInv'
<1>1. outbox \in [Workers -> SUBSET Position]
  BY DEF BaseInv, TypeOK, OutputTypeOK
<1>2. PICK m \in outbox[w] :
        /\ outbox' = [outbox EXCEPT ![w] = @ \ {m}]
        /\ \/ events' = events \cup {m} /\ UNCHANGED lost
           \/ lost' = lost \cup {m} /\ UNCHANGED events
  BY DEF DeliverEvent, DeliveryFails
<1>3. UNCHANGED <<workerVars, store, dlq, indexed, settled>>
  BY DEF DeliverEvent, DeliveryFails
<1>4. Real(m) /\ Stored(m)
  BY <1>2 DEF DeliveryInv, Follows
<1>5. Grows
  BY <1>2, <1>3, GrowsWhenStored
<1>6. outbox'[w] = outbox[w] \ {m} /\ \A v \in Workers \ {w} : outbox'[v] = outbox[v]
  BY <1>1, <1>2
<1>7. \A v \in Workers : SameBatch(v)
  BY <1>3 DEF SameBatch, workerVars
<1>8. Follows(w)'
  <2>1. \A k \in outbox'[w] : Real(k) /\ Stored(k)
    BY <1>6 DEF DeliveryInv, Follows
  <2>2. \A i \in DOMAIN batch[w] :
          /\ batch[w][i] \in outbox[w] \cup events \cup lost =>
               batch[w][i] \in outbox'[w] \cup events' \cup lost'
          /\ batch[w][i] \in events \cup lost => batch[w][i] \in events' \cup lost'
    BY <1>2, <1>6
  <2>3. UNCHANGED <<pc, next, batch, upserted, store>>
    BY <1>3 DEF workerVars
  <2>4. QED
    BY <2>1, <2>2, <2>3 DEF DeliveryInv, Follows, Saved, Stored
<1>9. SettledDelivered'
  BY <1>3, <1>5, DeliveredGrows DEF DeliveryInv, SettledDelivered
<1>10. Reported'
  BY <1>2, <1>3, <1>4 DEF DeliveryInv, Reported, Stored
<1>11. QED
  BY <1>5, <1>6, <1>7, <1>8, <1>9, <1>10, WorkerDelivery

(* ... a crash, ...                                                        *)
LEMMA CrashDelivery ==
  ASSUME BaseInv, DeliveryInv, NEW w \in Workers, Crash(w)
  PROVE  DeliveryInv'
<1>1. WorkerTypeOK /\ outbox \in [Workers -> SUBSET Position]
  BY DEF BaseInv, TypeOK, OutputTypeOK
<1>2. /\ EmptyHanded(w) /\ outbox' = [outbox EXCEPT ![w] = {}]
      /\ UNCHANGED <<store, events, dlq, indexed, lost, settled>>
  BY DEF Crash
<1>3. Grows
  BY <1>2, GrowsWhenStored
<1>4. /\ batch'[w] = <<>> /\ outbox'[w] = {}
      /\ \A v \in Workers \ {w} : SameBatch(v) /\ outbox'[v] = outbox[v]
  BY <1>1, <1>2 DEF EmptyHanded, GoTo, SameBatch, WorkerTypeOK
<1>5. Follows(w)'
  BY <1>3, <1>4, EmptyFollows DEF DeliveryInv
<1>6. SettledDelivered' /\ Reported'
  BY <1>2, <1>3, DeliveredGrows DEF DeliveryInv, SettledDelivered, Reported, Stored
<1>7. QED
  BY <1>3, <1>4, <1>5, <1>6, WorkerDelivery

(* ... and a step of the coordinator.                                      *)
LEMMA UnchangedDelivery ==
  ASSUME DeliveryInv, UNCHANGED <<workerVars, outputVars, settled>>
  PROVE  DeliveryInv'
BY DEF DeliveryInv, Follows, Saved, Reported, SettledDelivered, Delivered, DeadLettered, Stored,
       workerVars, outputVars

(* A worker's rows are stored before its events are sent, its events are   *)
(* out before it commits, and what it has settled is delivered, or was     *)
(* lost unnoticed in a flush or in the producer's queue.                   *)
THEOREM WorkerDeliveryCorrect == Spec => []DeliveryInv
<1>1. Init => DeliveryInv
  <2> SUFFICES ASSUME Init PROVE DeliveryInv
    OBVIOUS
  <2> USE DEF Init
  <2>1. \A w \in Workers : DOMAIN batch[w] = {} /\ outbox[w] = {}
    <3>1. DOMAIN <<>> = {}
      OBVIOUS
    <3>2. QED
      BY <3>1
  <2>2. \A w \in Workers : Follows(w)
    BY <2>1 DEF Follows
  <2>3. Reported /\ SettledDelivered
    BY DEF Reported, SettledDelivered
  <2>4. QED
    BY <2>2, <2>3 DEF DeliveryInv
<1>2. BaseInv /\ DeliveryInv /\ [Next]_vars => DeliveryInv'
  <2> SUFFICES ASSUME BaseInv, DeliveryInv, [Next]_vars PROVE DeliveryInv'
    OBVIOUS
  <2>1. ASSUME NEW w \in Workers, NEW p \in Partitions, Collect(w, p) PROVE DeliveryInv'
    BY <2>1, CollectDelivery
  <2>2. ASSUME NEW w \in Workers, ProcessBatch(w) PROVE DeliveryInv'
    BY <2>2, EmbedDelivery, UpsertDelivery, PublishDelivery, FlushDelivery, FinishDelivery
    DEF ProcessBatch
  <2>3. ASSUME NEW w \in Workers, DeliverEvent(w) \/ DeliveryFails(w) PROVE DeliveryInv'
    BY <2>3, EventDelivery
  <2>4. ASSUME NEW w \in Workers, Coordinate(w) \/ Disturb(w) PROVE DeliveryInv'
    BY <2>4, UnchangedDelivery DEF Coordinate, Disturb
  <2>5. ASSUME NEW w \in Workers, Crash(w) PROVE DeliveryInv'
    BY <2>5, CrashDelivery
  <2>6. CASE UNCHANGED vars
    BY <2>6, UnchangedDelivery DEF vars
  <2>7. QED
    BY <2>1, <2>2, <2>3, <2>4, <2>5, <2>6 DEF Next
<1>3. QED
  BY <1>1, <1>2, WorkerBaseCorrect, PTL DEF Spec

(* The event of a chunk never runs ahead of its row, nor the status of a   *)
(* file of those of all its chunks (worker.py:176-209).                    *)
THEOREM WorkerReportsStored == Spec => []ReportedStored
<1>1. DeliveryInv => ReportedStored
  <2> SUFFICES ASSUME Reported, NEW f \in indexed
               PROVE  \E p \in Partitions : \E o \in Offsets(p) :
                        LET m == [part |-> p, off |-> o] IN Chunk(m).file = f /\ Stored(m)
    BY DEF DeliveryInv, Reported, ReportedStored
  <2>1. PICK m : OfFile(m, f) /\ Stored(m)
    BY DEF Reported
  <2>2. m.part \in Partitions /\ m.off \in Offsets(m.part) /\ m = [part |-> m.part, off |-> m.off]
    <3>1. m.part \in Partitions /\ m.off \in Nat /\ m = [part |-> m.part, off |-> m.off]
          /\ m.off < End(m.part)
      BY <2>1 DEF OfFile, Real, Position
    <3>2. End(m.part) \in Nat
      BY <3>1, GroupAssumption DEF End
    <3>3. QED
      BY <3>1, <3>2 DEF Offsets
  <2>3. QED
    BY <2>1, <2>2 DEF OfFile
<1>2. QED
  BY <1>1, WorkerDeliveryCorrect, PTL

(* What is committed has been delivered, or was lost unnoticed, for this   *)
(* very chunk (worker.py:225).                                             *)
THEOREM WorkerCommitsDelivered == Spec => []CommittedDelivered
<1>1. OrderInv /\ DeliveryInv => CommittedDelivered
  BY DEF OrderInv, NothingSkipped, DeliveryInv, SettledDelivered, CommittedDelivered
<1>2. QED
  BY <1>1, WorkerOrderCorrect, WorkerDeliveryCorrect, PTL

----------------------------------------------------------------------------
(* The worker implements the at-least-once stage.                          *)

(* Every step finishes with one message, moves one committed offset to     *)
(* where everything below is finished, or leaves both as they are.         *)
THEOREM WorkerStageRefinement == Spec => ImplementsStage
<1>1. Init => Stage!StageInit
  BY DEF Init, GroupInit, Stage!StageInit
<1>2. BaseInv /\ OrderInv /\ [Next]_vars => [Stage!StageNext]_(Stage!stageVars)
  <2> SUFFICES ASSUME BaseInv, OrderInv, [Next]_vars
               PROVE  Stage!StageNext \/ UNCHANGED <<settled, committed>>
    BY DEF Stage!stageVars
  <2>0. MemberTypeOK /\ WorkerTypeOK /\ GroupTypeOK /\ BatchBounded
    BY DEF BaseInv, TypeOK, GroupTypeOK
  <2>1. ASSUME NEW p \in Partitions, NEW n \in Nat, n < End(p),
               settled' = [settled EXCEPT ![p] = @ \cup {n}], UNCHANGED committed
        PROVE  Stage!StageNext
    <3>1. n \in 0 .. End(p) - 1
      BY <2>1, EndType
    <3>2. Stage!Finish(p, n)
      BY <2>1 DEF Stage!Finish
    <3>3. QED
      BY <3>1, <3>2 DEF Stage!StageNext
  <2>2. ASSUME NEW w \in Workers, NEW p \in Partitions, Collect(w, p)
        PROVE  Stage!StageNext \/ UNCHANGED <<settled, committed>>
    <3>1. /\ position[p] \in Nat /\ position[p] < End(p) /\ UNCHANGED committed
          /\ settled' = [settled EXCEPT ![p] = @ \cup {position[p]}] \/ UNCHANGED settled
      BY <2>0, <2>2 DEF Collect, Fetch, MemberTypeOK
    <3>2. QED
      BY <2>1, <3>1
  <2>3. ASSUME NEW w \in Workers, ProcessBatch(w)
        PROVE  Stage!StageNext \/ UNCHANGED <<settled, committed>>
    <3>1. CASE Keeps(w)
      BY <3>1 DEF Keeps, memberVars
    <3>2. CASE Finishes(w)
      <4> DEFINE q == AtHand(w).part
                 n == AtHand(w).off
      <4>1. q \in Partitions /\ n \in Nat /\ n < End(q)
        BY <2>0, <3>2, AtHandType DEF Finishes, AtHand, BaseInv, BatchesReal, Real
      <4>2. settled' = [settled EXCEPT ![q] = @ \cup {n}] /\ UNCHANGED committed
        BY <3>2 DEF Finishes, Commit, memberVars
      <4>3. QED
        BY <2>1, <4>1, <4>2
    <3>3. QED
      BY <2>3, <3>1, <3>2, ProcessBatchShape
  <2>4. ASSUME NEW w \in Workers, DeliverEvent(w) \/ DeliveryFails(w)
        PROVE  UNCHANGED <<settled, committed>>
    BY <2>4 DEF DeliverEvent, DeliveryFails, groupVars, memberVars
  <2>5. ASSUME NEW w \in Workers, Coordinate(w)
        PROVE  Stage!StageNext \/ UNCHANGED <<settled, committed>>
    <3>1. UNCHANGED settled
      BY <2>5 DEF Coordinate
    <3>2. ASSUME NEW p \in Partitions, CommitLands(w, p) PROVE Stage!StageNext
      <4> DEFINE n == request[w][p]
      <4>1. n \in Nat
        BY <2>0 DEF MemberTypeOK
      <4>2. n <= End(p) /\ \A o \in 0 .. n - 1 : o \in settled[p]
        BY DEF OrderInv, RequestsSettled
      <4>3. n \in 0 .. End(p)
        BY <4>1, <4>2, EndType
      <4>4. committed' = [committed EXCEPT ![p] = n]
        BY <3>2 DEF CommitLands
      <4>5. Stage!MoveResume(p, n)
        BY <3>1, <4>2, <4>4 DEF Stage!MoveResume
      <4>6. QED
        BY <4>3, <4>5 DEF Stage!StageNext
    <3>3. QED
      BY <2>5, <3>1, <3>2 DEF Coordinate, Rejoin, Assign
  <2>6. ASSUME NEW w \in Workers, Disturb(w) \/ Crash(w)
        PROVE  UNCHANGED <<settled, committed>>
    BY <2>6 DEF Disturb, Crash, Revoke, Expel, Leave
  <2>7. CASE UNCHANGED vars
    BY <2>7 DEF vars, groupVars, memberVars
  <2>8. QED
    BY <2>2, <2>3, <2>4, <2>5, <2>6, <2>7 DEF Next
<1>3. QED
  BY <1>1, <1>2, WorkerBaseCorrect, WorkerOrderCorrect, PTL
  DEF Spec, ImplementsStage, Stage!StageSpec

=============================================================================
