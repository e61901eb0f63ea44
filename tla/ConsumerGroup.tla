---------------------------- MODULE ConsumerGroup ----------------------------
(***************************************************************************)
(* The Kafka consumer group as the workers of src/services use it: a       *)
(* topic whose partitions are immutable logs, one owner per partition, an  *)
(* in-memory read position per owner, and one committed offset per         *)
(* partition.  The doc-processor and the embedding-worker are the two      *)
(* services whose workers run on it, with enable.auto.commit False and     *)
(* consumer.commit(message=msg), which confluent-kafka sends               *)
(* asynchronously.                                                         *)
(*                                                                         *)
(* Kafka and confluent-kafka are not part of the repository: what is       *)
(* modelled here is how the code in src/ uses them.                        *)
(***************************************************************************)
EXTENDS Naturals, Sequences, Faults

CONSTANTS
  Workers,      (* the pods of one service                                 *)
  NoWorker,     (* the owner of a partition nobody is assigned             *)
  Partitions,   (* the partitions of the input topic                       *)
  Messages,     (* the messages that may be in it                          *)
  Log           (* the content of every partition                          *)

ASSUME GroupAssumption ==
  /\ NoWorker \notin Workers
  /\ Partitions # {}
  /\ Log \in [Partitions -> Seq(Messages)]

VARIABLES
  owner,        (* the worker each partition is assigned to                *)
  joined,       (* is the worker a member of the current generation?       *)
  position,     (* the next offset the owner of a partition will read      *)
  request,      (* commits sent and not yet at the coordinator, 0 for none *)
  committed     (* the group's committed offset of a partition             *)

memberVars == <<owner, joined, position, request, committed>>
groupVars  == <<memberVars, faults>>

(* Offsets are Kafka's, from 0; the committed offset is that of the next   *)
(* message to read, so c means that the messages 0 .. c-1 are passed.      *)
End(p)        == Len(Log[p])
Offsets(p)    == 0 .. End(p) - 1
Message(p, o) == Log[p][o + 1]

NoRequests == [p \in Partitions |-> 0]

MemberTypeOK ==
  /\ owner     \in [Partitions -> Workers \cup {NoWorker}]
  /\ joined    \in [Workers -> BOOLEAN]
  /\ position  \in [Partitions -> Nat]
  /\ request   \in [Workers -> [Partitions -> Nat]]
  /\ committed \in [Partitions -> Nat]

GroupTypeOK == MemberTypeOK /\ faults \in 0 .. MaxFaults

GroupInit ==
  /\ owner     = [p \in Partitions |-> NoWorker]
  /\ joined    = [w \in Workers |-> TRUE]
  /\ position  = [p \in Partitions |-> 0]
  /\ request   = [w \in Workers |-> NoRequests]
  /\ committed = [p \in Partitions |-> 0]
  /\ faults    = 0

----------------------------------------------------------------------------
(* What a worker does with its consumer.                                   *)

(* consumer.poll() returns the message at the position of partition p.     *)
Fetch(w, p) ==
  /\ owner[p] = w
  /\ position[p] < End(p)
  /\ position' = [position EXCEPT ![p] = @ + 1]
  /\ UNCHANGED <<owner, joined, request, committed, faults>>

(* consumer.commit(message=msg): the request leaves with the generation    *)
(* the worker last joined; nobody waits for the answer, and the one a      *)
(* worker sends after the group has expelled it is refused.                *)
Commit(w, p, o) ==
  /\ request' = IF joined[w] THEN [request EXCEPT ![w][p] = o + 1] ELSE request
  /\ UNCHANGED <<owner, joined, position, committed>>

----------------------------------------------------------------------------
(* What the coordinator does.                                              *)

(* A commit arrives.  The coordinator checks the member and its            *)
(* generation, neither that it owns the partition nor that the offset      *)
(* moves forward.                                                          *)
CommitLands(w, p) ==
  /\ request[w][p] # 0
  /\ committed' = [committed EXCEPT ![p] = request[w][p]]
  /\ request'   = [request EXCEPT ![w][p] = 0]
  /\ UNCHANGED <<owner, joined, position, faults>>

(* A member that polls is given a partition nobody owns and reads on from  *)
(* the committed offset.                                                   *)
Assign(w, p) ==
  /\ joined[w]
  /\ owner[p] = NoWorker
  /\ owner'    = [owner EXCEPT ![p] = w]
  /\ position' = [position EXCEPT ![p] = committed[p]]
  /\ UNCHANGED <<joined, request, committed, faults>>

(* A worker that was expelled polls, and joins the current generation.     *)
Rejoin(w) ==
  /\ ~joined[w]
  /\ joined' = [joined EXCEPT ![w] = TRUE]
  /\ UNCHANGED <<owner, position, request, committed, faults>>

(* A rebalance takes partition p from a member when that polls: a commit   *)
(* it has on its way for p carries the old generation and is refused.      *)
Revoke(w, p) ==
  /\ Fault("revoke")
  /\ owner[p] = w
  /\ owner'   = [owner EXCEPT ![p] = NoWorker]
  /\ request' = [request EXCEPT ![w][p] = 0]
  /\ UNCHANGED <<joined, position, committed>>

(* The coordinator no longer has w among its members: what it owned is     *)
(* free and its commits are refused.                                       *)
Leave(w) ==
  /\ owner'   = [p \in Partitions |-> IF owner[p] = w THEN NoWorker ELSE owner[p]]
  /\ joined'  = [joined EXCEPT ![w] = FALSE]
  /\ request' = [request EXCEPT ![w] = NoRequests]
  /\ UNCHANGED <<position, committed>>

(* session.timeout.ms or max.poll.interval.ms expires while w works on:    *)
(* w does not notice before its next poll.                                 *)
Expel(w) ==
  /\ Fault("expel")
  /\ joined[w]
  /\ Leave(w)

=============================================================================
