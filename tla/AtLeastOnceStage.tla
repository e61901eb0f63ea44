--------------------------- MODULE AtLeastOnceStage ---------------------------
(***************************************************************************)
(* What a stage of the pipeline promises of its input topic, whatever      *)
(* crashes, evictions and rebalances happen: the offset that the group     *)
(* would resume from never passes a message that no worker has finished    *)
(* with.  A message may be finished with several times (it is redelivered) *)
(* and the resume offset may go back; it may not run ahead.                *)
(*                                                                         *)
(* The doc-processor and the embedding-worker are shown to implement it.   *)
(***************************************************************************)
EXTENDS Naturals

CONSTANTS
  Inputs,     (* the partitions of the input topic                         *)
  Length      (* the number of messages in each, a natural number          *)

VARIABLES
  finished,   (* the offsets some worker has finished with                 *)
  resume      (* the offset a new owner of the partition starts from       *)

stageVars == <<finished, resume>>

StageInit ==
  /\ finished = [i \in Inputs |-> {}]
  /\ resume   = [i \in Inputs |-> 0]

Finish(i, o) ==
  /\ o < Length[i]
  /\ finished' = [finished EXCEPT ![i] = @ \cup {o}]
  /\ UNCHANGED resume

MoveResume(i, n) ==
  /\ \A o \in 0 .. n - 1 : o \in finished[i]
  /\ resume' = [resume EXCEPT ![i] = n]
  /\ UNCHANGED finished

StageNext ==
  \E i \in Inputs :
    \/ \E o \in 0 .. Length[i] - 1 : Finish(i, o)
    \/ \E n \in 0 .. Length[i] : MoveResume(i, n)

StageSpec == StageInit /\ [][StageNext]_stageVars

=============================================================================
