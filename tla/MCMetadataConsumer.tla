--------------------------- MODULE MCMetadataConsumer ---------------------------
(* A small instance of MetadataConsumer for TLC: a chunk whose upstream    *)
(* nobody publishes under that key, reported with failed checks, with a    *)
(* garbled one among them, or passed; its embedding, without checks; and   *)
(* an entity of a tenant whose id is no UUID.                              *)
EXTENDS MetadataConsumer

MCUpstream ==
  [e \in Published |-> CASE e = "chunk" -> {"document"}
                         [] e = "embedding" -> {"chunk"}
                         [] OTHER -> {}]

MCCreated ==
  [entity : {"chunk"}, checks : {{"failed", "passed"}, {"failed", "garbled"}, {"passed"}}]
    \cup [entity : {"embedding", "badSource"}, checks : {{}}]

MCRoom == [p \in Partitions |-> IF p = 0 THEN 2 ELSE 1]

=============================================================================
