---------------------------- MODULE MCEmbeddingConfig ----------------------------
(* Values of EmbeddingConfig's constants for TLC.                          *)
EXTENDS EmbeddingConfig

MCSpecs ==
  {[model |-> "small", dimension |-> 384, confirmed |-> FALSE, tenant |-> TRUE],
   [model |-> "large", dimension |-> 1024, confirmed |-> FALSE, tenant |-> TRUE],
   [model |-> "large", dimension |-> 1024, confirmed |-> TRUE, tenant |-> TRUE],
   [model |-> "other", dimension |-> 384, confirmed |-> FALSE, tenant |-> FALSE]}

MCFirst == [model |-> "small", dimension |-> 384, confirmed |-> FALSE, tenant |-> TRUE]

=============================================================================
