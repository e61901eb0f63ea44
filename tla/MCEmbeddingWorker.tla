--------------------------- MODULE MCEmbeddingWorker ---------------------------
(* Small instances of EmbeddingWorker for TLC.                             *)
EXTENDS EmbeddingWorker, TLC

CONSTANTS w1, w2, p1, p2, tenantA, tenantB, file1, file2

MCWorkers     == {w1, w2}
MCPartitions  == {p1, p2}
MCTenants     == {tenantA, tenantB}
MCFiles       == {file1, file2}
MCMessages    == ChunkEvent

FirstFile  == [decodable |-> TRUE, tenant |-> tenantA, file |-> file1]
SecondFile == [decodable |-> TRUE, tenant |-> tenantB, file |-> file2]
Garbage    == [FirstFile EXCEPT !.decodable = FALSE]

(* Garbage between chunks of two tenants, and a file in both partitions:   *)
(* batches of one tenant and of both, of one partition and of both.        *)
MCLog == p1 :> <<FirstFile, Garbage, SecondFile>> @@ p2 :> <<FirstFile>>

=============================================================================
