---------------------------- MODULE MCDocProcessor ----------------------------
(* Small instances of DocProcessor for TLC.                                *)
EXTENDS DocProcessor, TLC

CONSTANTS w1, w2, p1, p2

MCWorkers    == {w1, w2}
MCOneWorker  == {w1}
MCPartitions == {p1, p2}
MCMessages   == [kind : ContentKinds, chunks : 0 .. 2]

Text(n)   == [kind |-> "text", chunks |-> n]
Corrupt   == [kind |-> "corrupt", chunks |-> 0]
Malformed == [kind |-> "malformed", chunks |-> 0]

(* One partition with a document of two chunks in front of others, one     *)
(* with a single event.                                                    *)
MCLog   == p1 :> <<Text(2), Text(1)>> @@ p2 :> <<Corrupt>>

(* Every kind of event.                                                    *)
MCMixedLog == p1 :> <<Malformed, Text(1), Text(0)>> @@ p2 :> <<Corrupt>>

(* A document of two chunks and one that cannot be parsed, and a text that *)
(* cannot be chunked, behind which no worker ever gets.                    *)
Unencodable == [kind |-> "unencodable", chunks |-> 0]
MCPoisonLog == p1 :> <<Text(2), Corrupt>> @@ p2 :> <<Unencodable>>

WorkerSymmetry == Permutations(MCWorkers)

=============================================================================
