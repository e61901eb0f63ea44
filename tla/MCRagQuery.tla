------------------------------- MODULE MCRagQuery -------------------------------
(* Small instances of RagQuery for TLC.                                    *)
EXTENDS RagQuery

CONSTANTS pod1, pod2, tenantA, tenantB, question1

MCPods      == {pod1, pod2}
MCTenants   == {tenantA, tenantB}
MCQuestions == {question1}

=============================================================================
