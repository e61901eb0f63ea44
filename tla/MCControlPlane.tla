----------------------------- MODULE MCControlPlane -----------------------------
(* Small instances of ControlPlane, and of the handler of EmbeddingConfigs *)
(* with the metadata service it calls, for TLC.  As connectors,            *)
(* workspaces, the EmbeddingConfig and the BFF's sources have no object in *)
(* common, a behaviour takes the steps of one of the four, instead of all  *)
(* their interleavings.                                                    *)
EXTENDS ControlPlane, MCEmbeddingConfig

CONSTANTS call1, call2, source1, source2

VARIABLE part      (* whose steps the behaviour takes                       *)

MCNameOf  == [c \in Resources |-> "tenant"]
MCCallers == {call1, call2}
MCSources == {source1, source2}

connectorVars == <<resource, deleting, handled, handler, objects, abandoned, edits>>
versioningVars ==
  <<versionVars, embedding, handlerVars, configMapVars, changes>>

ControlInit ==
  PlaneInit /\ ConfigInit /\ part \in {"connectors", "workspaces", "embedding", "sources"}

Mine(c) == part = IF c \in Workspaces THEN "workspaces" ELSE "connectors"

Others == UNCHANGED <<part, connectorVars, bffVars>>

ControlNext ==
  \/ /\ \E c \in Resources : Mine(c) /\ Step(c)
     /\ UNCHANGED <<part, versioningVars, bffVars>>
  \/ part = "embedding" /\ ConfigNext /\ Others
  \/ part = "sources" /\ Bff!Next /\ UNCHANGED <<part, vars, versioningVars>>

controlVars == <<planeVars, versioningVars, part>>

ControlSpec ==
  /\ ControlInit
  /\ [][ControlNext]_controlVars
  /\ \A c \in Resources :
       WF_controlVars(Mine(c) /\ Handle(c) /\ UNCHANGED <<part, versioningVars, bffVars>>)
  /\ WF_controlVars(part = "embedding" /\ Reconciles /\ Others)
  /\ \A r \in Requests : WF_controlVars(part = "embedding" /\ Service(r) /\ Others)

=============================================================================
