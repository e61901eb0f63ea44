------------------------------ MODULE ControlPlane ------------------------------
(***************************************************************************)
(* The control plane: the pipeline operator beside the BFF that calls the  *)
(* same Kubernetes API.  With the manifests as they are the two have no    *)
(* object in common: the DataConnectors the BFF writes are of an API group *)
(* the operator does not watch (UserSources).                              *)
(***************************************************************************)
EXTENDS ConnectorOperator

CONSTANTS
  Callers,         (* the BFF's calls under way at once                     *)
  Sources,         (* the ids of its sources                                *)
  Titles           (* what a source may be called                           *)

ASSUME TitlesAssumption == Titles # {}

VARIABLES config, connector, request, used, wanted, contended, orphaned

Bff == INSTANCE UserSources WITH Names <- Titles

bffVars   == <<config, connector, request, used, wanted, contended, orphaned>>
planeVars == <<vars, bffVars>>

PlaneInit == Init /\ Bff!Init

PlaneNext ==
  \/ Next /\ UNCHANGED bffVars
  \/ Bff!Next /\ UNCHANGED vars

PlaneSpec == PlaneInit /\ [][PlaneNext]_planeVars

(* Both are well typed.                                                    *)
ControlTypeOK == TypeOK /\ Bff!TypeOK

(* The properties of the BFF's calls: acknowledged edits are kept, and     *)
(* connectors without a ConfigMap explained (UserSources).                 *)
EditsKept        == Bff!EditsKept
OrphansExplained == Bff!OrphansExplained

=============================================================================
