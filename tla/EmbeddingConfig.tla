------------------------------ MODULE EmbeddingConfig -----------------------------
(***************************************************************************)
(* The handler of EmbeddingConfig resources in the pipeline operator (src/ *)
(* services/pipeline-operator): record the new schema version at the       *)
(* metadata service, patch the ConfigMap and restart the embedding worker. *)
(* SchemaVersions is the other end of the call that records the version.   *)
(*                                                                         *)
(* kopf is external: it calls the handler with the resource's spec as it   *)
(* is then when that differs from the spec handled last, one call at a     *)
(* time; a handler that raises is called again, and so is one whose        *)
(* operator stopped.  A spec that is back at the one handled last is not   *)
(* handled.                                                                *)
(***************************************************************************)
EXTENDS SchemaVersions, Faults

CONSTANTS
  Specs,           (* the specs of the resource; dimension 0: it names none *)
  First,           (* the spec the system was installed with                *)
  MaxChanges       (* bound: edits of the resource                          *)

ASSUME ConfigAssumption ==
  /\ Specs \subseteq [model : Models, dimension : Nat, confirmed : BOOLEAN, tenant : BOOLEAN]
  /\ First \in Specs
  /\ MaxChanges \in Nat

VARIABLES
  embedding,       (* the spec of the EmbeddingConfig                       *)
  applied,         (* kopf: the spec handled last                           *)
  step,            (* where the handler is                                  *)
  spec,            (* the spec it was called with                           *)
  posted,          (* the call to the metadata service it made, or none     *)
  present,         (* there is a ConfigMap pipeline-config                  *)
  settings,        (* {} or the one spec whose settings it holds            *)
  stale,           (* the worker's pods are older than these settings       *)
  changes

configMapVars == <<present, settings, stale>>
handlerVars   == <<applied, step, spec, posted>>
configVars == <<versionVars, embedding, handlerVars, configMapVars, changes, faults>>

ConfigTypeOK ==
  /\ VersionsTypeOK
  /\ {embedding, applied, spec} \subseteq Specs
  /\ step \in {"idle", "post", "wait", "patch", "restart"}
  /\ posted \subseteq Requests
  /\ present \in BOOLEAN
  /\ settings \in {{}} \cup {{s} : s \in Specs}
  /\ stale \in BOOLEAN
  /\ changes \in 0 .. MaxChanges
  /\ faults \in 0 .. MaxFaults

ConfigInit ==
  /\ VersionsInit
  /\ embedding = First
  /\ applied = First
  /\ step = "idle"
  /\ spec = First
  /\ posted = {}
  /\ present = TRUE
  /\ settings = {First}
  /\ stale = FALSE
  /\ changes = 0
  /\ faults = 0

(***************************************************************************)
(* Administrators edit the resource, while it is handled as well; delete   *)
(* the ConfigMap; and create it again, for settings of theirs.             *)
(***************************************************************************)
Edit(s) ==
  /\ changes < MaxChanges
  /\ s # embedding
  /\ embedding' = s
  /\ changes' = changes + 1
  /\ UNCHANGED <<versionVars, handlerVars, configMapVars, faults>>

DeleteMap ==
  /\ present
  /\ Fault("deleted")
  /\ present' = FALSE
  /\ settings' = {}
  /\ UNCHANGED <<versionVars, embedding, handlerVars, stale, changes>>

CreateMap ==
  /\ ~ present
  /\ present' = TRUE
  /\ UNCHANGED <<versionVars, embedding, handlerVars, settings, stale, changes, faults>>

(***************************************************************************)
(* reconcile_embedding                                                     *)
(***************************************************************************)
(* A dimension that either spec leaves out is not compared.                *)
DimensionChanges(old, new) ==
  old.dimension # 0 /\ new.dimension # 0 /\ old.dimension # new.dimension

(* object.get("spec")                                                      *)
SpecIn(object) == {object[field] : field \in {"spec"} \cap DOMAIN object}

(* The guard of the dimension.                                             *)
Blocked(old, new) ==
  \E o \in SpecIn(old), n \in SpecIn(new) : DimensionChanges(o, n) /\ ~ n.confirmed

(* kopf reduces old and new to the field the handler is registered for,    *)
(* the spec: the guard looks for a spec in them and finds none.            *)
Begin ==
  /\ step = "idle"
  /\ embedding # applied
  /\ ~ Blocked(applied, embedding)
  /\ step' = "post"
  /\ spec' = embedding
  /\ UNCHANGED <<versionVars, embedding, applied, posted, configMapVars, changes, faults>>

(* Every call of the handler records a version, a repeated one as well.    *)
Post ==
  /\ step = "post"
  /\ spec.tenant
  /\ LET r == CHOOSE q \in Requests : call[q].at = "none" IN
       /\ r \in Requests
       /\ Send(r, spec.model)
       /\ posted' = {r}
  /\ step' = "wait"
  /\ UNCHANGED <<embedding, applied, spec, configMapVars, changes, faults>>

(* A spec without a tenantId records none.                                 *)
SkipPost ==
  /\ step = "post"
  /\ ~ spec.tenant
  /\ step' = "patch"
  /\ UNCHANGED <<versionVars, embedding, applied, spec, posted, configMapVars, changes, faults>>

(* The answer, an error as well, or the timeout of ten seconds, after      *)
(* which the call may still go on at the metadata service.                 *)
Answered ==
  /\ step = "wait"
  /\ \A r \in posted : call[r].at \in {"ok", "failed"}
  /\ step' = "patch"
  /\ UNCHANGED <<versionVars, embedding, applied, spec, posted, configMapVars, changes, faults>>

TimesOut ==
  /\ step = "wait"
  /\ Fault("timeout")
  /\ step' = "patch"
  /\ UNCHANGED <<versionVars, embedding, applied, spec, posted, configMapVars, changes>>

(* Wrong: the handler is done when the ConfigMap is patched.               *)
PatchCompletes ==
  /\ step = "patch"
  /\ settings' = IF present THEN {spec} ELSE settings
  /\ stale' = (stale \/ settings' # settings)
  /\ applied' = spec
  /\ step' = "idle"
  /\ UNCHANGED <<versionVars, embedding, spec, posted, present, changes, faults>>

(* That there is no ConfigMap to patch is swallowed.                       *)
Patch ==
  /\ step = "patch"
  /\ settings' = IF present THEN {spec} ELSE settings
  /\ stale' = (stale \/ settings' # settings)
  /\ step' = "restart"
  /\ UNCHANGED <<versionVars, embedding, applied, spec, posted, present, changes, faults>>

(* The rollout is restarted; that there is no Deployment, and so no pod,   *)
(* is swallowed.  The state is set to Applied, and kopf keeps the spec as  *)
(* the one handled last.                                                   *)
Restart ==
  /\ step = "restart"
  /\ stale' = FALSE
  /\ applied' = spec
  /\ step' = "idle"
  /\ UNCHANGED <<versionVars, embedding, spec, posted, present, settings, changes, faults>>

(* An API call fails, or the operator stops, at any step: the handler      *)
(* starts again from its beginning.                                        *)
ReconcileFails ==
  /\ step # "idle"
  /\ Fault("handler")
  /\ step' = "idle"
  /\ UNCHANGED <<versionVars, embedding, applied, spec, posted, configMapVars, changes>>

Reconciles == Begin \/ Post \/ SkipPost \/ Answered \/ Patch \/ Restart

Service(r) == Answer(r) /\ UNCHANGED <<embedding, handlerVars, configMapVars, changes, faults>>

ServiceFails(r) ==
  /\ Lose(r)
  /\ Fault("service")
  /\ UNCHANGED <<embedding, handlerVars, configMapVars, changes>>

ConfigNext ==
  \/ \E s \in Specs : Edit(s)
  \/ DeleteMap \/ CreateMap
  \/ Reconciles
  \/ TimesOut
  \/ ReconcileFails
  \/ \E r \in Requests : Service(r) \/ ServiceFails(r)

ConfigSpec == ConfigInit /\ [][ConfigNext]_configVars

(* kopf calls the handler, and calls to the metadata service end.          *)
FairConfigSpec ==
  /\ ConfigSpec
  /\ WF_configVars(Reconciles)
  /\ \A r \in Requests : WF_configVars(Service(r))

(***************************************************************************)
(* Properties                                                              *)
(***************************************************************************)
(* When all has come to rest, the ConfigMap has the settings of the        *)
(* resource and the worker was restarted since, unless the ConfigMap was   *)
(* deleted, which the handler does not notice (k8s_real_client.py:313), or *)
(* the resource was set back to the spec handled last after the handler of *)
(* another had failed (handlers.py:204).                                   *)
SettingsFollow ==
  <>[](\/ settings = {embedding} /\ ~ stale
       \/ settings = {} /\ faults > 0
       \/ embedding = applied /\ spec # applied /\ faults > 0)

(* The operator's calls overlap at the metadata service, and so may leave  *)
(* two current versions, only when one of them timed out or its handler    *)
(* failed and was called again (handlers.py:189, db.py:293).               *)
CallsSerial == OneCurrentIfSerial /\ (overlap => faults > 0)

(* What the documentation of the resource says, "Changing `dimension` is   *)
(* blocked until `reindexConfirmed: true` is set": the settings go from    *)
(* one declared dimension to another only as confirmed (handlers.py:180).  *)
(* The guard, as it is deployed, has nothing to compare.                   *)
DimensionGuarded ==
  [][\A old \in settings, new \in settings' : DimensionChanges(old, new) => new.confirmed]_configVars

=============================================================================
