-------------------------------- MODULE UserSources -------------------------------
(***************************************************************************)
(* The BFF's calls on sources (src/services/bff): a source is a ConfigMap  *)
(* and a DataConnector resource of the same name, written one after the    *)
(* other.  Calls are coroutines in several pods and interleave at every    *)
(* call of the Kubernetes API.  Users and administrators make the same     *)
(* calls; who may make them, and the quota of a user's tier, is left out.  *)
(*                                                                         *)
(* The API server is external.  It may refuse the resource, and always     *)
(* does with the manifests of this repository: the BFF names an API group  *)
(* they neither define nor open to it.                                     *)
(***************************************************************************)
CONSTANTS
  Callers,         (* the calls under way at once                           *)
  Sources,         (* the ids, a fresh one for each creation                *)
  Names            (* what a source may be called                           *)

VARIABLES
  config,          (* source -> {} or the data of its ConfigMap             *)
  connector,       (* the sources that have a DataConnector                 *)
  request,         (* what each caller is doing                             *)
  used,            (* the ids given away                                    *)
  wanted,          (* history: the data as the last edits left it           *)
  contended,       (* history: sources edited by overlapping calls          *)
  orphaned         (* history: sources deleted halfway, or while created    *)

objectVars  == <<config, connector>>
historyVars == <<wanted, contended, orphaned>>
vars        == <<objectVars, request, used, historyVars>>

Fields == {"name", "paused"}
Data   == [name : Names, paused : BOOLEAN]

Idle == [at |-> "idle"]
Steps ==
  {Idle}
  \cup [at : {"create", "delete", "unlink"}, source : Sources]
  \cup [at : {"patch"}, source : Sources, field : Fields, data : Data]

TypeOK ==
  /\ config \in [Sources -> {{}} \cup {{d} : d \in Data}]
  /\ connector \subseteq Sources
  /\ request \in [Callers -> Steps]
  /\ used \subseteq Sources
  /\ wanted \in [Sources -> Data]
  /\ contended \subseteq Sources
  /\ orphaned \subseteq Sources

New == [name |-> CHOOSE n \in Names : TRUE, paused |-> FALSE]

Init ==
  /\ config = [s \in Sources |-> {}]
  /\ connector = {}
  /\ request = [k \in Callers |-> Idle]
  /\ used = {}
  /\ wanted = [s \in Sources |-> New]
  /\ contended = {}
  /\ orphaned = {}

Goto(k, r) == request' = [request EXCEPT ![k] = r]

At(k, place) == request[k].at = place

Source(k) == request[k].source

(***************************************************************************)
(* create_source, create_connector                                         *)
(***************************************************************************)
(* create_configmap                                                        *)
Create(k, s) ==
  /\ At(k, "idle")
  /\ s \notin used
  /\ used' = used \cup {s}
  /\ config' = [config EXCEPT ![s] = {New}]
  /\ Goto(k, [at |-> "create", source |-> s])
  /\ UNCHANGED <<connector, historyVars>>

(* The source is listed already, and may be gone by now.                   *)
CreateResource(k) ==
  /\ At(k, "create")
  /\ connector' = connector \cup {Source(k)}
  /\ orphaned' = orphaned \cup {s \in {Source(k)} : config[s] = {}}
  /\ Goto(k, Idle)
  /\ UNCHANGED <<config, used, wanted, contended>>

(* The caller gets a 500, the ConfigMap stays.                             *)
ResourceRefused(k) ==
  /\ At(k, "create")
  /\ Goto(k, Idle)
  /\ UNCHANGED <<objectVars, used, historyVars>>

(***************************************************************************)
(* pause_source, resume_source, update_connector                           *)
(***************************************************************************)
(* Wrong: what the call does not name goes back to its default.            *)
EditedNew(d, f, v) == [New EXCEPT ![f] = v]

Edited(d, f, v) == [d EXCEPT ![f] = v]

(* get_configmap; the whole data is written back later.                    *)
Get(k, s, f, v) ==
  /\ At(k, "idle")
  /\ \E d \in config[s] :
       Goto(k, [at |-> "patch", source |-> s, field |-> f, data |-> Edited(d, f, v)])
  /\ UNCHANGED <<objectVars, used, historyVars>>

(* The data is written; that the answer may be lost makes no difference.   *)
Patch(k) ==
  /\ At(k, "patch")
  /\ config[Source(k)] # {}
  /\ config' = [config EXCEPT ![Source(k)] = {request[k].data}]
  /\ wanted' = [wanted EXCEPT ![Source(k)][request[k].field] = request[k].data[request[k].field]]
  /\ contended' = contended \cup
       {s \in {Source(k)} : \E q \in Callers \ {k} : At(q, "patch") /\ Source(q) = s}
  /\ Goto(k, Idle)
  /\ UNCHANGED <<connector, used, orphaned>>

(* The source was deleted in the meantime: the patch fails, a 500.         *)
PatchFails(k) ==
  /\ At(k, "patch")
  /\ config[Source(k)] = {}
  /\ Goto(k, Idle)
  /\ UNCHANGED <<objectVars, used, historyVars>>

(***************************************************************************)
(* delete_source, delete_connector                                         *)
(***************************************************************************)
Find(k, s) ==
  /\ At(k, "idle")
  /\ config[s] # {}
  /\ Goto(k, [at |-> "delete", source |-> s])
  /\ UNCHANGED <<objectVars, used, historyVars>>

(* Wrong: the resource is left to somebody else.                           *)
DeleteConfigOnly(k) ==
  /\ At(k, "delete")
  /\ config' = [config EXCEPT ![Source(k)] = {}]
  /\ Goto(k, Idle)
  /\ UNCHANGED <<connector, used, historyVars>>

(* If another call was faster the API's 404 ends this one.                 *)
DeleteConfig(k) ==
  /\ At(k, "delete")
  /\ config' = [config EXCEPT ![Source(k)] = {}]
  /\ Goto(k, IF config[Source(k)] = {} THEN Idle ELSE [at |-> "unlink", source |-> Source(k)])
  /\ UNCHANGED <<connector, used, historyVars>>

(* The ConfigMap is deleted and the answer lost: a 500, the resource stays. *)
DeleteConfigLost(k) ==
  /\ At(k, "delete")
  /\ config[Source(k)] # {}
  /\ config' = [config EXCEPT ![Source(k)] = {}]
  /\ orphaned' = orphaned \cup {Source(k)}
  /\ Goto(k, Idle)
  /\ UNCHANGED <<connector, used, wanted, contended>>

DeleteResource(k) ==
  /\ At(k, "unlink")
  /\ connector' = connector \ {Source(k)}
  /\ Goto(k, Idle)
  /\ UNCHANGED <<config, used, historyVars>>

(* The exception is swallowed, the caller gets a 204.                      *)
DeleteResourceFails(k) ==
  /\ At(k, "unlink")
  /\ orphaned' = orphaned \cup {Source(k)}
  /\ Goto(k, Idle)
  /\ UNCHANGED <<objectVars, used, wanted, contended>>

Next ==
  \E k \in Callers :
    \/ \E s \in Sources :
         \/ Create(k, s)
         \/ \E n \in Names : Get(k, s, "name", n)
         \/ \E b \in BOOLEAN : Get(k, s, "paused", b)
         \/ Find(k, s)
    \/ CreateResource(k) \/ ResourceRefused(k)
    \/ Patch(k) \/ PatchFails(k)
    \/ DeleteConfig(k) \/ DeleteConfigLost(k)
    \/ DeleteResource(k) \/ DeleteResourceFails(k)

Spec == Init /\ [][Next]_vars

(***************************************************************************)
(* Properties                                                              *)
(***************************************************************************)
(* What was written, and so what was acknowledged, is kept: only calls     *)
(* that overlap undo one another's edits of a source (user_sources.py:185). *)
EditsKept ==
  \A s \in Sources \ contended : \A d \in config[s] : d = wanted[s]

(* A connector without its ConfigMap, which no call lists or deletes any   *)
(* more, is one whose deletion failed halfway or came between the two      *)
(* writes of its creation (user_sources.py:122, 205).                      *)
OrphansExplained ==
  \A s \in connector : config[s] = {} =>
    s \in orphaned \/ \E k \in Callers : At(k, "unlink") /\ Source(k) = s

=============================================================================
