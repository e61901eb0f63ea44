----------------------------- MODULE ConnectorOperator ----------------------------
(***************************************************************************)
(* The handlers of DataConnector and TenantWorkspace resources in the      *)
(* pipeline operator (src/services/pipeline-operator): the objects that a  *)
(* resource needs are applied one API call after the other, and deleted    *)
(* one after the other when the resource is.  One of them it shares: the   *)
(* Kafka user with the tenant's connectors of its type, the upload watcher *)
(* with the tenant's workspaces.                                           *)
(*                                                                         *)
(* kopf and the API server are external.  kopf calls the handlers of one   *)
(* resource one at a time, those of different resources concurrently, and  *)
(* calls a handler that raised again, with the spec as it is then.  A      *)
(* resource that is deleted stays, marked, until its handler is done.      *)
(***************************************************************************)
EXTENDS Naturals, Sequences, Faults

CONSTANTS
  Connectors,
  Workspaces,
  Names,           (* <tenantId>-<sourceType> of the Kafka user, <tenantId> *)
  NameOf,          (* of the upload watcher; they do not change             *)
  MaxEdits         (* bound: changes of a resource                          *)

ASSUME OperatorAssumption ==
  /\ Connectors \cap Workspaces = {}
  /\ NameOf \in [Connectors \cup Workspaces -> Names]
  /\ MaxEdits \in Nat

Resources == Connectors \cup Workspaces

(* spec.pollInterval decides which workload runs a connector: a CronJob,   *)
(* one whose schedule the API server refuses (0m becomes */0), or a        *)
(* Deployment.  To a workspace these are specs that differ.                *)
Workloads == {"cronjob", "deployment"}
Plans     == Workloads \cup {"refused"}

VARIABLES
  resource,        (* the resource: the plan of its spec, or "none"         *)
  deleting,        (* resources with a deletion timestamp                   *)
  handled,         (* kopf: the spec handled last, "none" for a new one     *)
  handler,         (* the handler at work on a resource                     *)
  objects,         (* the objects in the namespace, <<kind, name>>          *)
  abandoned,       (* history: those of a spec that changed before deletion *)
  edits

vars == <<resource, deleting, handled, handler, objects, abandoned, edits, faults>>

Topic       == <<"topic", "raw-documents">>
Shared(c)   == <<IF c \in Workspaces THEN "watcher" ELSE "user", NameOf[c]>>
Role(c)     == <<"role", c>>
Binding(c)  == <<"binding", c>>
Work(c, w)  == <<IF w = "refused" THEN "cronjob" ELSE w, c>>

Objects ==
  {Topic} \cup ({"user", "watcher"} \X Names)
  \cup (({"role", "binding"} \cup Workloads) \X Resources)

Idle == [does |-> "nothing"]
Handlers ==
  {Idle} \cup [does : {"apply", "delete"}, spec : Plans, todo : Seq(Objects)]

TypeOK ==
  /\ resource \in [Resources -> Plans \cup {"none"}]
  /\ deleting \subseteq {c \in Resources : resource[c] # "none"}
  /\ handled \in [Resources -> Plans \cup {"none"}]
  /\ handler \in [Resources -> Handlers]
  /\ objects \subseteq Objects
  /\ abandoned \subseteq Objects
  /\ edits \in 0 .. MaxEdits
  /\ faults \in 0 .. MaxFaults

Init ==
  /\ resource = [c \in Resources |-> "none"]
  /\ deleting = {}
  /\ handled = [c \in Resources |-> "none"]
  /\ handler = [c \in Resources |-> Idle]
  /\ objects = {}
  /\ abandoned = {}
  /\ edits = 0
  /\ faults = 0

(***************************************************************************)
(* Somebody creates, changes or deletes the resource.                      *)
(***************************************************************************)
Edits == edits < MaxEdits /\ edits' = edits + 1

Create(c, w) ==
  /\ Edits
  /\ resource[c] = "none"
  /\ resource' = [resource EXCEPT ![c] = w]
  /\ UNCHANGED <<deleting, handled, handler, objects, abandoned, faults>>

(* The workload of the former spec may have been applied.                  *)
Change(c, w) ==
  /\ Edits
  /\ resource[c] \notin {"none", w}
  /\ c \notin deleting
  /\ resource' = [resource EXCEPT ![c] = w]
  /\ abandoned' = abandoned \cup {Work(c, resource[c])}
  /\ UNCHANGED <<deleting, handled, handler, objects, faults>>

Delete(c) ==
  /\ Edits
  /\ resource[c] # "none"
  /\ c \notin deleting
  /\ deleting' = deleting \cup {c}
  /\ UNCHANGED <<resource, handled, handler, objects, abandoned, faults>>

(***************************************************************************)
(* kopf calls a handler.                                                   *)
(***************************************************************************)
(* The order of the calls.                                                 *)
ApplyOrder(c, w) ==
  IF c \in Workspaces THEN <<Shared(c)>>
  ELSE <<Topic, Shared(c), Role(c), Binding(c), Work(c, w)>>

(* Wrong: the role binding is forgotten.                                   *)
DeleteOrderKeepsBinding(c, w) == <<Role(c), Work(c, w), Shared(c)>>

DeleteOrder(c, w) ==
  (IF c \in Workspaces THEN <<>> ELSE <<Role(c), Binding(c), Work(c, w)>>) \o <<Shared(c)>>

Call(c, does, todo) ==
  /\ handler[c] = Idle
  /\ handler' = [handler EXCEPT ![c] = [does |-> does, spec |-> resource[c], todo |-> todo]]
  /\ UNCHANGED <<resource, deleting, handled, objects, abandoned, edits, faults>>

(* reconcile_connector, reconcile_workspace, for a new spec                *)
Reconcile(c) ==
  /\ c \notin deleting
  /\ resource[c] \notin {"none", handled[c]}
  /\ Call(c, "apply", ApplyOrder(c, resource[c]))

(* delete_connector, delete_workspace                                      *)
Finalize(c) ==
  /\ c \in deleting
  /\ Call(c, "delete", DeleteOrder(c, resource[c]))

At(c, does) == handler[c] # Idle /\ handler[c].does = does

Advance(c) == handler' = [handler EXCEPT ![c].todo = Tail(@)]

(* The next call is for a CronJob with a schedule there is not.            *)
Refused(c) ==
  handler[c].spec = "refused" /\ Head(handler[c].todo) = Work(c, "refused")

(* Create, or patch what is there already.                                 *)
Apply(c) ==
  /\ At(c, "apply")
  /\ handler[c].todo # <<>>
  /\ ~ Refused(c)
  /\ objects' = objects \cup {Head(handler[c].todo)}
  /\ Advance(c)
  /\ UNCHANGED <<resource, deleting, handled, abandoned, edits, faults>>

(* What is gone already is no error.                                       *)
Erase(c) ==
  /\ At(c, "delete")
  /\ handler[c].todo # <<>>
  /\ objects' = objects \ {Head(handler[c].todo)}
  /\ Advance(c)
  /\ UNCHANGED <<resource, deleting, handled, abandoned, edits, faults>>

(* The API server's answer is 422; kopf calls the handler again, for ever. *)
ScheduleRefused(c) ==
  /\ At(c, "apply")
  /\ handler[c].todo # <<>>
  /\ Refused(c)
  /\ handler' = [handler EXCEPT ![c] = Idle]
  /\ UNCHANGED <<resource, deleting, handled, objects, abandoned, edits, faults>>

(* A call fails, or the operator stops between two calls.                  *)
HandlerFails(c) ==
  /\ handler[c] # Idle
  /\ Fault("handler")
  /\ handler' = [handler EXCEPT ![c] = Idle]
  /\ UNCHANGED <<resource, deleting, handled, objects, abandoned, edits>>

(* Wrong: the handler changes the spec, and is called for the change.      *)
AppliedAnew(c) ==
  /\ At(c, "apply")
  /\ handler[c].todo = <<>>
  /\ handler' = [handler EXCEPT ![c] = Idle]
  /\ UNCHANGED <<resource, deleting, handled, objects, abandoned, edits, faults>>

(* status.state = Running; the spec applied is the one handled last.       *)
Applied(c) ==
  /\ At(c, "apply")
  /\ handler[c].todo = <<>>
  /\ handled' = [handled EXCEPT ![c] = handler[c].spec]
  /\ handler' = [handler EXCEPT ![c] = Idle]
  /\ UNCHANGED <<resource, deleting, objects, abandoned, edits, faults>>

(* Wrong: a resource of this name created later is deleted at once.        *)
RemovedKeepsMark(c) ==
  /\ At(c, "delete")
  /\ handler[c].todo = <<>>
  /\ resource' = [resource EXCEPT ![c] = "none"]
  /\ handled' = [handled EXCEPT ![c] = "none"]
  /\ handler' = [handler EXCEPT ![c] = Idle]
  /\ UNCHANGED <<deleting, objects, abandoned, edits, faults>>

(* kopf takes its finalizer away, and the resource is gone.                *)
Removed(c) ==
  /\ At(c, "delete")
  /\ handler[c].todo = <<>>
  /\ resource' = [resource EXCEPT ![c] = "none"]
  /\ deleting' = deleting \ {c}
  /\ handled' = [handled EXCEPT ![c] = "none"]
  /\ handler' = [handler EXCEPT ![c] = Idle]
  /\ UNCHANGED <<objects, abandoned, edits, faults>>

Handle(c) ==
  \/ Reconcile(c) \/ Apply(c) \/ ScheduleRefused(c) \/ Applied(c)
  \/ Finalize(c) \/ Erase(c) \/ Removed(c)

Step(c) ==
  \/ \E w \in Plans : Create(c, w) \/ Change(c, w)
  \/ Delete(c)
  \/ Handle(c)
  \/ HandlerFails(c)

Next == \E c \in Resources : Step(c)

Spec == Init /\ [][Next]_vars

FairSpec == Spec /\ \A c \in Resources : WF_vars(Handle(c))

(***************************************************************************)
(* Properties                                                              *)
(***************************************************************************)
Settled(c) == handler[c] = Idle /\ c \notin deleting

Own(c, w) == IF c \in Workspaces THEN {} ELSE {Role(c), Binding(c), Work(c, w)}

Complete(c) ==
  /\ Own(c, resource[c]) \subseteq objects
  /\ \/ Shared(c) \in objects
     \/ \E d \in Resources \ {c} :
          Shared(d) = Shared(c) /\ (d \in deleting \/ handled[d] = "none")

(* A running connector has its role, its binding and the workload of its   *)
(* spec, whatever happened to it or to others before.  The object that it, *)
(* or a workspace, shares with others is missing only if one of those was  *)
(* deleted after all (handlers.py:126, 162).  Of what was its own, nothing *)
(* stays behind a deleted connector but the workload of a spec that was    *)
(* replaced (handlers.py:115, 120).                                        *)
ObjectsFollow ==
  \A c \in Resources : Settled(c) =>
    IF resource[c] = "none"
    THEN (UNION {Own(c, w) : w \in Plans}) \cap objects \subseteq abandoned
    ELSE resource[c] = handled[c] => Complete(c)

(* Every resource is handled in the end, however often its handler failed, *)
(* but a connector whose schedule is refused, whose handler is called for  *)
(* ever; and that one too once it is changed or deleted (handlers.py:304). *)
Converges ==
  \A c \in Resources :
    <>[](\/ Settled(c) /\ (resource[c] = "none" \/ resource[c] = handled[c])
         \/ c \in Connectors \ deleting /\ resource[c] = "refused")

=============================================================================
