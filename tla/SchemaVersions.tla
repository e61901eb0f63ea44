------------------------------ MODULE SchemaVersions ------------------------------
(***************************************************************************)
(* The table metadata.schema_versions of one tenant and the transactions   *)
(* of POST /api/schema-versions (src/services/metadata-service): an UPDATE *)
(* of all rows of the tenant, an INSERT of the next one, a COMMIT.         *)
(*                                                                         *)
(* PostgreSQL runs them at READ COMMITTED: a statement works on the rows   *)
(* committed when it starts, and an UPDATE waits for whoever has one of    *)
(* these rows locked.                                                      *)
(***************************************************************************)
EXTENDS Naturals

CONSTANTS
  Requests,        (* the calls of create_schema_version                    *)
  Models           (* an embedding_model with its backend                   *)

VARIABLES
  rows,            (* the committed rows                                    *)
  call,            (* where each call is                                    *)
  overlap          (* history: a call began while another was under way     *)

versionVars == <<rows, call, overlap>>

Rows  == [number : Nat \ {0}, model : Models, current : BOOLEAN]
Calls ==
  [at : {"none", "ok", "failed"}]
  \cup [at : {"sent"}, model : Models]
  \cup [at : {"update", "insert"}, model : Models, seen : SUBSET Nat]
  \cup [at : {"commit"}, model : Models, seen : SUBSET Nat, number : Nat \ {0}]

VersionsTypeOK ==
  /\ rows \subseteq Rows
  /\ call \in [Requests -> Calls]
  /\ overlap \in BOOLEAN

VersionsInit ==
  /\ rows = {}
  /\ call = [r \in Requests |-> [at |-> "none"]]
  /\ overlap = FALSE

Numbers == {row.number : row \in rows}

Open == {r \in Requests : call[r].at \in {"update", "insert", "commit"}}

Send(r, m) ==
  /\ call[r].at = "none"
  /\ call' = [call EXCEPT ![r] = [at |-> "sent", model |-> m]]
  /\ UNCHANGED <<rows, overlap>>

(* UPDATE ... SET is_current = FALSE: the rows it is going to change.      *)
StartUpdate(r) ==
  /\ call[r].at = "sent"
  /\ call' = [call EXCEPT ![r] = [at |-> "update", model |-> @.model, seen |-> Numbers]]
  /\ overlap' = (overlap \/ Open # {})
  /\ UNCHANGED rows

(* They are locked, up to the end of the transaction.                      *)
FinishUpdate(r) ==
  /\ call[r].at = "update"
  /\ \A q \in Requests \ {r} :
       call[q].at \in {"insert", "commit"} => call[q].seen \cap call[r].seen = {}
  /\ call' = [call EXCEPT ![r].at = "insert"]
  /\ UNCHANGED <<rows, overlap>>

(* INSERT ... COALESCE(MAX(version_number), 0) + 1                         *)
Insert(r) ==
  /\ call[r].at = "insert"
  /\ \E n \in {1} \cup {k + 1 : k \in Numbers} :
       /\ \A k \in Numbers : k < n
       /\ call' = [call EXCEPT ![r] =
            [at |-> "commit", model |-> @.model, seen |-> @.seen, number |-> n]]
  /\ UNCHANGED <<rows, overlap>>

(* Wrong: the former versions stay current.                                *)
CommittedKeepsFormer(r) ==
  rows \cup {[number |-> call[r].number, model |-> call[r].model, current |-> TRUE]}

(* The rows after r's COMMIT.                                              *)
Committed(r) ==
  {[row EXCEPT !.current = @ /\ row.number \notin call[r].seen] : row \in rows}
  \cup {[number |-> call[r].number, model |-> call[r].model, current |-> TRUE]}

(* Wrong: nothing keeps two rows from having one number.                   *)
CommitUnchecked(r) ==
  /\ call[r].at = "commit"
  /\ rows' = Committed(r)
  /\ call' = [call EXCEPT ![r] = [at |-> "ok"]]
  /\ UNCHANGED overlap

Commit(r) ==
  /\ call[r].at = "commit"
  /\ call[r].number \notin Numbers
  /\ rows' = Committed(r)
  /\ call' = [call EXCEPT ![r] = [at |-> "ok"]]
  /\ UNCHANGED overlap

(* uq_schema_versions_tenant_version: another call has taken the number.   *)
(* The whole transaction is rolled back, the caller gets a 500.            *)
UniqueViolation(r) ==
  /\ call[r].at = "commit"
  /\ call[r].number \in Numbers
  /\ call' = [call EXCEPT ![r] = [at |-> "failed"]]
  /\ UNCHANGED <<rows, overlap>>

(* The call never arrives, or the service or its connection is lost.       *)
Lose(r) ==
  /\ call[r].at \in {"sent", "update", "insert", "commit"}
  /\ call' = [call EXCEPT ![r] = [at |-> "failed"]]
  /\ UNCHANGED <<rows, overlap>>

Answer(r) ==
  StartUpdate(r) \/ FinishUpdate(r) \/ Insert(r) \/ Commit(r) \/ UniqueViolation(r)

VersionsNext ==
  \E r \in Requests :
    \/ \E m \in Models : Send(r, m)
    \/ Answer(r)
    \/ Lose(r)

VersionsSpec == VersionsInit /\ [][VersionsNext]_versionVars

(***************************************************************************)
(* Properties                                                              *)
(***************************************************************************)
(* A number is given to one version only.                                  *)
NumbersUnique == \A x, y \in rows : x.number = y.number => x = y

(* The row with the highest number is current, so that the newest version  *)
(* always joins with what was embedded before it (db.py:218).              *)
NewestIsCurrent ==
  \A row \in rows : (\A k \in Numbers : k <= row.number) => row.current

(* Both hold whatever calls were under way at once, were rolled back or    *)
(* got lost, though the next number is read before it is written           *)
(* (db.py:305).                                                            *)
VersionsSound == NumbersUnique /\ NewestIsCurrent

(* Former versions are deactivated: two are current only if calls were     *)
(* under way at the same time, and then one did not see the other's row    *)
(* (db.py:293).                                                            *)
OneCurrentIfSerial ==
  ~ overlap => \A x, y \in rows : x.current /\ y.current => x = y

=============================================================================
