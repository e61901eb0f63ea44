----------------------------- MODULE MetadataConsumer -----------------------------
(***************************************************************************)
(* The consumer thread of the metadata service (src/services/metadata-     *)
(* service): it reads the entities the pipeline reports on the topic       *)
(* metadata-events and writes them, their lineage and their quality checks *)
(* to PostgreSQL, one transaction per event on one connection.             *)
(*                                                                         *)
(* Publishers key an event by its random id, so it may be in any partition *)
(* and overtake others.  Offsets are never committed: a process that       *)
(* restarts, or gets its partitions anew, reads the topic from its         *)
(* beginning.  The deployment runs one process of the service.             *)
(*                                                                         *)
(* PostgreSQL is external.  A statement that fails aborts the transaction: *)
(* every further statement fails until the transaction ends, and a COMMIT  *)
(* of it is a ROLLBACK that reports success.  A connection that is lost    *)
(* stays lost, nobody opens another.  What is refused before it is sent, a *)
(* value psycopg2 cannot adapt or a key the event lacks, aborts nothing:   *)
(* the transaction stays open, and the next COMMIT keeps what it has done. *)
(***************************************************************************)
EXTENDS Integers, Sequences, FiniteSets, Functions, Faults

CONSTANTS
  Partitions,
  Entities,        (* entities named in events, <<type, key>> of one tenant *)
  Published,       (* those that have an event of their own                 *)
  Upstream,        (* entity -> the entities its event names as upstream    *)
  Created,         (* the events: an entity and the outcomes of its checks  *)
  Malformed,       (* entities whose row is refused: tenant_id is no UUID   *)
  Foreign,         (* events of another type, the uploads the BFF reports   *)
  Room             (* bound: how many events a partition gets               *)

(* How a quality check turned out; "garbled" is one that cannot be stored. *)
Outcomes == {"passed", "failed", "garbled"}

ASSUME MetadataAssumption ==
  /\ IsFiniteSet(Partitions)
  /\ Published \subseteq Entities
  /\ Upstream \in [Published -> SUBSET Entities]
  /\ Created \subseteq [entity : Published, checks : SUBSET Outcomes]
  /\ Malformed \subseteq Published
  /\ Foreign \cap Created = {}
  /\ Room \in [Partitions -> Nat]

VARIABLES
  log,             (* metadata-events: what a partition's events report     *)
  position,        (* partition -> events read since the process started    *)
  step,            (* where process_event is, and for which entity          *)
  conn,            (* the connection: "ok", "aborted" or "closed"           *)
  db,              (* what is committed                                     *)
  tx,              (* what the transaction under way sees                   *)
  alerted,         (* events announced on data-quality-failed               *)
  unheard,         (* history: those whose announcement failed              *)
  broken,          (* history: those whose checks broke off at a garbled one*)
  failed,          (* history: something failed since the process started   *)
  known,           (* history: the entities stored when the replay began    *)
  replays          (* history: how often the topic was begun again          *)

consumerVars == <<position, step, conn, tx, failed>>
alertVars    == <<alerted, unheard, broken>>
replayVars   == <<known, replays>>
vars == <<log, consumerVars, db, alertVars, replayVars, faults>>

(* The places of events in the log.                                        *)
Places == UNION {[part : {p}, off : 1 .. Room[p]] : p \in Partitions}

(* entities, their lineage, how often the checks of an event have gone to  *)
(* data_quality, which of these failed, and whose attributes say           *)
(* quality_status = failed; and, for the properties, the entities whose    *)
(* attributes are those of an event with a failed check.                   *)
Tables == [entities : SUBSET Published, edges : SUBSET (Entities \X Published),
           rows : [Places -> Nat], failing : SUBSET Places,
           marked : SUBSET Published, suspect : SUBSET Published]

(* Where the thread is: polling, never started, or at an event.            *)
Polling == [at |-> "poll"]
NoConsumer == [at |-> "none"]
Steps   == [at : {"edges", "mark", "alert", "commit"}, place : Places, entity : Published,
            checks : SUBSET Outcomes, refs : SUBSET Entities]

TypeOK ==
  /\ log \in [Partitions -> Seq(Created \cup Foreign)]
  /\ position \in [Partitions -> Nat]
  /\ \A p \in Partitions : position[p] <= Len(log[p]) /\ Len(log[p]) <= Room[p]
  /\ step \in Steps \cup {Polling, NoConsumer}
  /\ conn \in {"ok", "aborted", "closed"}
  /\ db \in Tables
  /\ tx \in Tables
  /\ alerted \subseteq Places
  /\ unheard \subseteq Places
  /\ broken \subseteq Places
  /\ failed \in BOOLEAN
  /\ known \subseteq Published
  /\ faults \in 0 .. MaxFaults
  /\ replays \in 0 .. faults

Init ==
  /\ log = [p \in Partitions |-> <<>>]
  /\ position = [p \in Partitions |-> 0]
  /\ step = Polling
  /\ conn = "ok"
  /\ db = [entities |-> {}, edges |-> {}, rows |-> [m \in Places |-> 0], failing |-> {},
           marked |-> {}, suspect |-> {}]
  /\ tx = db
  /\ alerted = {}
  /\ unheard = {}
  /\ broken = {}
  /\ failed = FALSE
  /\ known = {}
  /\ replays = 0
  /\ faults = 0

NoFault == UNCHANGED faults

(* A statement that PostgreSQL would carry out is carried out.             *)
Executes == conn = "ok" /\ UNCHANGED <<conn, failed>> /\ NoFault

(* A statement fails: because the transaction is aborted or the connection *)
(* is lost, because the row is bad, or because of a fault.                 *)
Fails(bad) ==
  /\ failed' = TRUE
  /\ tx' = db
  /\ \/ conn # "ok" /\ UNCHANGED conn /\ NoFault
     \/ conn = "ok" /\ bad /\ conn' = "aborted" /\ NoFault
     \/ conn = "ok" /\ Fault("statement") /\ conn' = "aborted"
     \/ conn = "ok" /\ Fault("connection") /\ conn' = "closed"

(* The code or psycopg2 refuses what an event holds, nothing is sent.      *)
Refused == conn = "ok" /\ UNCHANGED conn /\ failed' = TRUE /\ NoFault

Goto(place) == step' = [step EXCEPT !.at = place]

(***************************************************************************)
(* A publisher reports an entity.  Its failures are swallowed, so an event *)
(* may also never come; and an entity processed twice is reported twice,   *)
(* the second time with other checks perhaps.                              *)
(***************************************************************************)
Publish(e, p) ==
  /\ Len(log[p]) < Room[p]
  /\ log' = [log EXCEPT ![p] = Append(@, e)]
  /\ UNCHANGED <<consumerVars, db, alertVars, replayVars, faults>>

(***************************************************************************)
(* run() and process_event()                                               *)
(***************************************************************************)
NextEvent(p) == log[p][position[p] + 1]

Read(p) ==
  /\ step.at = "poll"
  /\ position[p] < Len(log[p])
  /\ position' = [position EXCEPT ![p] = @ + 1]

(* An event that is not handled is passed by, and so is what is no JSON.   *)
Ignore(p) ==
  /\ Read(p)
  /\ NextEvent(p) \in Foreign
  /\ UNCHANGED <<log, step, conn, tx, failed, db, alertVars, replayVars, faults>>

(* An event with a failed check, all of whose checks can be stored.        *)
Finds(checks) == "failed" \in checks /\ "garbled" \notin checks

(* upsert_entity: the attributes are replaced, a quality_status is gone.   *)
Upsert(p) ==
  /\ Read(p)
  /\ Executes
  /\ LET e == NextEvent(p) IN
       /\ e \in Created
       /\ e.entity \notin Malformed
       /\ tx' = [tx EXCEPT !.entities = @ \cup {e.entity},
                           !.marked = @ \ {e.entity},
                           !.suspect = IF Finds(e.checks) THEN @ \cup {e.entity} ELSE @ \ {e.entity}]
       /\ step' = [at |-> "edges", place |-> [part |-> p, off |-> position[p] + 1],
                   entity |-> e.entity, checks |-> e.checks, refs |-> Upstream[e.entity]]
  /\ UNCHANGED <<log, db, alertVars, replayVars>>

(* The upsert of e is refused: by PostgreSQL, or before it is sent.        *)
UpsertRefused(e) ==
  \/ Fails(e.entity \in Malformed)
  \/ e.entity \in Malformed /\ Refused /\ UNCHANGED tx

(* Wrong: the consumer stays at an event it cannot process.                *)
UpsertFailsStays(p) ==
  /\ step.at = "poll"
  /\ position[p] < Len(log[p])
  /\ NextEvent(p) \in Created
  /\ UpsertRefused(NextEvent(p))
  /\ UNCHANGED <<log, position, step, db, alertVars, replayVars>>

(* The exception is logged, the next message is read.                      *)
UpsertFails(p) ==
  /\ Read(p)
  /\ NextEvent(p) \in Created
  /\ UpsertRefused(NextEvent(p))
  /\ UNCHANGED <<log, step, db, alertVars, replayVars>>

(* insert_lineage_edge, for a reference to an entity that is stored, by    *)
(* this transaction or before; another one is logged and dropped.          *)
Edge(u) ==
  /\ step.at = "edges"
  /\ u \in step.refs
  /\ Executes
  /\ tx' = IF u \in tx.entities THEN [tx EXCEPT !.edges = @ \cup {<<u, step.entity>>}] ELSE tx
  /\ step' = [step EXCEPT !.refs = @ \ {u}]
  /\ UNCHANGED <<log, position, db, alertVars, replayVars>>

(* The exception is caught: on with the next reference.                    *)
EdgeFails(u) ==
  /\ step.at = "edges"
  /\ u \in step.refs
  /\ Fails(FALSE)
  /\ step' = [step EXCEPT !.refs = @ \ {u}]
  /\ UNCHANGED <<log, position, db, alertVars, replayVars>>

(* The transaction with the checks of the event at work.                   *)
WithChecks ==
  [tx EXCEPT !.rows[step.place] = @ + 1,
             !.failing = IF "failed" \in step.checks THEN @ \cup {step.place} ELSE @]

(* insert_quality_checks: plain INSERTs, a second time as well.            *)
InsertChecks ==
  /\ step.at = "edges"
  /\ step.refs = {}
  /\ step.checks # {} /\ "garbled" \notin step.checks
  /\ Executes
  /\ tx' = WithChecks
  /\ Goto(IF "failed" \in step.checks THEN "mark" ELSE "commit")
  /\ UNCHANGED <<log, position, db, alertVars, replayVars>>

(* The exception leaves process_event, the transaction stays open.         *)
ChecksFail ==
  /\ step.at = "edges"
  /\ step.refs = {}
  /\ step.checks # {}
  /\ Fails("garbled" \in step.checks)
  /\ step' = Polling
  /\ UNCHANGED <<log, position, db, alertVars, replayVars>>

(* So it does at a garbled check that is not even sent: the INSERTs of the *)
(* checks before it have been made, and nothing undoes them.               *)
ChecksBreakOff ==
  /\ step.at = "edges"
  /\ step.refs = {}
  /\ "garbled" \in step.checks
  /\ Refused
  /\ tx' \in {tx, WithChecks}
  /\ broken' = broken \cup {step.place}
  /\ step' = Polling
  /\ UNCHANGED <<log, position, db, alerted, unheard, replayVars>>

(* Without checks no statement is made, on a broken connection either.     *)
NoChecks ==
  /\ step.at = "edges"
  /\ step.refs = {}
  /\ step.checks = {}
  /\ Goto("commit")
  /\ UNCHANGED <<log, position, conn, db, tx, alertVars, failed, replayVars, faults>>

(* update_entity_quality_failed                                            *)
Mark ==
  /\ step.at = "mark"
  /\ Executes
  /\ tx' = [tx EXCEPT !.marked = @ \cup {step.entity}]
  /\ Goto("alert")
  /\ UNCHANGED <<log, position, db, alertVars, replayVars>>

(* Wrong: the failed UPDATE is rolled back alone and the rest is kept.     *)
MarkFailsAlone ==
  /\ step.at = "mark"
  /\ Fault("statement")
  /\ Goto("alert")
  /\ UNCHANGED <<log, position, conn, tx, failed, db, alertVars, replayVars>>

(* The exception is caught: the failure is announced all the same.         *)
MarkFails ==
  /\ step.at = "mark"
  /\ Fails(FALSE)
  /\ Goto("alert")
  /\ UNCHANGED <<log, position, db, alertVars, replayVars>>

(* The failed checks are announced before they are committed.              *)
Alert ==
  /\ step.at = "alert"
  /\ alerted' = alerted \cup {step.place}
  /\ Goto("commit")
  /\ UNCHANGED <<log, position, conn, tx, failed, db, unheard, broken, replayVars, faults>>

(* Wrong: what cannot be announced is checked again.                       *)
AlertFailsRetried ==
  /\ step.at = "alert"
  /\ Fault("kafka")
  /\ Goto("edges")
  /\ UNCHANGED <<log, position, conn, tx, failed, db, alertVars, replayVars>>

(* The publisher catches its exceptions, whether or not Kafka has it.      *)
AlertFails ==
  /\ step.at = "alert"
  /\ Fault("kafka")
  /\ unheard' = unheard \cup {step.place}
  /\ Goto("commit")
  /\ UNCHANGED <<log, position, conn, tx, failed, db, alerted, broken, replayVars>>

(* Wrong: the event outlives its transaction.                              *)
CommitKeepsEvent ==
  /\ step.at = "commit"
  /\ db' = IF conn = "ok" THEN tx ELSE db
  /\ tx' = db'
  /\ conn' = IF conn = "aborted" THEN "ok" ELSE conn
  /\ Goto("poll")
  /\ UNCHANGED <<log, position, alertVars, failed, replayVars, faults>>

(* Commit: of an aborted transaction it is a rollback, and the connection  *)
(* works again; on a lost connection it fails with a warning.              *)
Commit ==
  /\ step.at = "commit"
  /\ db' = IF conn = "ok" THEN tx ELSE db
  /\ tx' = db'
  /\ conn' = IF conn = "aborted" THEN "ok" ELSE conn
  /\ step' = Polling
  /\ UNCHANGED <<log, position, alertVars, failed, replayVars, faults>>

(* The connection is lost at the commit, before or after it was done.      *)
CommitLost ==
  /\ step.at = "commit"
  /\ conn = "ok"
  /\ Fault("connection")
  /\ conn' = "closed"
  /\ db' \in {db, tx}
  /\ tx' = db'
  /\ failed' = TRUE
  /\ step' = Polling
  /\ UNCHANGED <<log, position, alertVars, replayVars>>

(* The topic is begun again, with what is stored by now.                   *)
Replay ==
  /\ position' = [p \in Partitions |-> 0]
  /\ known' = db.entities
  /\ replays' = replays + 1

(* The process gets its partitions anew: no offset is committed.           *)
Rebalance ==
  /\ step.at = "poll"
  /\ Fault("rebalance")
  /\ Replay
  /\ UNCHANGED <<log, step, conn, tx, failed, db, alertVars>>

(* Wrong: the new process reads on where the old one was.                  *)
RestartResumes ==
  /\ Fault("crash")
  /\ known' = db.entities
  /\ replays' = replays + 1
  /\ step' = Polling
  /\ conn' = "ok"
  /\ tx' = db
  /\ failed' = FALSE
  /\ UNCHANGED <<log, position, db, alertVars>>

(* The pod is replaced: a new connection, the topic from its beginning.    *)
Restart ==
  /\ Fault("crash")
  /\ Replay
  /\ step' = Polling
  /\ conn' = "ok"
  /\ tx' = db
  /\ failed' = FALSE
  /\ UNCHANGED <<log, db, alertVars>>

(* PostgreSQL cannot be reached when the process starts: the exception is  *)
(* logged and no consumer runs, while /health says that all is well.       *)
StartFails ==
  /\ Fault("startup")
  /\ step' = NoConsumer
  /\ conn' = "closed"
  /\ tx' = db
  /\ failed' = TRUE
  /\ UNCHANGED <<log, position, db, alertVars, replayVars>>

Consume ==
  \/ \E p \in Partitions : Ignore(p) \/ Upsert(p) \/ UpsertFails(p)
  \/ \E u \in Entities : Edge(u) \/ EdgeFails(u)
  \/ InsertChecks \/ ChecksFail \/ ChecksBreakOff \/ NoChecks
  \/ Mark \/ MarkFails \/ Alert \/ AlertFails
  \/ Commit \/ CommitLost

Next ==
  \/ Consume
  \/ Rebalance \/ Restart \/ StartFails
  \/ \E e \in Created \cup Foreign, p \in Partitions : Publish(e, p)

Spec == Init /\ [][Next]_vars

(* The consumer thread, if there is one, runs on.                          *)
FairSpec == Spec /\ WF_vars(Consume)

(***************************************************************************)
(* Properties                                                              *)
(***************************************************************************)
CaughtUp == step.at = "poll" /\ \A p \in Partitions : position[p] = Len(log[p])

Reported == {e.entity : e \in (UNION {Range(log[p]) : p \in Partitions}) \ Foreign}

(* A process in which nothing failed has stored every entity it has read   *)
(* of, whatever a former process left out; and a replay has mended the     *)
(* lineage: no edge is missing between entities stored before it began,    *)
(* whichever was read first (consumer.py:57, db.py:82).                    *)
ReplayRepairs ==
  (CaughtUp /\ ~ failed) =>
    /\ Reported \subseteq db.entities
    /\ \A d \in known : \A u \in Upstream[d] \cap known : <<u, d>> \in db.edges

(* An entity is marked as failed exactly if the event its attributes are   *)
(* of has a failed check, though the statements on the way may fail and    *)
(* have their exceptions swallowed; the mark of an earlier event is gone,  *)
(* not its rows.  And an event's failed check that is stored has been      *)
(* announced, unless just that failed or the checks broke off              *)
(* (consumer.py:78, db.py:49, db.py:116).                                  *)
FailuresKnown ==
  /\ db.marked = db.suspect
  /\ db.failing \subseteq alerted \cup unheard \cup broken

(* The checks of an event are stored at most once for each time the topic  *)
(* is read, though what broke off may be committed with a later event      *)
(* (consumer.py:71, app.py:118).                                           *)
RowsExplained == \A m \in Places : db.rows[m] <= 1 + replays

(* The consumer always gets to the end of the topic, over events it cannot *)
(* process and with a connection that is broken for good (consumer.py:110),*)
(* unless in the end no consumer was started (app.py:135).                 *)
CatchesUp == []<>CaughtUp \/ <>[](step = NoConsumer)

=============================================================================
