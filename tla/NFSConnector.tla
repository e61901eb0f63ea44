------------------------------ MODULE NFSConnector ------------------------------
(***************************************************************************)
(* The NFS connector (src/services/connector-nfs): a thread of watchdog    *)
(* queues the paths that change under the mount, and a poll drains the     *)
(* queue; while that thread is not alive a poll compares the tree with the *)
(* set of known files in Redis.  Either way it announces each path in      *)
(* source_file_status, publishes an event for it on raw-documents and adds *)
(* it to the known files.                                                  *)
(*                                                                         *)
(* What a poll has drained is only in its memory: whatever ends it early   *)
(* loses the rest.  The history variable missed says of which files; the   *)
(* properties say that there are no others.                                *)
(***************************************************************************)
EXTENDS Naturals, FiniteSets, Faults

CONSTANTS
  Files,        (* the paths of an allowed extension, numbers in their order *)
  Attempts,     (* _KAFKA_MAX_RETRIES                                      *)
  MaxWrites     (* bound: how often files are written                      *)

ASSUME FilesAssumption ==
  /\ Files \subseteq Nat
  /\ IsFiniteSet(Files)
  /\ Attempts \in Nat \ {0}
  /\ MaxWrites \in Nat

VARIABLES
  content,      (* a file is absent, unserved (no event since it was       *)
                (* written) or served                                      *)
  written,      (* how often it was written                                *)
  alive,        (* is watchdog's thread alive?                             *)
  queue,        (* the paths it has queued                                 *)
  known,        (* in Redis: the known files                               *)
  polling,      (* is poll() under way?                                    *)
  todo,         (* poll: the paths it has yet to publish                   *)
  announced,    (* poll: is the path at hand written to the table?         *)
  attempt,      (* poll: how many attempts to publish it have raised       *)
  remember,     (* poll: the path that is published and not yet known      *)
  connection,   (* the PostgreSQL connection                               *)
  rows,         (* source_file_status: the paths it has a row for          *)
  events,       (* raw-documents: how many events each path has had        *)
  missed        (* history: the unserved files that nobody looks for       *)

pollVars  == <<polling, todo, announced, attempt, remember>>
watchVars == <<alive, queue>>
vars      == <<content, written, watchVars, known, pollVars, connection, rows, events,
               missed, faults>>

(* The locals of a poll, which are gone when it ends.                      *)
PollTypeOK ==
  /\ polling    \in BOOLEAN
  /\ todo       \in SUBSET Files
  /\ announced  \in BOOLEAN
  /\ attempt    \in 0 .. Attempts - 1
  /\ remember   \in {{}} \cup {{f} : f \in Files}
  /\ announced => todo # {}
  /\ todo \cup remember # {} => polling

TypeOK ==
  /\ PollTypeOK
  /\ content    \in [Files -> {"absent", "unserved", "served"}]
  /\ written    \in [Files -> 0 .. MaxWrites]
  /\ alive      \in BOOLEAN
  /\ queue      \in SUBSET Files
  /\ known      \in SUBSET Files
  /\ connection \in {"ok", "lost", "aborted"}
  /\ rows       \in SUBSET Files
  /\ events     \in [Files -> Nat]
  /\ missed     \in SUBSET Files
  /\ faults     \in 0 .. MaxFaults

(* The observer may fail to start.                                         *)
Init ==
  /\ content    = [f \in Files |-> "absent"]
  /\ written    = [f \in Files |-> 0]
  /\ alive      \in BOOLEAN
  /\ queue      = {}
  /\ known      = {}
  /\ polling    = FALSE
  /\ todo       = {}
  /\ announced  = FALSE
  /\ attempt    = 0
  /\ remember   = {}
  /\ connection = "ok"
  /\ rows       = {}
  /\ events     = [f \in Files |-> 0]
  /\ missed     = {}
  /\ faults     = 0

Unserved == {f \in Files : content[f] = "unserved"}
Present  == {f \in Files : content[f] # "absent"}

(* The paths that a poll will not find, with the observer as it is or not. *)
Unfound(watching, queued) ==
  {f \in Unserved : IF watching THEN f \notin queued ELSE f \in known}

(* The paths in S are given up.                                            *)
Miss(S) == missed' = missed \cup (S \cap Unfound(alive, queue))

----------------------------------------------------------------------------
(* The mount and watchdog's thread.                                        *)

TotalWrites == {w \in Files \X (1 .. MaxWrites) : w[2] <= written[w[1]]}

(* A file is created or modified.  The thread may not notice ("unnoticed": *)
(* another client of the file server wrote it, or it was moved into place, *)
(* for which there is no on_moved), and the tree diff does not find a file *)
(* that is known, or about to be.                                          *)
Write(f) ==
  /\ Cardinality(TotalWrites) < MaxWrites
  /\ content' = [content EXCEPT ![f] = "unserved"]
  /\ written' = [written EXCEPT ![f] = @ + 1]
  /\ \/ alive /\ queue' = queue \cup {f} /\ missed' = missed \ {f} /\ UNCHANGED faults
     \/ /\ alive
        /\ Fault("unnoticed")
        /\ missed' = IF f \in queue \cup todo THEN missed \ {f} ELSE missed \cup {f}
        /\ UNCHANGED queue
     \/ /\ ~alive
        /\ missed' = IF f \in (known \cup remember) \ todo THEN missed \cup {f} ELSE missed \ {f}
        /\ UNCHANGED <<queue, faults>>
  /\ UNCHANGED <<alive, known, pollVars, connection, rows, events>>

Delete(f) ==
  /\ f \in Present
  /\ content' = [content EXCEPT ![f] = "absent"]
  /\ missed'  = missed \ {f}
  /\ UNCHANGED <<written, watchVars, known, pollVars, connection, rows, events, faults>>

(* The thread ends.  What it has queued is never drained: nobody starts it *)
(* again, and the tree diff does not look at known files.                  *)
ObserverDies ==
  /\ alive
  /\ Fault("observer")
  /\ alive'  = FALSE
  /\ missed' = missed \cup ((queue \cap Unserved \cap (known \cup remember)) \ todo)
  /\ UNCHANGED <<content, written, queue, known, pollVars, connection, rows, events>>

----------------------------------------------------------------------------
(* poll().                                                                 *)

(* Wrong: files that are known already are not looked at again.            *)
StartPollSkipsKnown ==
  /\ ~polling
  /\ polling'   = TRUE
  /\ announced' = FALSE
  /\ \/ alive /\ todo' = queue \ known /\ queue' = {}
     \/ ~alive /\ todo' = Present \ known /\ UNCHANGED queue
  /\ UNCHANGED <<content, written, alive, known, attempt, remember, connection, rows, events,
                 missed, faults>>

StartPoll ==
  /\ ~polling
  /\ polling'   = TRUE
  /\ announced' = FALSE
  /\ \/ alive /\ todo' = queue /\ queue' = {}
     \/ ~alive /\ todo' = Present \ known /\ UNCHANGED queue
  /\ UNCHANGED <<content, written, alive, known, attempt, remember, connection, rows, events,
                 missed, faults>>

IsNext(f) == remember = {} /\ f \in todo /\ \A g \in todo : f <= g

Done(f) == todo' = todo \ {f} /\ announced' = FALSE /\ attempt' = 0

(* _make_event finds no file: it is gone, or the mount is ("mount"), for   *)
(* which os.path.isfile raises nothing.                                    *)
Vanished(f) ==
  /\ IsNext(f)
  /\ ~announced
  /\ \/ content[f] = "absent" /\ UNCHANGED <<missed, faults>>
     \/ Fault("mount") /\ Miss({f})
  /\ Done(f)
  /\ UNCHANGED <<content, written, watchVars, known, polling, remember, connection, rows,
                 events>>

Announce(f) ==
  /\ IsNext(f)
  /\ ~announced
  /\ content[f] # "absent"
  /\ connection = "ok"
  /\ rows' = rows \cup {f}
  /\ announced' = TRUE
  /\ UNCHANGED <<content, written, watchVars, known, polling, todo, attempt, remember,
                 connection, events, missed, faults>>

Served(f) == [content EXCEPT ![f] = IF @ = "absent" THEN @ ELSE "served"]

(* The broker gets a copy of the event.                                    *)
Copy(f) ==
  /\ events'  = [events EXCEPT ![f] = @ + 1]
  /\ content' = Served(f)

(* An attempt of _publish_with_retry: the event is at the broker, or       *)
(* ("undelivered") flush(timeout) returned before it was and nobody looks. *)
Publish(f) ==
  /\ IsNext(f)
  /\ announced
  /\ \/ Copy(f) /\ missed' = missed \ {f} /\ UNCHANGED faults
     \/ /\ Fault("undelivered")
        /\ missed' = missed \cup ({f} \cap Unserved)
        /\ UNCHANGED <<events, content>>
  /\ remember' = {f}
  /\ Done(f)
  /\ UNCHANGED <<written, watchVars, known, polling, connection, rows>>

(* An attempt raises, at produce() or, a copy being queued that the broker *)
(* gets all the same or never, at flush().  The next one produces again;   *)
(* after the last the path is skipped.                                     *)
PublishFails(f) ==
  /\ IsNext(f)
  /\ announced
  /\ Fault("publish")
  /\ \/ Copy(f) /\ missed' = missed \ {f}
     \/ /\ UNCHANGED <<events, content>>
        /\ IF attempt + 1 = Attempts THEN Miss({f}) ELSE UNCHANGED missed
  /\ \/ attempt + 1 < Attempts /\ attempt' = attempt + 1 /\ UNCHANGED <<todo, announced>>
     \/ attempt + 1 = Attempts /\ Done(f)
  /\ UNCHANGED <<written, watchVars, known, polling, remember, connection, rows>>

Remember ==
  /\ remember # {}
  /\ known'    = known \cup remember
  /\ remember' = {}
  /\ UNCHANGED <<content, written, watchVars, polling, todo, announced, attempt, connection, rows,
                 events, missed, faults>>

EndPoll ==
  /\ polling
  /\ todo = {} /\ remember = {}
  /\ polling' = FALSE
  /\ UNCHANGED <<content, written, watchVars, known, todo, announced, attempt, remember,
                 connection, rows, events, missed, faults>>

----------------------------------------------------------------------------
(* main(): an exception ends the poll, and with it what it has drained.    *)

(* Wrong: the paths that were left are still there.                        *)
AbortKeepsTodo ==
  /\ polling'   = FALSE
  /\ announced' = FALSE
  /\ attempt'   = 0
  /\ remember'  = {}
  /\ UNCHANGED <<todo, missed>>

Abort ==
  /\ polling'   = FALSE
  /\ todo'      = {}
  /\ announced' = FALSE
  /\ attempt'   = 0
  /\ remember'  = {}
  /\ Miss(todo)

(* Redis does not take the path, or takes it and does not answer.          *)
RememberFails ==
  /\ remember # {}
  /\ Fault("redis")
  /\ known' \in {known, known \cup remember}
  /\ Abort
  /\ UNCHANGED <<content, written, watchVars, connection, rows, events>>

(* A status write is about to be made.                                     *)
Writes(f) == IsNext(f) /\ ~announced /\ content[f] # "absent"

(* The server is gone: an OperationalError, main() opens a connection.     *)
ConnectionLost(f) ==
  /\ Writes(f)
  /\ connection = "ok"
  /\ Fault("database")
  /\ \E c \in {"ok", "lost"} : connection' = c
  /\ Abort
  /\ UNCHANGED <<content, written, watchVars, known, rows, events>>

(* Wrong: the connection main() opens is not given to the connector.       *)
ReconnectForgotten(f) ==
  /\ Writes(f)
  /\ connection = "lost"
  /\ Abort
  /\ UNCHANGED <<content, written, watchVars, known, connection, rows, events, faults>>

(* It could not be opened then: the next write finds the closed one, an    *)
(* InterfaceError, and main() tries again.                                 *)
Reconnect(f) ==
  /\ Writes(f)
  /\ connection = "lost"
  /\ connection' = "ok"
  /\ Abort
  /\ UNCHANGED <<content, written, watchVars, known, rows, events, faults>>

(* The statement is refused, and nobody rolls back: every later one on     *)
(* this connection raises InternalError, for which main() only backs off.  *)
StatementRefused(f) ==
  /\ Writes(f)
  /\ \/ connection = "ok" /\ Fault("statement")
     \/ connection = "aborted" /\ UNCHANGED faults
  /\ connection' = "aborted"
  /\ Abort
  /\ UNCHANGED <<content, written, watchVars, known, rows, events>>

(* The pod dies and comes back with an empty queue; a file that was there  *)
(* before the new observer raises no event.                                *)
Restart ==
  /\ Fault("crash")
  /\ polling' = FALSE /\ todo' = {} /\ announced' = FALSE /\ attempt' = 0 /\ remember' = {}
  /\ alive' \in BOOLEAN
  /\ queue' = {}
  /\ connection' = "ok"
  /\ missed' = missed \cup Unfound(alive', queue')
  /\ UNCHANGED <<content, written, known, rows, events>>

Poll ==
  \/ StartPoll \/ Remember \/ RememberFails \/ EndPoll
  \/ \E f \in todo :
       \/ Vanished(f) \/ Announce(f) \/ Publish(f) \/ PublishFails(f)
       \/ ConnectionLost(f) \/ Reconnect(f) \/ StatementRefused(f)

Next == Poll \/ ObserverDies \/ Restart \/ \E f \in Files : Write(f) \/ Delete(f)

Spec == Init /\ [][Next]_vars

----------------------------------------------------------------------------
(* Safety.                                                                 *)

(* A file that has changed since its last event is in the queue of a       *)
(* living observer, in the hands of the poll, or in the difference that    *)
(* the next poll will find, whatever the thread and the poll do at the     *)
(* same time; if not, a failure has lost it (missed).                      *)
NoneForgotten ==
  \A f \in Unserved :
    \/ f \in todo
    \/ alive /\ f \in queue
    \/ ~alive /\ f \notin known
    \/ f \in missed

(* A file has at most one event for each time that it was written and one  *)
(* for each failure, an attempt to publish it that raised being one.       *)
DuplicatesNeedFaults == \A f \in Files : events[f] <= written[f] + faults

(* When an event is out, the row that the embedding worker will update     *)
(* exists.                                                                 *)
PublishedAnnounced == \A f \in Files : events[f] > 0 => f \in rows

(* What the topic, the known files and the table say of the mount, taken   *)
(* together: no changed file is out of sight, no event without a cause,    *)
(* and none before its row (connector.py:119, 124, 139).                   *)
EventsFollowFiles == NoneForgotten /\ DuplicatesNeedFaults /\ PublishedAnnounced

----------------------------------------------------------------------------
(* Liveness.  main() polls for ever; nothing is assumed of the mount.      *)

Fairness == WF_vars(Poll)

FairSpec == Spec /\ Fairness

(* A file that stays gets an event, in either mode, although lost          *)
(* connections and a dying observer come first, unless a failure has lost  *)
(* it or has left the connection in an aborted transaction.                *)
EveryFileServed ==
  \A f \in Files :
    content[f] = "unserved" ~> content[f] # "unserved" \/ f \in missed \/ connection = "aborted"

=============================================================================
