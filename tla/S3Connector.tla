------------------------------ MODULE S3Connector ------------------------------
(***************************************************************************)
(* The S3 connector (src/services/connector-s3): it polls a bucket for     *)
(* objects modified after its watermark, announces each in                 *)
(* source_file_status, publishes an event for it on raw-documents and, at  *)
(* the end of the poll, moves the watermark to the latest modification it  *)
(* has published.                                                          *)
(*                                                                         *)
(* The bucket changes under the listing, which arrives in pages.  Redis,   *)
(* PostgreSQL, Kafka and the pod fail.                                     *)
(***************************************************************************)
EXTENDS Naturals, FiniteSets, Faults

CONSTANTS
  Objects,      (* the names a bucket may hold, numbers in listing order   *)
  Allowed,      (* those whose content type is in cfg.file_types           *)
  PageSize,     (* how many names a page of list_objects holds             *)
  Attempts,     (* _KAFKA_MAX_RETRIES                                      *)
  MaxTime       (* bound: the bucket changes at most at times 1 .. MaxTime *)

ASSUME ConnectorAssumption ==
  /\ Objects \subseteq Nat \ {0}
  /\ IsFiniteSet(Objects)
  /\ Allowed \subseteq Objects
  /\ PageSize \in Nat \ {0}
  /\ Attempts \in Nat \ {0}
  /\ MaxTime \in Nat

VARIABLES
  bucket,       (* last_modified of every object, 0 for one that is absent *)
  clock,        (* the time of the latest change of the bucket             *)
  watermark,    (* in Redis: last_seen, 0 for none                         *)
  polling,      (* is poll() under way?                                    *)
  seen,         (* poll: the watermark it started from                     *)
  newWatermark, (* poll: the watermark it will set                         *)
  page,         (* poll: what is left of the page it iterates over         *)
  marker,       (* poll: the last name listed                              *)
  more,         (* poll: are there pages to come?                          *)
  announced,    (* poll: is the object at hand written to the table?       *)
  attempt,      (* poll: how many attempts to publish it have raised       *)
  connection,   (* the PostgreSQL connection                               *)
  status,       (* ingest_status of every object, "none" without a row     *)
  published,    (* raw-documents: how many events each version has had     *)
  missed        (* history: the versions a poll may pass without an event  *)

pollVars == <<polling, seen, newWatermark, page, marker, more, announced, attempt>>
vars     == <<bucket, clock, watermark, pollVars, connection, status, published, missed, faults>>

Times   == 0 .. MaxTime
Listed  == [name : Objects, modified : Times \ {0}]

TypeOK ==
  /\ bucket       \in [Objects -> Times]
  /\ clock        \in Times
  /\ watermark    \in Times
  /\ polling      \in BOOLEAN
  /\ seen         \in Times
  /\ newWatermark \in Times
  /\ page         \in SUBSET Listed
  /\ marker       \in Objects \cup {0}
  /\ more         \in BOOLEAN
  /\ announced    \in BOOLEAN
  /\ attempt      \in 0 .. Attempts - 1
  /\ connection   \in {"ok", "lost", "aborted"}
  /\ status       \in [Objects -> {"none", "pending", "error"}]
  /\ published    \in [Objects -> [Times -> Nat]]
  /\ missed       \in SUBSET Listed
  /\ faults       \in 0 .. MaxFaults

Init ==
  /\ bucket       = [o \in Objects |-> 0]
  /\ clock        = 0
  /\ watermark    = 0
  /\ polling      = FALSE
  /\ seen         = 0
  /\ newWatermark = 0
  /\ page         = {}
  /\ marker       = 0
  /\ more         = FALSE
  /\ announced    = FALSE
  /\ attempt      = 0
  /\ connection   = "ok"
  /\ status       = [o \in Objects |-> "none"]
  /\ published    = [o \in Objects |-> [t \in Times |-> 0]]
  /\ missed       = {}
  /\ faults       = 0

----------------------------------------------------------------------------
(* The bucket.                                                             *)

(* The listing under way will not come to name o (any more).               *)
Behind(o) == polling /\ (o <= marker \/ ~more)

(* An object is written, for the first time or again; with "tie", at the   *)
(* time of the write before it.  A poll may miss it if it writes behind    *)
(* the listing while that will find later writes, or at a time that the    *)
(* watermark covers or the listing may have seen already.                  *)
Upload(o) ==
  /\ \/ /\ clock < MaxTime
        /\ clock' = clock + 1
        /\ missed' = missed \cup IF Behind(o) /\ more
                                THEN {[name |-> o, modified |-> clock']} ELSE {}
        /\ UNCHANGED faults
     \/ /\ clock > 0
        /\ Fault("tie")
        /\ missed' = missed \cup IF Behind(o) \/ clock <= watermark
                                THEN {[name |-> o, modified |-> clock]} ELSE {}
        /\ UNCHANGED clock
  /\ bucket' = [bucket EXCEPT ![o] = clock']
  /\ UNCHANGED <<watermark, pollVars, connection, status, published>>

----------------------------------------------------------------------------
(* poll().                                                                 *)

StartPoll ==
  /\ ~polling
  /\ polling'      = TRUE
  /\ seen'         = watermark
  /\ newWatermark' = watermark
  /\ page'         = {}
  /\ marker'       = 0
  /\ more'         = TRUE
  /\ announced'    = FALSE
  /\ attempt'      = 0
  /\ UNCHANGED <<bucket, clock, watermark, connection, status, published, missed, faults>>

(* list_objects is lazy: the bucket is read when the page before is used up. *)
NextPage ==
  LET rest  == {o \in Objects : o > marker /\ bucket[o] # 0}
      first == {o \in rest : Cardinality({q \in rest : q < o}) < PageSize}
  IN  /\ polling
      /\ more
      /\ page = {}
      /\ page'   = {[name |-> o, modified |-> bucket[o]] : o \in first}
      /\ marker' = IF first = {} THEN marker ELSE CHOOSE o \in first : \A q \in first : q <= o
      /\ more'   = (first # rest)
      /\ UNCHANGED <<bucket, clock, watermark, polling, seen, newWatermark, announced, attempt,
                     connection, status, published, missed, faults>>

IsNext(x) == polling /\ x \in page /\ \A y \in page : x.name <= y.name

Done(x) == page' = page \ {x} /\ announced' = FALSE /\ attempt' = 0

(* Not newer than the watermark the poll started from.                     *)
Skip(x) ==
  /\ IsNext(x)
  /\ x.modified <= seen
  /\ Done(x)
  /\ UNCHANGED <<bucket, clock, watermark, polling, seen, newWatermark, marker, more,
                 connection, status, published, missed, faults>>

(* Its content type is not in the allowlist: marked as an error, skipped.  *)
Reject(x) ==
  /\ IsNext(x)
  /\ x.modified > seen
  /\ x.name \notin Allowed
  /\ connection = "ok"
  /\ status' = [status EXCEPT ![x.name] = "error"]
  /\ Done(x)
  /\ UNCHANGED <<bucket, clock, watermark, polling, seen, newWatermark, marker, more,
                 connection, published, missed, faults>>

(* Wrong: a status the table does not know.                                *)
AnnounceIndexing(x) ==
  /\ IsNext(x)
  /\ x.modified > seen
  /\ x.name \in Allowed
  /\ ~announced
  /\ connection = "ok"
  /\ status' = [status EXCEPT ![x.name] = "indexing"]
  /\ announced' = TRUE
  /\ UNCHANGED <<bucket, clock, watermark, polling, seen, newWatermark, page, marker, more,
                 attempt, connection, published, missed, faults>>

Announce(x) ==
  /\ IsNext(x)
  /\ x.modified > seen
  /\ x.name \in Allowed
  /\ ~announced
  /\ connection = "ok"
  /\ status' = [status EXCEPT ![x.name] = "pending"]
  /\ announced' = TRUE
  /\ UNCHANGED <<bucket, clock, watermark, polling, seen, newWatermark, page, marker, more,
                 attempt, connection, published, missed, faults>>

AtPublish(x) == IsNext(x) /\ announced

(* The broker gets a copy of the event.                                    *)
Copy(x) == published' = [published EXCEPT ![x.name][x.modified] = @ + 1]

(* An attempt of _publish_with_retry: the broker has the event, or         *)
(* ("undelivered") flush(timeout) returned before it had and the connector *)
(* does not look.                                                          *)
Publish(x) ==
  /\ AtPublish(x)
  /\ \/ Copy(x) /\ UNCHANGED <<missed, faults>>
     \/ /\ Fault("undelivered")
        /\ missed' = missed \cup {x}
        /\ UNCHANGED published
  /\ newWatermark' = IF x.modified > newWatermark THEN x.modified ELSE newWatermark
  /\ Done(x)
  /\ UNCHANGED <<bucket, clock, watermark, polling, seen, marker, more, connection, status>>

(* An attempt raises, at produce() or, a copy being queued that the broker *)
(* gets all the same or never, at flush().  The next one produces again;   *)
(* after the last the object is skipped.                                   *)
PublishFails(x) ==
  /\ AtPublish(x)
  /\ Fault("publish")
  /\ Copy(x) \/ UNCHANGED published
  /\ \/ /\ attempt + 1 < Attempts
        /\ attempt' = attempt + 1
        /\ UNCHANGED <<page, announced, missed>>
     \/ /\ attempt + 1 = Attempts
        /\ missed' = IF published'[x.name][x.modified] > 0 THEN missed ELSE missed \cup {x}
        /\ Done(x)
  /\ UNCHANGED <<bucket, clock, watermark, polling, seen, newWatermark, marker, more,
                 connection, status>>

(* Wrong: the watermark is the time of the poll.                           *)
EndPollNow ==
  /\ polling
  /\ ~more
  /\ page = {}
  /\ polling'   = FALSE
  /\ watermark' = clock
  /\ UNCHANGED <<bucket, clock, seen, newWatermark, page, marker, more, announced,
                 attempt, connection, status, published, missed, faults>>

EndPoll ==
  /\ polling
  /\ ~more
  /\ page = {}
  /\ polling'   = FALSE
  /\ watermark' = newWatermark
  /\ UNCHANGED <<bucket, clock, seen, newWatermark, page, marker, more, announced,
                 attempt, connection, status, published, missed, faults>>

----------------------------------------------------------------------------
(* main(): an exception ends the poll, and the next one starts over.       *)

Abort ==
  /\ polling'   = FALSE
  /\ page'      = {}
  /\ announced' = FALSE
  /\ attempt'   = 0
  /\ UNCHANGED <<seen, newWatermark, marker, more>>

(* Listing the bucket or writing the watermark raises, or the pod dies and *)
(* comes back with a new connection.                                       *)
PollFails ==
  /\ polling
  /\ \/ Fault("storage") /\ UNCHANGED connection
     \/ Fault("crash") /\ connection' = "ok"
  /\ Abort
  /\ UNCHANGED <<bucket, clock, watermark, status, published, missed>>

(* A status write is about to be made, and raises.                         *)
Writes(x) == IsNext(x) /\ x.modified > seen /\ ~announced

(* The server is gone: an OperationalError, main() opens a connection.     *)
ConnectionLost(x) ==
  /\ Writes(x)
  /\ connection = "ok"
  /\ Fault("database")
  /\ \E c \in {"ok", "lost"} : connection' = c
  /\ Abort
  /\ UNCHANGED <<bucket, clock, watermark, status, published, missed>>

(* Wrong: the connection main() opens is not given to the connector.       *)
ReconnectForgotten(x) ==
  /\ Writes(x)
  /\ connection = "lost"
  /\ Abort
  /\ UNCHANGED <<bucket, clock, watermark, connection, status, published, missed, faults>>

(* It could not be opened then: the next write finds the closed one, an    *)
(* InterfaceError, and main() tries again.                                 *)
Reconnect(x) ==
  /\ Writes(x)
  /\ connection = "lost"
  /\ connection' = "ok"
  /\ Abort
  /\ UNCHANGED <<bucket, clock, watermark, status, published, missed, faults>>

(* The statement is refused.  Nobody rolls back: every later statement on  *)
(* this connection raises InternalError, for which main() only backs off.  *)
StatementRefused(x) ==
  /\ Writes(x)
  /\ \/ connection = "ok" /\ Fault("statement")
     \/ connection = "aborted" /\ UNCHANGED faults
  /\ connection' = "aborted"
  /\ Abort
  /\ UNCHANGED <<bucket, clock, watermark, status, published, missed>>

Poll ==
  \/ StartPoll \/ NextPage \/ EndPoll
  \/ \E x \in page :
       \/ Skip(x) \/ Reject(x) \/ Announce(x)
       \/ Publish(x) \/ PublishFails(x)
       \/ ConnectionLost(x) \/ Reconnect(x) \/ StatementRefused(x)

Next == Poll \/ PollFails \/ \E o \in Objects : Upload(o)

Spec == Init /\ [][Next]_vars

----------------------------------------------------------------------------
(* Safety.                                                                 *)

(* The watermark covers no version of an object without an event, except   *)
(* the ones whose publication failed, whose event was not delivered in     *)
(* time, that were written behind the listing, or at the very time of the  *)
(* watermark.  A file that is covered without an event is never looked at  *)
(* again.                                                                  *)
WatermarkCovers ==
  \A o \in Allowed :
    bucket[o] # 0 /\ bucket[o] <= watermark =>
      published[o][bucket[o]] > 0 \/ [name |-> o, modified |-> bucket[o]] \in missed

(* Of a version there is one event, and one more at most for each attempt  *)
(* that raised and each poll that failed after it had published it,        *)
(* although an attempt that raises may leave a copy behind.                *)
DuplicatesNeedFaults ==
  \A o \in Objects : \A t \in Times : published[o][t] <= 1 + faults

(* When an event is out, the row that the document processor and the       *)
(* embedding worker will update exists, and no file that is not allowed    *)
(* has an event.                                                           *)
PublishedAnnounced ==
  \A o \in Objects : \A t \in Times :
    published[o][t] > 0 => status[o] = "pending" /\ o \in Allowed

(* What the topic, the watermark and the table say of the bucket, taken    *)
(* together: every version the watermark covers has its event, no more     *)
(* events than faults explain, and a row before its first one              *)
(* (connector.py:88, 115, 127).                                            *)
EventsFollowVersions == WatermarkCovers /\ DuplicatesNeedFaults /\ PublishedAnnounced

----------------------------------------------------------------------------
(* Liveness.  main() polls for ever; nothing is assumed of the bucket.     *)

Fairness == WF_vars(Poll)

FairSpec == Spec /\ Fairness

(* An object that stays as it is gets an event, unless a poll misses it    *)
(* (see WatermarkCovers) or a refused statement has left the connection in *)
(* an aborted transaction, from which main() never recovers.               *)
EveryVersionPublished ==
  \A o \in Allowed : \A t \in Times \ {0} :
    bucket[o] = t ~> \/ published[o][t] > 0 \/ bucket[o] # t
                     \/ [name |-> o, modified |-> t] \in missed
                     \/ connection = "aborted"

=============================================================================
