------------------------------ MODULE QuotaService ------------------------------
(***************************************************************************)
(* The quota service (src/services/quota-service): check_quota and         *)
(* record_usage, for one metric of one tenant (the keys of different ones  *)
(* have nothing to do with each other).  The usage is a counter in Redis,  *)
(* which a check increments, compares with the limit and, if it is too     *)
(* high, decrements again.  Every Redis command is a step, and calls are   *)
(* served side by side: by the threads of the gRPC server and the HTTP     *)
(* server's, in one pod or in two.                                         *)
(*                                                                         *)
(* A check without increment and get_usage change nothing and are left     *)
(* out; so are checks of a tenant without a limit and, as then the service *)
(* takes the limit for none, checks while the database cannot be reached.  *)
(***************************************************************************)
EXTENDS Integers, FiniteSets, Functions, Faults

CONSTANTS
  Handlers,     (* the threads that serve calls                            *)
  Amounts,      (* the amounts callers ask for, 0 for the bff's get_usage  *)
  Limits,       (* the limits that tiers and overrides may set             *)
  Events,       (* the event ids of recorded usage                         *)
  MaxRecorded   (* bound: how much usage is recorded in a period           *)

ASSUME QuotaAssumption ==
  /\ IsFiniteSet(Handlers)
  /\ Amounts \subseteq Nat
  /\ Limits \subseteq Nat /\ Limits # {}
  /\ Events # {}
  /\ MaxRecorded \in Nat

VARIABLES
  counter,      (* Redis: quota:<tenant>:<metric>, 0 without a key         *)
  expiring,     (* does that key have a time to live?                      *)
  dedup,        (* Redis: the event ids with a key dedup:<event id>        *)
  limit,        (* PostgreSQL: the effective limit                         *)
  pc,           (* the next Redis command of each thread, or "idle"        *)
  amount,       (* the amount of its call                                  *)
  bound,        (* the limit that its check has read                       *)
  event,        (* the event id of its record_usage                        *)
  counted,      (* history: its increment is in the counter                *)
  admitted,     (* history: what checks have allowed in this period        *)
  recorded,     (* history: what record_usage has added in this period     *)
  leaked,       (* history: increments without an answer that counts       *)
  forgiven,     (* history: rollbacks of increments of an earlier period   *)
  times,        (* history: how often an event has been added              *)
  raced,        (* history: events with two calls under way at once        *)
  dropped       (* history: events whose call failed after their key was set *)

callVars    == <<pc, amount, bound, event, counted>>
periodVars  == <<admitted, recorded, leaked, forgiven>>
eventVars   == <<dedup, times, raced, dropped>>
quotaVars == <<counter, expiring, limit, callVars, periodVars, eventVars, faults>>

NoEvent == CHOOSE e \in Events : TRUE

Commands == {"idle", "incrby", "decrby", "setex", "add"}

(* Only a check that is refused has an increment to take back.             *)
CallTypeOK ==
  /\ pc      \in [Handlers -> Commands]
  /\ amount  \in [Handlers -> Nat]
  /\ bound   \in [Handlers -> Nat]
  /\ event   \in [Handlers -> Events]
  /\ counted \in [Handlers -> BOOLEAN]
  /\ \A h \in Handlers : counted[h] => pc[h] = "decrby"

QuotaTypeOK ==
  /\ CallTypeOK
  /\ counter  \in Int
  /\ expiring \in BOOLEAN
  /\ limit    \in Limits
  /\ {admitted, recorded, leaked, forgiven} \subseteq Nat
  /\ times    \in [Events -> Nat]
  /\ {dedup, raced, dropped} \subseteq SUBSET Events
  /\ faults   \in 0 .. MaxFaults

QuotaInit ==
  /\ counter  = 0
  /\ expiring = FALSE
  /\ dedup    = {}
  /\ limit    \in Limits
  /\ pc       = [h \in Handlers |-> "idle"]
  /\ amount   = [h \in Handlers |-> 0]
  /\ bound    = [h \in Handlers |-> 0]
  /\ event    = [h \in Handlers |-> NoEvent]
  /\ counted  = [h \in Handlers |-> FALSE]
  /\ admitted = 0 /\ recorded = 0 /\ leaked = 0 /\ forgiven = 0
  /\ times    = [e \in Events |-> 0]
  /\ raced    = {} /\ dropped = {}
  /\ faults   = 0

Call(h, command, a) ==
  /\ pc[h] = "idle"
  /\ pc'     = [pc EXCEPT ![h] = command]
  /\ amount' = [amount EXCEPT ![h] = a]

(* The calls of the threads H are over.                                    *)
End(H) ==
  /\ pc'      = [h \in Handlers |-> IF h \in H THEN "idle" ELSE pc[h]]
  /\ amount'  = [h \in Handlers |-> IF h \in H THEN 0 ELSE amount[h]]
  /\ bound'   = [h \in Handlers |-> IF h \in H THEN 0 ELSE bound[h]]
  /\ event'   = [h \in Handlers |-> IF h \in H THEN NoEvent ELSE event[h]]
  /\ counted' = [h \in Handlers |-> h \notin H /\ counted[h]]

Return(h) == End({h})

----------------------------------------------------------------------------
(* check_quota.                                                            *)

(* Wrong: a limit that is not set is taken for -1.                         *)
CheckQuotaNoLimit(h, a) ==
  /\ Call(h, "incrby", a)
  /\ bound' = [bound EXCEPT ![h] = -1]
  /\ UNCHANGED <<counter, expiring, limit, event, counted, periodVars, eventVars, faults>>

CheckQuota(h, a) ==
  /\ Call(h, "incrby", a)
  /\ bound' = [bound EXCEPT ![h] = limit]
  /\ UNCHANGED <<counter, expiring, limit, event, counted, periodVars, eventVars, faults>>

Allow(h) ==
  /\ admitted' = admitted + amount[h]
  /\ Return(h)

(* Wrong: the comparison leaves the amount of the call out.                *)
IncrByThenCompareBefore(h) ==
  /\ pc[h] = "incrby"
  /\ counter'  = counter + amount[h]
  /\ expiring' = TRUE
  /\ IF counter <= bound[h]
     THEN Allow(h)
     ELSE /\ pc'      = [pc EXCEPT ![h] = "decrby"]
          /\ counted' = [counted EXCEPT ![h] = TRUE]
          /\ UNCHANGED <<amount, bound, event, admitted>>
  /\ UNCHANGED <<limit, recorded, leaked, forgiven, eventVars, faults>>

(* INCRBY and EXPIRE are one transaction, and the result is compared.      *)
IncrBy(h) ==
  /\ pc[h] = "incrby"
  /\ counter'  = counter + amount[h]
  /\ expiring' = TRUE
  /\ IF counter' <= bound[h]
     THEN Allow(h)
     ELSE /\ pc'      = [pc EXCEPT ![h] = "decrby"]
          /\ counted' = [counted EXCEPT ![h] = TRUE]
          /\ UNCHANGED <<amount, bound, event, admitted>>
  /\ UNCHANGED <<limit, recorded, leaked, forgiven, eventVars, faults>>

(* Redis fails, before or after it has executed the transaction: the call  *)
(* is allowed without a check.                                             *)
IncrByFails(h) ==
  /\ pc[h] = "incrby"
  /\ Fault("redis")
  /\ \/ UNCHANGED <<counter, expiring, leaked>>
     \/ /\ counter'  = counter + amount[h]
        /\ expiring' = TRUE
        /\ leaked'   = leaked + amount[h]
  /\ Return(h)
  /\ UNCHANGED <<limit, admitted, recorded, forgiven, eventVars>>

(* The increment is taken back.  If the key has expired since, the counter *)
(* of the new period is lowered by an amount it never had.                 *)
TakeBack(h) ==
  /\ counter' = counter - amount[h]
  /\ forgiven' = IF counted[h] THEN forgiven ELSE forgiven + amount[h]

(* Wrong: one unit is taken back whatever the amount was.                  *)
DecrByOne(h) ==
  /\ pc[h] = "decrby"
  /\ counter'  = counter - 1
  /\ forgiven' = IF counted[h] THEN forgiven ELSE forgiven + 1
  /\ Return(h)
  /\ UNCHANGED <<expiring, limit, admitted, recorded, leaked, eventVars, faults>>

(* The call is denied.                                                     *)
DecrBy(h) ==
  /\ pc[h] = "decrby"
  /\ TakeBack(h)
  /\ Return(h)
  /\ UNCHANGED <<expiring, limit, admitted, recorded, leaked, eventVars, faults>>

(* Redis fails, and the call that was to be denied is allowed.             *)
DecrByFails(h) ==
  /\ pc[h] = "decrby"
  /\ Fault("redis")
  /\ \/ TakeBack(h) /\ UNCHANGED leaked
     \/ /\ leaked' = IF counted[h] THEN leaked + amount[h] ELSE leaked
        /\ UNCHANGED <<counter, forgiven>>
  /\ Return(h)
  /\ UNCHANGED <<expiring, limit, admitted, recorded, eventVars>>

----------------------------------------------------------------------------
(* record_usage.                                                           *)

(* Wrong: it is not looked whether the event has been seen.                *)
RecordUsageUnseen(h, e, a) ==
  /\ recorded < MaxRecorded
  /\ Call(h, "setex", a)
  /\ event' = [event EXCEPT ![h] = e]
  /\ UNCHANGED <<counter, expiring, limit, bound, counted, periodVars, eventVars, faults>>

(* Its key does not exist.  (If it does, the call is over.)                *)
RecordUsage(h, e, a) ==
  /\ recorded < MaxRecorded
  /\ e \notin dedup
  /\ Call(h, "setex", a)
  /\ event' = [event EXCEPT ![h] = e]
  /\ raced' = IF \E g \in Handlers : pc[g] = "setex" /\ event[g] = e THEN raced \cup {e} ELSE raced
  /\ UNCHANGED <<counter, expiring, limit, bound, counted, periodVars, dedup, times, dropped,
                 faults>>

SetEx(h) ==
  /\ pc[h] = "setex"
  /\ dedup' = dedup \cup {event[h]}
  /\ pc'    = [pc EXCEPT ![h] = "add"]
  /\ UNCHANGED <<counter, expiring, limit, amount, bound, event, counted, periodVars, times,
                 raced, dropped, faults>>

Added(h) ==
  /\ counter'  = counter + amount[h]
  /\ recorded' = recorded + amount[h]
  /\ times'    = [times EXCEPT ![event[h]] = @ + 1]

(* INCRBY without EXPIRE.                                                  *)
Add(h) ==
  /\ pc[h] = "add"
  /\ Added(h)
  /\ Return(h)
  /\ UNCHANGED <<expiring, limit, admitted, leaked, forgiven, dedup, raced, dropped, faults>>

(* Redis fails, before or after it has executed the command; the exception *)
(* goes to the caller.                                                     *)
RecordFails(h) ==
  /\ Fault("redis")
  /\ \/ /\ pc[h] = "setex"
        /\ \/ UNCHANGED <<dedup, dropped>>
           \/ dedup' = dedup \cup {event[h]} /\ dropped' = dropped \cup {event[h]}
        /\ UNCHANGED <<counter, recorded, times>>
     \/ /\ pc[h] = "add"
        /\ \/ Added(h) /\ UNCHANGED dropped
           \/ dropped' = dropped \cup {event[h]} /\ UNCHANGED <<counter, recorded, times>>
        /\ UNCHANGED dedup
  /\ Return(h)
  /\ UNCHANGED <<expiring, limit, admitted, leaked, forgiven, raced>>

----------------------------------------------------------------------------
(* The rest of the world.                                                  *)

(* The counter's time to live is over.  Every increment of a check sets it *)
(* to a minute at least: it ends before the decrement only for a thread    *)
(* that stands still so long.                                              *)
Expire ==
  /\ expiring
  /\ IF \E h \in Handlers : counted[h] THEN Fault("stall") ELSE UNCHANGED faults
  /\ expiring' = FALSE
  /\ counter'  = 0
  /\ counted'  = [h \in Handlers |-> FALSE]
  /\ admitted' = 0 /\ recorded' = 0 /\ leaked' = 0 /\ forgiven' = 0
  /\ UNCHANGED <<limit, pc, amount, bound, event, eventVars>>

(* So is that of an event id, a day later: by then no call has it.         *)
Forget(e) ==
  /\ e \in dedup
  /\ \A h \in Handlers : pc[h] \in {"setex", "add"} => event[h] # e
  /\ dedup'   = dedup \ {e}
  /\ times'   = [times EXCEPT ![e] = 0]
  /\ raced'   = raced \ {e}
  /\ dropped' = dropped \ {e}
  /\ UNCHANGED <<counter, expiring, limit, callVars, periodVars, faults>>

(* An administrator changes the tier or the override.                      *)
SetLimit(n) ==
  /\ n # limit
  /\ Fault("limit")
  /\ limit' = n
  /\ UNCHANGED <<counter, expiring, callVars, periodVars, eventVars>>

(* What the threads H are about to take back from this period.             *)
Pending     == [h \in Handlers |-> IF counted[h] THEN amount[h] ELSE 0]
InFlight(H) == SumFunctionOnSet(Pending, H)

(* A pod dies, and the calls that its threads H serve with it.             *)
Crash(H) ==
  /\ Fault("crash")
  /\ End(H)
  /\ leaked'  = leaked + InFlight(H)
  /\ dropped' = dropped \cup {event[h] : h \in {g \in H : pc[g] = "add"}}
  /\ UNCHANGED <<counter, expiring, limit, admitted, recorded, forgiven, dedup, times, raced>>

Serve(h) ==
  \/ IncrBy(h) \/ IncrByFails(h) \/ DecrBy(h) \/ DecrByFails(h)
  \/ SetEx(h) \/ Add(h) \/ RecordFails(h)

QuotaNext ==
  \/ \E h \in Handlers :
       \/ Serve(h)
       \/ \E a \in Amounts :
            CheckQuota(h, a) \/ \E e \in Events : RecordUsage(h, e, a)
  \/ Expire
  \/ \E H \in SUBSET Handlers : Crash(H)
  \/ \E e \in Events : Forget(e)
  \/ \E n \in Limits : SetLimit(n)

QuotaSpec == QuotaInit /\ [][QuotaNext]_quotaVars

----------------------------------------------------------------------------
(* Safety.                                                                 *)

(* A check that is allowed leaves what was allowed in the period within    *)
(* the limit that it read, whatever other checks add and take back         *)
(* meanwhile, unless a rollback of an earlier period has come late.        *)
AdmittedWithinLimit ==
  [][\A h \in Handlers :
       pc[h] = "incrby" /\ admitted' > admitted
         => admitted' <= bound[h] + forgiven \/ pc'[h] = "incrby"]_quotaVars

(* The counter is what was allowed and recorded in the period and what is  *)
(* about to be taken back, but for what a failure has left in it or taken  *)
(* out of it: a refused call leaves no trace.                              *)
CounterExplained ==
  counter = admitted + recorded + leaked + InFlight(Handlers) - forgiven

(* An event id is counted once within a day, unless two calls for it are   *)
(* between EXISTS and SETEX at the same time; and one that is taken for    *)
(* seen has been counted or is about to be, unless its call failed in      *)
(* between, which loses the usage: a retry finds the key                   *)
(* (quota_service.py:212).                                                 *)
EventsCounted ==
  \A e \in Events :
    /\ times[e] <= 1 \/ e \in raced
    /\ e \in dedup => \/ times[e] > 0
                      \/ e \in dropped
                      \/ \E h \in Handlers : pc[h] = "add" /\ event[h] = e

=============================================================================
