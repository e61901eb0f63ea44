-------------------------------- MODULE RagQuery --------------------------------
(***************************************************************************)
(* Queries of the RAG API (src/services/rag-api): look for the answer in   *)
(* Redis, else embed the question, search the tenant's collection through  *)
(* the circuit breaker and store the answer for a while.                   *)
(*                                                                         *)
(* A pod serves one query at a time: query_endpoint is a coroutine that    *)
(* calls the synchronous query() and so holds the event loop.  Pods share  *)
(* Redis and Milvus; each has a breaker of its own.  There is one pod, and *)
(* a second one while a new version is rolled out.                         *)
(*                                                                         *)
(* An answer is abstracted to what it was computed from: the question, the *)
(* tenant whose collection was searched, and the version of that           *)
(* collection, 0 if there was none.  The filter by min_score and the usage *)
(* and metadata events, whose failures are swallowed, are left out.        *)
(***************************************************************************)
EXTENDS Naturals, FiniteSets, Faults

CONSTANTS
  Pods,
  Tenants,
  Questions,       (* a text, a top_k and a source filter                   *)
  Threshold,       (* failure_threshold of the circuit breaker              *)
  MaxVersion       (* bound: how often a collection is written              *)

ASSUME RagAssumption ==
  /\ Threshold \in Nat \ {0}
  /\ MaxVersion \in Nat

Versions == 0 .. MaxVersion
Answers  == [tenant : Tenants, question : Questions, version : Versions]
Keys     == Tenants \X Questions

(* A query under way, its answer included once it has been computed.       *)
Calls == [at : {"get", "search"}, tenant : Tenants, question : Questions,
          cacheAvailable : BOOLEAN]
         \cup [at : {"store"}, tenant : Tenants, question : Questions,
               cacheAvailable : BOOLEAN, version : Versions]
Idle  == [at |-> "idle"]

VARIABLES
  collection,      (* Milvus: the version of a tenant's collection          *)
  cache,           (* Redis: {} or the one answer of a key                  *)
  call,            (* the query a pod serves, or Idle                       *)
  failureCount,    (* breaker: _failure_count                               *)
  state,           (* breaker: _state                                       *)
  rested,          (* breaker: recovery_timeout has passed since _opened_at *)
  streak,          (* history: searches of a pod that failed in a row       *)
  served,          (* history: the newest version a key's answer had        *)
  excused          (* history: keys whose answer may be older than a former *)

breakerVars == <<failureCount, state, rested, streak>>
storeVars   == <<collection, cache>>
vars == <<storeVars, call, breakerVars, served, excused, faults>>

TypeOK ==
  /\ collection \in [Tenants -> Versions]
  /\ cache \in [Keys -> {{}} \cup {{a} : a \in Answers}]
  /\ call \in [Pods -> Calls \cup {Idle}]
  /\ failureCount \in [Pods -> Nat]
  /\ state \in [Pods -> {"closed", "open", "half_open"}]
  /\ rested \in [Pods -> BOOLEAN]
  /\ streak \in [Pods -> Nat]
  /\ served \in [Keys -> Versions]
  /\ excused \subseteq Keys
  /\ faults \in 0 .. MaxFaults

Init ==
  /\ collection = [t \in Tenants |-> 0]
  /\ cache = [k \in Keys |-> {}]
  /\ call = [p \in Pods |-> Idle]
  /\ failureCount = [p \in Pods |-> 0]
  /\ state = [p \in Pods |-> "closed"]
  /\ rested = [p \in Pods |-> TRUE]
  /\ streak = [p \in Pods |-> 0]
  /\ served = [k \in Keys |-> 0]
  /\ excused = {}
  /\ faults = 0

At(p, place) == call[p].at = place

(* Wrong: the request outlives its query.                                  *)
StaysBound(p) == call' = [call EXCEPT ![p].at = "idle"]

Return(p) == call' = [call EXCEPT ![p] = Idle]

(* _make_cache_key                                                         *)
CacheKey(t, q) == <<t, q>>

Key(p) == CacheKey(call[p].tenant, call[p].question)

Computes(p, k) == call[p].at \in {"search", "store"} /\ Key(p) = k

(* The caller gets an answer of this version.                              *)
Serve(p, version) ==
  /\ Return(p)
  /\ served' = [served EXCEPT ![Key(p)] = IF version > @ THEN version ELSE @]

(***************************************************************************)
(* query()                                                                 *)
(***************************************************************************)
Ask(p, t, q) ==
  /\ At(p, "idle")
  /\ call' = [call EXCEPT ![p] = [at |-> "get", tenant |-> t, question |-> q,
                                  cacheAvailable |-> TRUE]]
  /\ UNCHANGED <<storeVars, breakerVars, served, excused, faults>>

Hit(p) ==
  /\ At(p, "get")
  /\ \E a \in cache[Key(p)] : Serve(p, a.version)
  /\ UNCHANGED <<storeVars, breakerVars, excused, faults>>

(* The answer has to be computed.  Pods that compute the answer of one key *)
(* at the same time may store it in any order.                             *)
Compute(p, available) ==
  /\ call' = [call EXCEPT ![p].at = "search", ![p].cacheAvailable = available]
  /\ excused' = excused \cup {k \in {Key(p)} : \E q \in Pods \ {p} : Computes(q, k)}
  /\ UNCHANGED <<storeVars, breakerVars, served>>

(* Wrong: what the cache holds is not used.                                *)
MissAlways(p) == At(p, "get") /\ Compute(p, TRUE) /\ UNCHANGED faults

Miss(p) ==
  /\ At(p, "get")
  /\ cache[Key(p)] = {}
  /\ Compute(p, TRUE)
  /\ UNCHANGED faults

(* Only Python's own ConnectionError is caught; the query goes on without  *)
(* the cache.                                                              *)
GetRefused(p) ==
  /\ At(p, "get")
  /\ Fault("connection")
  /\ Compute(p, FALSE)

(* redis.exceptions.ConnectionError and TimeoutError derive from           *)
(* RedisError and leave query(): the caller gets a 500.                    *)
GetFails(p) ==
  /\ At(p, "get")
  /\ Fault("redis")
  /\ Return(p)
  /\ UNCHANGED <<storeVars, breakerVars, served, excused>>

(* An embedding that fails leaves query() before the breaker is asked.     *)
EmbedFails(p) ==
  /\ At(p, "search")
  /\ Fault("embed")
  /\ Return(p)
  /\ UNCHANGED <<storeVars, breakerVars, served, excused>>

(***************************************************************************)
(* The circuit breaker.  Reading its state turns an open one half-open     *)
(* when its time has come.                                                 *)
(***************************************************************************)
(* Wrong: an open breaker stays open.                                      *)
StateForgetsTime(p) == state[p]

State(p) == IF state[p] = "open" /\ rested[p] THEN "half_open" ELSE state[p]

(* Wrong: the failures are still counted after the breaker has closed.     *)
ResetStateOnly(p) ==
  /\ state' = [state EXCEPT ![p] = "closed"]
  /\ rested' = [rested EXCEPT ![p] = TRUE]
  /\ UNCHANGED failureCount

Reset(p) ==
  /\ failureCount' = [failureCount EXCEPT ![p] = 0]
  /\ state' = [state EXCEPT ![p] = "closed"]
  /\ rested' = [rested EXCEPT ![p] = TRUE]

(* A query is refused without a search: 503.                               *)
Refuse(p) ==
  /\ At(p, "search")
  /\ State(p) = "open"
  /\ Return(p)
  /\ UNCHANGED <<storeVars, breakerVars, served, excused, faults>>

(* The tenant's collection is searched; without one there are no results.  *)
(* The success of a closed breaker leaves its count of failures as it is.  *)
Search(p) ==
  /\ At(p, "search")
  /\ State(p) # "open"
  /\ IF State(p) = "half_open" THEN Reset(p) ELSE UNCHANGED <<failureCount, state, rested>>
  /\ streak' = [streak EXCEPT ![p] = 0]
  /\ call' = [call EXCEPT ![p] =
       [at |-> "store", tenant |-> @.tenant, question |-> @.question,
        cacheAvailable |-> @.cacheAvailable, version |-> collection[@.tenant]]]
  /\ UNCHANGED <<storeVars, served, excused, faults>>

SearchFails(p) ==
  /\ At(p, "search")
  /\ State(p) # "open"
  /\ Fault("milvus")
  /\ failureCount' = [failureCount EXCEPT ![p] = @ + 1]
  /\ streak' = [streak EXCEPT ![p] = @ + 1]
  /\ rested' = [rested EXCEPT ![p] = FALSE]
  /\ state' = [state EXCEPT ![p] = IF failureCount'[p] >= Threshold THEN "open" ELSE State(p)]
  /\ Return(p)
  /\ UNCHANGED <<storeVars, served, excused>>

(***************************************************************************)
(* The answer is stored, and returned.                                     *)
(***************************************************************************)
(* SETEX replaces what another pod may have stored since this one looked.  *)
SetEx(p) ==
  cache' = [cache EXCEPT ![Key(p)] =
    {[tenant |-> call[p].tenant, question |-> call[p].question, version |-> call[p].version]}]

Store(p) ==
  /\ At(p, "store")
  /\ call[p].cacheAvailable
  /\ SetEx(p)
  /\ Serve(p, call[p].version)
  /\ UNCHANGED <<collection, breakerVars, excused, faults>>

(* SETEX fails, whether Redis has carried it out or not.                   *)
StoreRefused(p) ==
  /\ At(p, "store")
  /\ call[p].cacheAvailable
  /\ Fault("connection")
  /\ SetEx(p) \/ UNCHANGED cache
  /\ Serve(p, call[p].version)
  /\ UNCHANGED <<collection, breakerVars, excused>>

(* Redis was gone at the GET: the answer is not stored, and what was in    *)
(* the cache all the time may be older.                                    *)
SkipStore(p) ==
  /\ At(p, "store")
  /\ ~ call[p].cacheAvailable
  /\ Serve(p, call[p].version)
  /\ excused' = excused \cup {Key(p)}
  /\ UNCHANGED <<storeVars, breakerVars, faults>>

(* The answer has been found, and the caller gets a 500 all the same.      *)
StoreFails(p) ==
  /\ At(p, "store")
  /\ call[p].cacheAvailable
  /\ Fault("redis")
  /\ SetEx(p) \/ UNCHANGED cache
  /\ Return(p)
  /\ UNCHANGED <<collection, breakerVars, served, excused>>

(* /v1/health reads the breaker's state, and so may change it.             *)
Health(p) ==
  /\ At(p, "idle")
  /\ state' = [state EXCEPT ![p] = State(p)]
  /\ UNCHANGED <<storeVars, call, failureCount, rested, streak, served, excused, faults>>

(***************************************************************************)
(* The world: the embedding worker writes a collection, Redis drops a key  *)
(* whose TTL has passed, time passes, a pod is replaced.                   *)
(***************************************************************************)
Write(t) ==
  /\ collection[t] < MaxVersion
  /\ collection' = [collection EXCEPT ![t] = @ + 1]
  /\ UNCHANGED <<cache, call, breakerVars, served, excused, faults>>

Expire(k) ==
  /\ cache[k] # {}
  /\ cache' = [cache EXCEPT ![k] = {}]
  /\ excused' = excused \ {j \in {k} : \A p \in Pods : ~ Computes(p, j)}
  /\ UNCHANGED <<collection, call, breakerVars, served, faults>>

RecoveryElapses(p) ==
  /\ ~ rested[p]
  /\ rested' = [rested EXCEPT ![p] = TRUE]
  /\ UNCHANGED <<storeVars, call, failureCount, state, streak, served, excused, faults>>

Restart(p) ==
  /\ Fault("crash")
  /\ Return(p)
  /\ Reset(p)
  /\ streak' = [streak EXCEPT ![p] = 0]
  /\ UNCHANGED <<storeVars, served, excused>>

Query(p) ==
  \/ \E t \in Tenants, q \in Questions : Ask(p, t, q)
  \/ Hit(p) \/ Miss(p) \/ GetRefused(p) \/ GetFails(p)
  \/ EmbedFails(p) \/ Refuse(p) \/ Search(p) \/ SearchFails(p)
  \/ Store(p) \/ StoreRefused(p) \/ SkipStore(p) \/ StoreFails(p)

Next ==
  \/ \E p \in Pods : Query(p) \/ Health(p) \/ RecoveryElapses(p) \/ Restart(p)
  \/ \E t \in Tenants : Write(t)
  \/ \E k \in Keys : Expire(k)

Spec == Init /\ [][Next]_vars

(* The clock runs.                                                         *)
FairSpec == Spec /\ \A p \in Pods : WF_vars(RecoveryElapses(p))

(***************************************************************************)
(* Properties                                                              *)
(***************************************************************************)
(* What is cached under a key answers that key's question from that key's  *)
(* tenant's collection, and is no older than an answer already given to    *)
(* the question, unless several pods computed it at once or Redis was      *)
(* away at the GET; and then only until the key expires (app.py:67).       *)
CacheSound ==
  \A k \in Keys : \A a \in cache[k] :
    /\ <<a.tenant, a.question>> = k
    /\ a.version < served[k] => k \in excused

(* A breaker refuses or probes exactly while Threshold failures have been  *)
(* counted since its last good probe, and it counts every failure in a row *)
(* (circuit_breaker.py:46).  It counts others as well: see below.          *)
BreakerTrips ==
  \A p \in Pods :
    /\ state[p] # "closed" <=> failureCount[p] >= Threshold
    /\ streak[p] <= failureCount[p]

(* What the code says when it opens the breaker, "opened after %d           *)
(* consecutive failures": only failures in a row have opened it            *)
(* (circuit_breaker.py:51).  A success of the closed breaker leaves the    *)
(* count as it is, so that failures far apart open it too.                 *)
OpensOnConsecutiveFailures ==
  \A p \in Pods : state[p] = "open" => streak[p] >= Threshold

(* Once Milvus has stopped failing, a pod sooner or later refuses no query *)
(* any more (circuit_breaker.py:25).                                       *)
RefusalsEnd == \A p \in Pods : <>[](At(p, "search") => State(p) # "open")

=============================================================================
