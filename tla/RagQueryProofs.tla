------------------------------ MODULE RagQueryProofs ------------------------------
(* Proofs about RagQuery for any pods, tenants, questions and faults: its  *)
(* types, what the circuit breaker counts, and what the cache holds.       *)
EXTENDS RagQuery, TLAPS

(* What the calls look like, as the steps of query() rely on it.           *)
LEMMA CallForm ==
  ASSUME TypeOK, NEW p \in Pods
  PROVE  /\ At(p, "get") \/ At(p, "search") =>
              call[p] \in [at : {"get", "search"}, tenant : Tenants, question : Questions,
                           cacheAvailable : BOOLEAN]
         /\ At(p, "store") =>
              call[p] \in [at : {"store"}, tenant : Tenants, question : Questions,
                           cacheAvailable : BOOLEAN, version : Versions]
         /\ call[p].at \in {"get", "search", "store"} => Key(p) \in Keys
  BY DEF TypeOK, At, Calls, Idle, Key, CacheKey, Keys

LEMMA ReturnTyped ==
  ASSUME TypeOK, NEW p \in Pods, Return(p)
  PROVE  call' \in [Pods -> Calls \cup {Idle}]
  BY DEF TypeOK, Return

LEMMA ServeTyped ==
  ASSUME TypeOK, NEW p \in Pods, Key(p) \in Keys, NEW v \in Versions, Serve(p, v)
  PROVE  call' \in [Pods -> Calls \cup {Idle}] /\ served' \in [Keys -> Versions]
  BY DEF TypeOK, Serve, Return

LEMMA ComputeTyped ==
  ASSUME TypeOK, NEW p \in Pods, NEW b \in BOOLEAN, At(p, "get"), Compute(p, b),
         faults' \in 0 .. MaxFaults
  PROVE  TypeOK'
  <1>1. call' \in [Pods -> Calls \cup {Idle}]
    <2> DEFINE c == [call[p] EXCEPT !.at = "search", !.cacheAvailable = b]
    <2>1. call[p] \in [at : {"get", "search"}, tenant : Tenants, question : Questions,
                       cacheAvailable : BOOLEAN]
      BY CallForm
    <2>2. c \in [at : {"get", "search"}, tenant : Tenants, question : Questions,
                 cacheAvailable : BOOLEAN]
      BY <2>1
    <2>3. call' = [call EXCEPT ![p] = c]
      BY DEF Compute
    <2> HIDE DEF c
    <2>4. c \in Calls
      BY <2>2 DEF Calls
    <2> QED  BY <2>3, <2>4 DEF TypeOK
  <1>2. excused' \subseteq Keys
    BY CallForm DEF TypeOK, Compute, At
  <1> QED  BY <1>1, <1>2 DEF TypeOK, Compute, storeVars, breakerVars

LEMMA FaultTyped ==
  ASSUME TypeOK, NEW kind, Fault(kind)
  PROVE  faults' \in 0 .. MaxFaults
  BY FaultAssumption DEF TypeOK, Fault

(* An answer is stored, and nothing about the breakers changes.            *)
LEMMA SetExTyped ==
  ASSUME TypeOK, NEW p \in Pods, At(p, "store"), SetEx(p) \/ UNCHANGED cache
  PROVE  cache' \in [Keys -> {{}} \cup {{a} : a \in Answers}]
  <1>1. Key(p) \in Keys /\ call[p].version \in Versions
        /\ call[p].tenant \in Tenants /\ call[p].question \in Questions
    BY CallForm DEF At
  <1>2. [tenant |-> call[p].tenant, question |-> call[p].question,
         version |-> call[p].version] \in Answers
    BY <1>1 DEF Answers
  <1> QED  BY <1>1, <1>2 DEF SetEx, TypeOK

LEMMA StateTyped ==
  ASSUME TypeOK, NEW p \in Pods
  PROVE  State(p) \in {"closed", "open", "half_open"}
  BY DEF TypeOK, State

(* The steps of query(), and the others.                                   *)
LEMMA QueryTyped ==
  ASSUME TypeOK, NEW p \in Pods, Query(p)
  PROVE  TypeOK'
  <1> USE DEF storeVars, breakerVars
  <1>1. ASSUME NEW t \in Tenants, NEW q \in Questions, Ask(p, t, q)  PROVE TypeOK'
    BY <1>1 DEF Ask, TypeOK, Calls
  <1>2. CASE Hit(p)
    <2>1. PICK a \in cache[Key(p)] : Serve(p, a.version)
      BY <1>2 DEF Hit
    <2>2. Key(p) \in Keys
      BY <1>2, CallForm DEF Hit, At
    <2>3. a.version \in Versions
      BY <2>2 DEF TypeOK, Answers
    <2> QED  BY <1>2, <2>1, <2>2, <2>3, ServeTyped DEF Hit, TypeOK
  <1>3. CASE Miss(p)
    BY <1>3, ComputeTyped DEF Miss, TypeOK
  <1>4. CASE GetRefused(p)
    BY <1>4, ComputeTyped, FaultTyped DEF GetRefused
  <1>5. CASE GetFails(p) \/ EmbedFails(p) \/ Refuse(p)
    BY <1>5, ReturnTyped, FaultTyped DEF GetFails, EmbedFails, Refuse, TypeOK
  <1>6. CASE Search(p)
    <2>1. call' \in [Pods -> Calls \cup {Idle}]
      BY <1>6, CallForm DEF Search, TypeOK, Calls
    <2>2. state' \in [Pods -> {"closed", "open", "half_open"}]
          /\ failureCount' \in [Pods -> Nat] /\ rested' \in [Pods -> BOOLEAN]
      <3>1. CASE Reset(p)
        BY <3>1 DEF TypeOK, Reset
      <3>2. CASE UNCHANGED <<failureCount, state, rested>>
        BY <3>2 DEF TypeOK
      <3> QED  BY <1>6, <3>1, <3>2 DEF Search
    <2>3. streak' \in [Pods -> Nat]
      BY <1>6 DEF Search, TypeOK
    <2> QED  BY <1>6, <2>1, <2>2, <2>3 DEF Search, TypeOK
  <1>7. CASE SearchFails(p)
    BY <1>7, ReturnTyped, FaultTyped, StateTyped DEF SearchFails, TypeOK
  <1>8. CASE Store(p)
    <2>1. Key(p) \in Keys /\ call[p].version \in Versions
      BY <1>8, CallForm DEF Store, At
    <2> QED  BY <1>8, <2>1, SetExTyped, ServeTyped DEF Store, TypeOK
  <1>9. CASE StoreRefused(p)
    <2>1. Key(p) \in Keys /\ call[p].version \in Versions
      BY <1>9, CallForm DEF StoreRefused, At
    <2> QED  BY <1>9, <2>1, SetExTyped, ServeTyped, FaultTyped DEF StoreRefused, TypeOK
  <1>10. CASE SkipStore(p)
    <2>1. Key(p) \in Keys /\ call[p].version \in Versions
      BY <1>10, CallForm DEF SkipStore, At
    <2> QED  BY <1>10, <2>1, ServeTyped DEF SkipStore, TypeOK
  <1>11. CASE StoreFails(p)
    BY <1>11, SetExTyped, ReturnTyped, FaultTyped DEF StoreFails, TypeOK
  <1> QED
    BY <1>1, <1>2, <1>3, <1>4, <1>5, <1>6, <1>7, <1>8, <1>9, <1>10, <1>11 DEF Query

LEMMA Typing ==
  ASSUME TypeOK, [Next]_vars
  PROVE  TypeOK'
  <1> USE DEF storeVars, breakerVars
  <1>1. ASSUME NEW p \in Pods, Health(p) \/ RecoveryElapses(p)  PROVE TypeOK'
    BY <1>1, StateTyped DEF Health, RecoveryElapses, TypeOK
  <1>2. ASSUME NEW p \in Pods, Restart(p)  PROVE TypeOK'
    BY <1>2, ReturnTyped, FaultTyped DEF Restart, Reset, TypeOK
  <1>3. ASSUME NEW t \in Tenants, Write(t)  PROVE TypeOK'
    BY <1>3, RagAssumption DEF Write, TypeOK, Versions
  <1>4. ASSUME NEW k \in Keys, Expire(k)  PROVE TypeOK'
    BY <1>4 DEF Expire, TypeOK
  <1>5. CASE UNCHANGED vars
    BY <1>5 DEF vars, TypeOK
  <1> QED  BY <1>1, <1>2, <1>3, <1>4, <1>5, QueryTyped DEF Next

(* Every variable of pods, cache and breakers keeps its type.              *)
THEOREM RagTypeCorrect == Spec => []TypeOK
  <1>1. Init => TypeOK
    BY RagAssumption, FaultAssumption DEF Init, TypeOK, Versions
  <1> QED  BY <1>1, Typing, PTL DEF Spec

-----------------------------------------------------------------------------
(* The circuit breaker.                                                    *)
(* The breaker of p is as good as new.                                     *)
StartsAnew(p) == Reset(p) /\ streak' = [streak EXCEPT ![p] = 0]

LEMMA TripsKept ==
  ASSUME TypeOK, BreakerTrips, [Next]_vars
  PROVE  BreakerTrips'
  <1> USE DEF storeVars, breakerVars
  <1>1. CASE UNCHANGED <<failureCount, state, streak>>
    BY <1>1 DEF BreakerTrips
  <1>2. ASSUME NEW p \in Pods, StartsAnew(p)  PROVE BreakerTrips'
    BY <1>2, RagAssumption DEF StartsAnew, Reset, BreakerTrips, TypeOK
  <1>3. ASSUME NEW p \in Pods, SearchFails(p)  PROVE BreakerTrips'
    BY <1>3, RagAssumption DEF SearchFails, State, BreakerTrips, TypeOK
  <1>4. ASSUME NEW p \in Pods, Health(p)  PROVE BreakerTrips'
    BY <1>4 DEF Health, State, BreakerTrips, TypeOK
  <1>5. ASSUME NEW p \in Pods, Search(p)  PROVE BreakerTrips'
    <2>1. CASE Reset(p)
      BY <1>2, <1>5, <2>1 DEF Search, StartsAnew
    <2>2. CASE UNCHANGED <<failureCount, state>>
      BY <1>5, <2>2 DEF Search, BreakerTrips, TypeOK
    <2> QED  BY <1>5, <2>1, <2>2 DEF Search
  <1>6. ASSUME NEW p \in Pods, Query(p), ~ SearchFails(p), ~ Search(p)
        PROVE  UNCHANGED <<failureCount, state, streak>>
    BY <1>6 DEF Query, Ask, Hit, Miss, GetRefused, Compute, GetFails, EmbedFails, Refuse,
       Store, StoreRefused, SkipStore, StoreFails
  <1>7. ASSUME NEW p \in Pods, RecoveryElapses(p) \/ Restart(p)
        PROVE  UNCHANGED <<failureCount, state, streak>> \/ StartsAnew(p)
    BY <1>7 DEF RecoveryElapses, Restart, StartsAnew
  <1>8. ASSUME NEW t \in Tenants, Write(t)  PROVE UNCHANGED <<failureCount, state, streak>>
    BY <1>8 DEF Write
  <1>9. ASSUME NEW k \in Keys, Expire(k)  PROVE UNCHANGED <<failureCount, state, streak>>
    BY <1>9 DEF Expire
  <1>10. CASE UNCHANGED vars
    BY <1>1, <1>10 DEF vars
  <1> QED  BY <1>1, <1>2, <1>3, <1>4, <1>5, <1>6, <1>7, <1>8, <1>9, <1>10 DEF Next

(* A breaker refuses or probes exactly while Threshold failures have been  *)
(* counted since its last good probe, and misses no failure in a row       *)
(* (circuit_breaker.py:46).                                                *)
THEOREM BreakerCorrect == Spec => []BreakerTrips
  <1>1. Init => BreakerTrips
    BY RagAssumption, FaultAssumption DEF Init, BreakerTrips
  <1> QED  BY <1>1, RagTypeCorrect, TripsKept, PTL DEF Spec

-----------------------------------------------------------------------------
(* The cache.                                                              *)

(* No answer, given, cached or about to be, is newer than its collection,  *)
(* and a cached one is its key's.                                          *)
Bounded ==
  /\ \A k \in Keys :
       /\ served[k] <= collection[k[1]]
       /\ \A a \in cache[k] : <<a.tenant, a.question>> = k /\ a.version <= collection[k[1]]
  /\ \A p \in Pods : At(p, "store") => call[p].version <= collection[call[p].tenant]

(* A key that is not excused is computed by one pod at most.  If that pod  *)
(* is going to store its answer the cache holds none, and the answer, like *)
(* one that is cached, is as new as what was served before.                *)
Fresh(k) ==
  /\ \A a \in cache[k] : a.version >= served[k]
  /\ \A p, q \in Pods : Computes(p, k) /\ Computes(q, k) => p = q
  /\ \A p \in Pods : Computes(p, k) /\ call[p].cacheAvailable =>
       /\ cache[k] = {}
       /\ At(p, "store") => call[p].version >= served[k]

CacheInv == Bounded /\ \A k \in Keys : k \notin excused => Fresh(k)

(* A query of p ends without an answer: nothing else changes.              *)
LEMMA ReturnKeeps ==
  ASSUME TypeOK, CacheInv, NEW p \in Pods, Return(p), UNCHANGED <<storeVars, served, excused>>
  PROVE  CacheInv'
  <1> USE DEF TypeOK, Return, Idle, storeVars
  <1>1. \A q \in Pods : IF q = p THEN call'[q].at = "idle" ELSE call'[q] = call[q]
    OBVIOUS
  <1>2. \A q \in Pods, k \in Keys : Computes(q, k)' => Computes(q, k) /\ call'[q] = call[q]
    BY <1>1 DEF Computes, Key, CacheKey
  <1>3. Bounded'
    BY <1>1 DEF CacheInv, Bounded, At
  <1>4. ASSUME NEW k \in Keys, Fresh(k)  PROVE Fresh(k)'
    BY <1>2, <1>4 DEF Fresh, At
  <1> QED  BY <1>3, <1>4 DEF CacheInv

(* p goes on to compute, and excuses its key if another pod does so.       *)
LEMMA ComputeKeeps ==
  ASSUME TypeOK, CacheInv, NEW p \in Pods, At(p, "get"), NEW b \in BOOLEAN, Compute(p, b),
         b => cache[Key(p)] = {}
  PROVE  CacheInv'
  <1> USE DEF TypeOK, Compute, storeVars
  <1>1. \A q \in Pods \ {p} : call'[q] = call[q]
    OBVIOUS
  <1>2. /\ call'[p].at = "search" /\ call'[p].cacheAvailable = b
        /\ Key(p)' = Key(p) /\ Key(p) \in Keys
    BY CallForm DEF At, Key, CacheKey
  <1>3. Bounded'
    BY <1>1, <1>2 DEF CacheInv, Bounded, At
  <1>4. ASSUME NEW k \in Keys, k \notin excused'  PROVE Fresh(k)'
    <2>1. Fresh(k)
      BY <1>4 DEF CacheInv
    <2>2. \A q \in Pods \ {p} : Computes(q, k)' <=> Computes(q, k)
      BY <1>1 DEF Computes, Key, CacheKey
    <2>3. Computes(p, k)' => k = Key(p) /\ \A q \in Pods \ {p} : ~ Computes(q, k)
      BY <1>2, <1>4 DEF Computes
    <2> QED  BY <1>1, <1>2, <2>1, <2>2, <2>3 DEF Fresh, At
  <1> QED  BY <1>3, <1>4 DEF CacheInv

(* p gets an answer from the cache.                                        *)
LEMMA HitKeeps ==
  ASSUME TypeOK, CacheInv, NEW p \in Pods, Hit(p)
  PROVE  CacheInv'
  <1> USE DEF TypeOK, storeVars
  <1>1. PICK a \in cache[Key(p)] : Serve(p, a.version)
    BY DEF Hit
  <1>2. Key(p) \in Keys
    BY CallForm DEF Hit, At
  <1>3. cache[Key(p)] = {a} /\ a.version \in Versions
    BY <1>1, <1>2 DEF Answers
  <1>4. \A q \in Pods : IF q = p THEN call'[q].at = "idle" ELSE call'[q] = call[q]
    BY <1>1 DEF Serve, Return, Idle
  <1>5. UNCHANGED <<storeVars, excused>>
    BY DEF Hit
  <1>6. \A k \in Keys : served'[k] = IF k = Key(p) /\ a.version > served[k]
                                     THEN a.version ELSE served[k]
    BY <1>1, <1>2 DEF Serve
  <1>7. Bounded'
    BY <1>3, <1>4, <1>5, <1>6 DEF CacheInv, Bounded, At
  <1>8. ASSUME NEW k \in Keys, k \notin excused'  PROVE Fresh(k)'
    <2>1. Fresh(k)
      BY <1>5, <1>8 DEF CacheInv
    <2>2. \A q \in Pods : Computes(q, k)' => Computes(q, k) /\ call'[q] = call[q]
      BY <1>4 DEF Computes, Key, CacheKey
    <2>3. CASE k = Key(p)
      BY <1>3, <1>5, <1>6, <2>1, <2>2, <2>3 DEF Fresh, Versions
    <2>4. CASE k # Key(p)
      BY <1>5, <1>6, <2>1, <2>2, <2>4 DEF Fresh, At
    <2> QED  BY <2>3, <2>4
  <1> QED  BY <1>7, <1>8 DEF CacheInv

(* p finds its answer: it is as new as the collection.                     *)
LEMMA SearchKeeps ==
  ASSUME TypeOK, CacheInv, NEW p \in Pods, Search(p)
  PROVE  CacheInv'
  <1> USE DEF TypeOK, storeVars
  <1>1. UNCHANGED <<storeVars, served, excused>> /\ \A q \in Pods \ {p} : call'[q] = call[q]
    BY DEF Search
  <1>2. /\ call'[p].at = "store" /\ call'[p].cacheAvailable = call[p].cacheAvailable
        /\ call'[p].tenant = call[p].tenant /\ Key(p)' = Key(p)
        /\ call'[p].version = collection[call[p].tenant]
    BY DEF Search, Key, CacheKey
  <1>3. /\ Key(p) \in Keys /\ Key(p)[1] = call[p].tenant /\ call[p].at = "search"
        /\ collection[call[p].tenant] \in Nat
    BY CallForm DEF Search, At, Key, CacheKey, Versions, Keys
  <1>4. Bounded'
    BY <1>1, <1>2, <1>3 DEF CacheInv, Bounded, At
  <1>5. ASSUME NEW k \in Keys, k \notin excused'  PROVE Fresh(k)'
    <2>1. Fresh(k) /\ served[k] <= collection[k[1]]
      BY <1>1, <1>5 DEF CacheInv, Bounded
    <2>2. \A q \in Pods : Computes(q, k)' <=> Computes(q, k)
      BY <1>1, <1>2, <1>3 DEF Computes, Key, CacheKey
    <2>3. Computes(p, k) => k = Key(p)
      BY DEF Computes
    <2> QED  BY <1>1, <1>2, <1>3, <2>1, <2>2, <2>3 DEF Fresh, At
  <1> QED  BY <1>4, <1>5 DEF CacheInv

(* p returns its answer, and stores it, cannot, or had no cache to ask.    *)
LEMMA StoreKeeps ==
  ASSUME TypeOK, CacheInv, NEW p \in Pods, Store(p) \/ StoreRefused(p) \/ SkipStore(p)
  PROVE  CacheInv'
  <1> DEFINE version == call[p].version
  <1> USE DEF TypeOK, storeVars
  <1>1. /\ Key(p) \in Keys /\ version \in Nat /\ Computes(p, Key(p)) /\ At(p, "store")
        /\ Key(p)[1] = call[p].tenant
    BY CallForm DEF Store, StoreRefused, SkipStore, At, Versions, Computes, Key, CacheKey
  <1>2. Serve(p, version) /\ UNCHANGED collection
    BY DEF Store, StoreRefused, SkipStore
  <1>3. \A q \in Pods : IF q = p THEN call'[q].at = "idle" ELSE call'[q] = call[q]
    BY <1>2 DEF Serve, Return, Idle
  <1>4. \A k \in Keys : served'[k] = IF k = Key(p) /\ version > served[k]
                                     THEN version ELSE served[k]
    BY <1>1, <1>2 DEF Serve
  <1>5. \A k \in Keys \ {Key(p)} :
          cache'[k] = cache[k] /\ served'[k] = served[k] /\ (k \in excused' <=> k \in excused)
    BY <1>1, <1>4 DEF Store, StoreRefused, SkipStore, SetEx
  <1>6. \/ UNCHANGED <<cache, excused>> /\ call[p].cacheAvailable
        \/ UNCHANGED cache /\ Key(p) \in excused'
        \/ /\ cache'[Key(p)] = {[tenant |-> call[p].tenant, question |-> call[p].question,
                                 version |-> version]}
           /\ UNCHANGED excused /\ call[p].cacheAvailable
    BY <1>1 DEF Store, StoreRefused, SkipStore, SetEx
  <1>7. version <= collection[Key(p)[1]]
    BY <1>1 DEF CacheInv, Bounded
  <1>8. Bounded'
    <2>1. ASSUME NEW k \in Keys
          PROVE  /\ served'[k] <= collection'[k[1]]
                 /\ \A a \in cache'[k] : <<a.tenant, a.question>> = k
                                         /\ a.version <= collection'[k[1]]
      <3>1. served'[k] <= collection'[k[1]]
        BY <1>1, <1>2, <1>4, <1>7 DEF CacheInv, Bounded
      <3>2. \A a \in cache[k] : <<a.tenant, a.question>> = k /\ a.version <= collection[k[1]]
        BY DEF CacheInv, Bounded
      <3>3. CASE k # Key(p) \/ UNCHANGED cache
        BY <1>2, <1>5, <3>1, <3>2, <3>3
      <3>4. CASE k = Key(p) /\ ~ UNCHANGED cache
        BY <1>2, <1>6, <1>7, <3>1, <3>4 DEF Key, CacheKey
      <3> QED  BY <3>3, <3>4
    <2> QED  BY <1>2, <1>3, <2>1 DEF CacheInv, Bounded, At
  <1>9. ASSUME NEW k \in Keys, k \notin excused'  PROVE Fresh(k)'
    <2>1. \A q \in Pods : Computes(q, k)' => Computes(q, k) /\ call'[q] = call[q] /\ q # p
      BY <1>3 DEF Computes, Key, CacheKey
    <2>2. CASE k # Key(p)
      BY <1>5, <1>9, <2>1, <2>2 DEF Fresh, CacheInv, At
    <2>3. CASE k = Key(p)
      <3>1. Fresh(k) /\ call[p].cacheAvailable
        BY <1>1, <1>6, <1>9, <2>3 DEF CacheInv
      <3>2. version >= served[k] /\ cache[k] = {}
        BY <1>1, <2>3, <3>1 DEF Fresh
      <3>3. \A q \in Pods : ~ Computes(q, k)'
        BY <1>1, <2>1, <2>3, <3>1 DEF Fresh
      <3>4. \A a \in cache'[k] : a.version = version
        BY <1>6, <1>9, <2>3, <3>2
      <3>5. served'[k] = version
        BY <1>1, <1>4, <2>3, <3>2 DEF Versions
      <3> QED  BY <1>1, <3>3, <3>4, <3>5 DEF Fresh
    <2> QED  BY <2>2, <2>3
  <1> QED  BY <1>8, <1>9 DEF CacheInv

(* p has stored its answer, or not, and its caller gets none.              *)
LEMMA StoreFailsKeeps ==
  ASSUME TypeOK, CacheInv, NEW p \in Pods, StoreFails(p)
  PROVE  CacheInv'
  <1> DEFINE version == call[p].version
  <1> USE DEF TypeOK, storeVars
  <1>1. /\ Key(p) \in Keys /\ version \in Nat /\ Computes(p, Key(p)) /\ At(p, "store")
        /\ Key(p)[1] = call[p].tenant /\ call[p].cacheAvailable
    BY CallForm DEF StoreFails, At, Versions, Computes, Key, CacheKey
  <1>2. UNCHANGED <<collection, served, excused>>
    BY DEF StoreFails
  <1>3. \A q \in Pods : IF q = p THEN call'[q].at = "idle" ELSE call'[q] = call[q]
    BY DEF StoreFails, Return, Idle
  <1>4. \A k \in Keys :
          \/ cache'[k] = cache[k]
          \/ k = Key(p) /\ cache'[k] = {[tenant |-> call[p].tenant, question |-> call[p].question,
                                        version |-> version]}
    BY <1>1 DEF StoreFails, SetEx
  <1>5. version <= collection[Key(p)[1]]
    BY <1>1 DEF CacheInv, Bounded
  <1>6. \A k \in Keys : \A a \in cache'[k] :
          \/ a \in cache[k]
          \/ k = Key(p) /\ <<a.tenant, a.question>> = k /\ a.version = version
    <2> SUFFICES ASSUME NEW k \in Keys, NEW a \in cache'[k], a \notin cache[k]
                 PROVE  k = Key(p) /\ <<a.tenant, a.question>> = k /\ a.version = version
      OBVIOUS
    <2>1. k = Key(p) /\ a = [tenant |-> call[p].tenant, question |-> call[p].question,
                             version |-> version]
      BY <1>4
    <2> QED  BY <2>1 DEF Key, CacheKey
  <1>7. Bounded'
    BY <1>2, <1>3, <1>5, <1>6 DEF CacheInv, Bounded, At
  <1>8. ASSUME NEW k \in Keys, k \notin excused'  PROVE Fresh(k)'
    <2>1. Fresh(k)
      BY <1>2, <1>8 DEF CacheInv
    <2>2. \A q \in Pods : Computes(q, k)' => Computes(q, k) /\ call'[q] = call[q] /\ q # p
      BY <1>3 DEF Computes, Key, CacheKey
    <2>3. CASE k # Key(p)
      BY <1>2, <1>4, <2>1, <2>2, <2>3 DEF Fresh, At
    <2>4. CASE k = Key(p)
      <3>1. version >= served[k] /\ \A q \in Pods : ~ Computes(q, k)'
        BY <1>1, <2>1, <2>2, <2>4 DEF Fresh
      <3> QED  BY <1>2, <1>6, <2>1, <3>1 DEF Fresh
    <2> QED  BY <2>3, <2>4
  <1> QED  BY <1>7, <1>8 DEF CacheInv

(* A key expires; once nobody computes it, it is excused no longer.        *)
LEMMA ExpireKeeps ==
  ASSUME TypeOK, CacheInv, NEW k \in Keys, Expire(k)
  PROVE  CacheInv'
  <1> USE DEF TypeOK
  <1>1. UNCHANGED <<collection, call, served>>
        /\ \A j \in Keys : cache'[j] = IF j = k THEN {} ELSE cache[j]
    BY DEF Expire
  <1>2. Bounded'
    BY <1>1 DEF CacheInv, Bounded, At
  <1>3. ASSUME NEW j \in Keys, j \notin excused'  PROVE Fresh(j)'
    <2>1. j \notin excused \/ (j = k /\ \A p \in Pods : ~ Computes(p, j))
      BY <1>3 DEF Expire
    <2>2. \A p \in Pods : Computes(p, j)' <=> Computes(p, j)
      BY <1>1 DEF Computes, Key, CacheKey
    <2> QED  BY <1>1, <2>1, <2>2 DEF CacheInv, Fresh, At
  <1> QED  BY <1>2, <1>3 DEF CacheInv

LEMMA CacheKept ==
  ASSUME TypeOK, CacheInv, [Next]_vars
  PROVE  CacheInv'
  <1> USE DEF storeVars
  <1>1. ASSUME UNCHANGED <<storeVars, call, served, excused>>  PROVE CacheInv'
    BY <1>1 DEF CacheInv, Bounded, Fresh, At, Computes, Key, CacheKey
  <1>2. ASSUME NEW p \in Pods, NEW t \in Tenants, NEW q \in Questions, Ask(p, t, q)
        PROVE  CacheInv'
    <2>1. /\ UNCHANGED <<storeVars, served, excused>>
          /\ \A r \in Pods : \/ r = p /\ call'[r].at = "get" /\ call[r].at = "idle"
                             \/ r # p /\ call'[r] = call[r]
      BY <1>2 DEF Ask, At, TypeOK
    <2>2. \A r \in Pods, k \in Keys :
            Computes(r, k)' => Computes(r, k) /\ call'[r] = call[r]
      BY <2>1 DEF Computes, Key, CacheKey
    <2>3. Bounded'
      BY <2>1 DEF CacheInv, Bounded, At
    <2>4. ASSUME NEW k \in Keys, Fresh(k)  PROVE Fresh(k)'
      BY <2>1, <2>2, <2>4 DEF Fresh, At
    <2> QED  BY <2>1, <2>3, <2>4 DEF CacheInv
  <1>3. ASSUME NEW p \in Pods, Miss(p) \/ GetRefused(p)  PROVE CacheInv'
    BY <1>3, ComputeKeeps DEF Miss, GetRefused
  <1>4. ASSUME NEW p \in Pods, \/ GetFails(p) \/ EmbedFails(p) \/ Refuse(p) \/ SearchFails(p)
                               \/ Restart(p)
        PROVE  CacheInv'
    BY <1>4, ReturnKeeps DEF GetFails, EmbedFails, Refuse, SearchFails, Restart
  <1>5. ASSUME NEW p \in Pods, Query(p)  PROVE CacheInv'
    BY <1>2, <1>3, <1>4, <1>5, HitKeeps, SearchKeeps, StoreKeeps, StoreFailsKeeps
    DEF Query
  <1>6. ASSUME NEW p \in Pods, Health(p) \/ RecoveryElapses(p)  PROVE CacheInv'
    BY <1>1, <1>6 DEF Health, RecoveryElapses
  <1>7. ASSUME NEW t \in Tenants, Write(t)  PROVE CacheInv'
    <2>1. /\ UNCHANGED <<cache, call, served, excused>>
          /\ \A u \in Tenants : collection[u] \in Nat /\ collection'[u] \in Nat
                                /\ collection[u] <= collection'[u]
      BY <1>7 DEF Write, TypeOK, Versions
    <2>2. \A k \in Keys : Fresh(k) => Fresh(k)'
      BY <2>1 DEF Fresh, At, Computes, Key, CacheKey
    <2>3. ASSUME NEW k \in Keys
          PROVE  /\ served'[k] <= collection'[k[1]]
                 /\ \A a \in cache'[k] : <<a.tenant, a.question>> = k
                                         /\ a.version <= collection'[k[1]]
      <3>1. k[1] \in Tenants /\ served[k] \in Nat /\ \A a \in cache[k] : a.version \in Nat
        BY DEF Keys, TypeOK, Versions, Answers
      <3> QED  BY <2>1, <3>1 DEF CacheInv, Bounded
    <2>4. ASSUME NEW p \in Pods, At(p, "store")'
          PROVE  call'[p].version <= collection'[call'[p].tenant]
      <3>1. At(p, "store") /\ call[p].tenant \in Tenants /\ call[p].version \in Nat
        BY <2>1, <2>4, CallForm DEF At, Versions
      <3> QED  BY <2>1, <3>1 DEF CacheInv, Bounded
    <2> QED  BY <2>1, <2>2, <2>3, <2>4 DEF CacheInv, Bounded
  <1>8. ASSUME NEW k \in Keys, Expire(k)  PROVE CacheInv'
    BY <1>8, ExpireKeeps
  <1>9. CASE UNCHANGED vars
    BY <1>1, <1>9 DEF vars
  <1> QED  BY <1>4, <1>5, <1>6, <1>7, <1>8, <1>9 DEF Next

(* What is cached is its key's, and no older than an answer given before   *)
(* unless the key is excused (app.py:67).                                  *)
THEOREM CacheCorrect == Spec => []CacheSound
  <1>1. Init => CacheInv
    BY DEF Init, CacheInv, Bounded, Fresh, At, Computes, Idle, Keys
  <1>2. TypeOK /\ CacheInv => CacheSound
    BY DEF TypeOK, CacheInv, Bounded, Fresh, CacheSound, Answers, Versions
  <1> QED  BY <1>1, <1>2, RagTypeCorrect, CacheKept, PTL DEF Spec

=============================================================================
