---------------------------- MODULE AccountingProofs ----------------------------
(***************************************************************************)
(* Theorems about the two services whose correctness is a matter of        *)
(* counting: the quota service and the consumer of the metadata service.   *)
(* Sums over finite sets first, for the quota service's counter; then one  *)
(* service after the other, for any threads, partitions, amounts, events   *)
(* and faults.                                                             *)
(* The two have nothing in common but the count of faults, and no theorem  *)
(* speaks of both.                                                         *)
(***************************************************************************)
EXTENDS QuotaService, MetadataConsumer, TLAPS, WellFoundedInduction, FiniteSetTheorems

----------------------------------------------------------------------------
(* Sums over a finite set.  The library's sum takes the elements in an     *)
(* order of its own; what follows shows that the order does not matter.    *)
(* There is no induction with the provers at hand: each lemma looks at a   *)
(* smallest set for which it fails instead.                                *)

(* A collection of subsets of a finite set has a smallest member.          *)
LEMMA SmallestSet ==
  ASSUME NEW S, IsFiniteSet(S), NEW C \in SUBSET SUBSET S, C # {}
  PROVE  \E T \in C : \A U \in C : U \subseteq T => U = T
<1>1. IsWellFoundedOn(StrictSubsetOrdering(S), SUBSET S)
  BY FS_StrictSubsetOrderingWellFounded, FS_FiniteSubsetsOfFinite
<1>2. PICK T \in C : \A U \in C : <<U, T>> \notin StrictSubsetOrdering(S)
  BY <1>1, WFMin
<1>3. QED
  BY <1>2 DEF StrictSubsetOrdering

Some(s) == CHOOSE x \in s : TRUE

LEMMA SomeIn == \A s : s # {} => Some(s) \in s
BY DEF Some

(* g holds the sums of f over the subsets of S.                            *)
Sums(f, S, g) ==
  g = [s \in SUBSET S |-> IF s = {} THEN 0 ELSE f[Some(s)] + g[s \ {Some(s)}]]

TheSums(f, S) == CHOOSE g : Sums(f, S, g)

LEMMA SumIs == \A f, S : SumFunctionOnSet(f, S) = TheSums(f, S)[S]
BY DEF SumFunctionOnSet, FoldFunctionOnSet, MapThenFoldSet, TheSums, Sums, Some

(* What such a table says of one set.                                      *)
LEMMA SumsAt ==
  ASSUME NEW f, NEW S, NEW g, Sums(f, S, g), NEW s \in SUBSET S
  PROVE  g[s] = IF s = {} THEN 0 ELSE f[Some(s)] + g[s \ {Some(s)}]
BY DEF Sums

(* Two of them agree where both have an entry.                             *)
LEMMA SumsAgree ==
  ASSUME NEW f, NEW S, IsFiniteSet(S), NEW g, Sums(f, S, g),
         NEW T \in SUBSET S, NEW h, Sums(f, T, h)
  PROVE  \A s \in SUBSET T : g[s] = h[s]
<1> DEFINE Bad == {s \in SUBSET T : g[s] # h[s]}
<1>1. SUFFICES ASSUME Bad # {} PROVE FALSE
  OBVIOUS
<1>2. PICK s \in Bad : \A U \in Bad : U \subseteq s => U = s
  <2>1. Bad \in SUBSET SUBSET T /\ IsFiniteSet(T)
    BY FS_Subset
  <2> HIDE DEF Bad
  <2>2. QED
    BY <1>1, <2>1, SmallestSet
<1>3. s # {}
  BY SumsAt
<1>4. Some(s) \in s
  BY <1>3, SomeIn
<1>5. g[s \ {Some(s)}] = h[s \ {Some(s)}]
  BY <1>2, <1>4
<1>6. QED
  BY <1>3, <1>5, SumsAt

(* A finite set has such a table.                                          *)
LEMMA SumsExist ==
  ASSUME NEW f, NEW S, IsFiniteSet(S)
  PROVE  Sums(f, S, TheSums(f, S))
<1> DEFINE Bad == {T \in SUBSET S : ~ Sums(f, T, TheSums(f, T))}
<1>1. SUFFICES ASSUME Bad # {} PROVE FALSE
  OBVIOUS
<1>2. PICK T \in Bad : \A U \in Bad : U \subseteq T => U = T
  <2>1. Bad \in SUBSET SUBSET S /\ IsFiniteSet(S)
    BY FS_Subset
  <2> HIDE DEF Bad
  <2>2. QED
    BY <1>1, <2>1, SmallestSet
<1>3. \A s \in SUBSET T : s # T => Sums(f, s, TheSums(f, s))
  BY <1>2
<1> DEFINE Rest(s) == s \ {Some(s)}
           New(s)  == IF s = {} THEN 0 ELSE f[Some(s)] + TheSums(f, Rest(s))[Rest(s)]
           g == [s \in SUBSET T |-> New(s)]
<1>4. ASSUME NEW s \in SUBSET T, s # T
      PROVE  TheSums(f, s)[s] = New(s)
  <2>1. Sums(f, s, TheSums(f, s))
    BY <1>3, <1>4
  <2>2. CASE s = {}
    BY <2>1, <2>2, SumsAt
  <2>3. CASE s # {}
    <3>1. Some(s) \in s
      BY <2>3, SomeIn
    <3>2. Rest(s) \in SUBSET s /\ Rest(s) # T
      BY <3>1
    <3>3. Sums(f, Rest(s), TheSums(f, Rest(s)))
      BY <1>3, <3>2
    <3>4. IsFiniteSet(s)
      BY FS_Subset
    <3>5. TheSums(f, s)[Rest(s)] = TheSums(f, Rest(s))[Rest(s)]
      <4> DEFINE R == Rest(s)
                 G == TheSums(f, s)
                 K == TheSums(f, R)
      <4>1. R \in SUBSET s /\ Sums(f, s, G) /\ Sums(f, R, K)
        BY <2>1, <3>2, <3>3
      <4> HIDE DEF R, G, K
      <4>2. G[R] = K[R]
        BY <3>4, <4>1, SumsAgree
      <4>3. QED
        BY <4>2 DEF R, G, K
    <3>6. TheSums(f, s)[s] = f[Some(s)] + TheSums(f, s)[Rest(s)]
      BY <2>1, <2>3, SumsAt
    <3>7. QED
      BY <2>3, <3>5, <3>6
  <2>4. QED
    BY <2>2, <2>3
<1>5. ASSUME NEW s \in SUBSET T
      PROVE  New(s) = IF s = {} THEN 0 ELSE f[Some(s)] + g[Rest(s)]
  <2>1. CASE s # {}
    <3>1. Some(s) \in s
      BY <2>1, SomeIn
    <3>2. Rest(s) \in SUBSET T /\ Rest(s) # T
      BY <3>1
    <3>3. g[Rest(s)] = TheSums(f, Rest(s))[Rest(s)]
      BY <3>2, <1>4
    <3>4. QED
      BY <2>1, <3>3
  <2>2. QED
    BY <2>1
<1>6. g = [s \in SUBSET T |-> IF s = {} THEN 0 ELSE f[Some(s)] + g[Rest(s)]]
  BY <1>5
<1>7. Sums(f, T, g)
  BY <1>6 DEF Sums
<1>8. QED
  BY <1>2, <1>7 DEF TheSums

(* The sum over the empty set, ...                                         *)
LEMMA SumEmpty == \A f : SumFunctionOnSet(f, {}) = 0
<1> TAKE f
<1>1. Sums(f, {}, TheSums(f, {}))
  BY SumsExist, FS_EmptySet
<1>2. QED
  BY <1>1, SumsAt, SumIs

(* ... and that over another one, element by element.                      *)
LEMMA SumFirst ==
  ASSUME NEW f, NEW S, IsFiniteSet(S), S # {}
  PROVE  SumFunctionOnSet(f, S) = f[Some(S)] + SumFunctionOnSet(f, S \ {Some(S)})
<1> DEFINE R == S \ {Some(S)}
<1>1. IsFiniteSet(R) /\ R \in SUBSET S
  BY FS_Subset
<1>2. Sums(f, S, TheSums(f, S)) /\ Sums(f, R, TheSums(f, R))
  BY <1>1, SumsExist
<1>3. TheSums(f, S)[R] = TheSums(f, R)[R]
  BY <1>1, <1>2, SumsAgree
<1>4. TheSums(f, S)[S] = f[Some(S)] + TheSums(f, S)[R]
  BY <1>2, SumsAt
<1>5. QED
  BY <1>3, <1>4, SumIs

(* It is a natural number.                                                 *)
LEMMA SumType ==
  ASSUME NEW D, NEW f \in [D -> Nat], NEW S \in SUBSET D, IsFiniteSet(S)
  PROVE  SumFunctionOnSet(f, S) \in Nat
<1> DEFINE Bad == {T \in SUBSET S : SumFunctionOnSet(f, T) \notin Nat}
<1>1. SUFFICES ASSUME Bad # {} PROVE FALSE
  OBVIOUS
<1>2. PICK T \in Bad : \A U \in Bad : U \subseteq T => U = T
  <2>1. Bad \in SUBSET SUBSET S /\ IsFiniteSet(S)
    BY FS_Subset
  <2> HIDE DEF Bad
  <2>2. QED
    BY <1>1, <2>1, SmallestSet
<1>3. T # {}
  BY SumEmpty
<1>4. Some(T) \in T
  BY <1>3, SomeIn
<1>5. SumFunctionOnSet(f, T \ {Some(T)}) \in Nat
  BY <1>2, <1>4
<1>6. f[Some(T)] \in Nat
  BY <1>4
<1>7. SumFunctionOnSet(f, T) = f[Some(T)] + SumFunctionOnSet(f, T \ {Some(T)})
  BY <1>3, SumFirst, FS_Subset
<1>8. SumFunctionOnSet(f, T) \in Nat
  BY <1>5, <1>6, <1>7
<1>9. QED
  BY <1>8

(* Any element may be taken first.                                         *)
LEMMA SumOut ==
  ASSUME NEW D, NEW f \in [D -> Nat], NEW S \in SUBSET D, IsFiniteSet(S)
  PROVE  \A x \in S : SumFunctionOnSet(f, S) = f[x] + SumFunctionOnSet(f, S \ {x})
<1> DEFINE Sum(s) == SumFunctionOnSet(f, s)
           Bad == {T \in SUBSET S : \E x \in T : Sum(T) # f[x] + Sum(T \ {x})}
<1>1. SUFFICES ASSUME Bad # {} PROVE FALSE
  OBVIOUS
<1>2. PICK T \in Bad : \A U \in Bad : U \subseteq T => U = T
  <2>1. Bad \in SUBSET SUBSET S /\ IsFiniteSet(S)
    BY FS_Subset
  <2> HIDE DEF Bad
  <2>2. QED
    BY <1>1, <2>1, SmallestSet
<1>3. PICK x \in T : Sum(T) # f[x] + Sum(T \ {x})
  OBVIOUS
<1> DEFINE y == Some(T)
<1>4. y \in T
  BY SomeIn
<1>5. Sum(T) = f[y] + Sum(T \ {y})
  BY SumFirst, FS_Subset
<1>6. x # y
  BY <1>3, <1>5
<1>7. \A U \in SUBSET T : U # T => \A z \in U : Sum(U) = f[z] + Sum(U \ {z})
  BY <1>2
<1>8. Sum(T \ {y}) = f[x] + Sum((T \ {y}) \ {x})
  BY <1>4, <1>6, <1>7
<1>9. Sum(T \ {x}) = f[y] + Sum((T \ {x}) \ {y})
  BY <1>4, <1>6, <1>7
<1>10. (T \ {y}) \ {x} = (T \ {x}) \ {y}
  OBVIOUS
<1>11. Sum((T \ {x}) \ {y}) \in Nat
  BY SumType, FS_Subset
<1>12. f[x] \in Nat /\ f[y] \in Nat
  BY <1>4
<1> HIDE DEF Sum, y
<1>13. Sum(T) = f[x] + Sum(T \ {x})
  BY <1>5, <1>8, <1>9, <1>10, <1>11, <1>12
<1>14. QED
  BY <1>3, <1>13

(* Functions that agree on a set have the same sum.                        *)
LEMMA SumSame ==
  ASSUME NEW D, NEW f \in [D -> Nat], NEW g \in [D -> Nat],
         NEW S \in SUBSET D, IsFiniteSet(S), \A x \in S : f[x] = g[x]
  PROVE  SumFunctionOnSet(f, S) = SumFunctionOnSet(g, S)
<1> DEFINE Bad == {T \in SUBSET S : SumFunctionOnSet(f, T) # SumFunctionOnSet(g, T)}
<1>1. SUFFICES ASSUME Bad # {} PROVE FALSE
  OBVIOUS
<1>2. PICK T \in Bad : \A U \in Bad : U \subseteq T => U = T
  <2>1. Bad \in SUBSET SUBSET S /\ IsFiniteSet(S)
    BY FS_Subset
  <2> HIDE DEF Bad
  <2>2. QED
    BY <1>1, <2>1, SmallestSet
<1>3. T # {}
  BY SumEmpty
<1>4. Some(T) \in T
  BY <1>3, SomeIn
<1>5. SumFunctionOnSet(f, T \ {Some(T)}) = SumFunctionOnSet(g, T \ {Some(T)})
  BY <1>2, <1>4
<1>6. f[Some(T)] = g[Some(T)]
  BY <1>4
<1>7. IsFiniteSet(T)
  BY FS_Subset
<1>8. QED
  BY <1>3, <1>5, <1>6, <1>7, SumFirst

(* The sum splits with the set.                                            *)
LEMMA SumSplit ==
  ASSUME NEW D, NEW f \in [D -> Nat], NEW S \in SUBSET D, IsFiniteSet(S),
         NEW H \in SUBSET S
  PROVE  SumFunctionOnSet(f, S) = SumFunctionOnSet(f, H) + SumFunctionOnSet(f, S \ H)
<1> DEFINE Sum(s) == SumFunctionOnSet(f, s)
           Bad == {T \in SUBSET S : Sum(S) # Sum(T) + Sum(S \ T)}
<1>1. SUFFICES ASSUME Bad # {} PROVE FALSE
  OBVIOUS
<1>2. PICK T \in Bad : \A U \in Bad : U \subseteq T => U = T
  <2>1. Bad \in SUBSET SUBSET S /\ IsFiniteSet(S)
    BY FS_Subset
  <2> HIDE DEF Bad
  <2>2. QED
    BY <1>1, <2>1, SmallestSet
<1>3. \A s \in SUBSET S : Sum(s) \in Nat /\ IsFiniteSet(s)
  BY SumType, FS_Subset
<1>4. T # {}
  <2>1. S \ {} = S
    OBVIOUS
  <2>2. Sum(S) = Sum({}) + Sum(S \ {})
    BY <1>3, <2>1, SumEmpty
  <2>3. QED
    BY <2>2
<1>5. PICK x \in T : TRUE
  BY <1>4
<1>6. Sum(S) = Sum(T \ {x}) + Sum(S \ (T \ {x}))
  BY <1>2, <1>5
<1>7. Sum(T) = f[x] + Sum(T \ {x})
  BY <1>3, SumOut
<1>8. Sum(S \ (T \ {x})) = f[x] + Sum((S \ (T \ {x})) \ {x})
  <2>1. x \in S \ (T \ {x}) /\ S \ (T \ {x}) \in SUBSET D
    OBVIOUS
  <2>2. IsFiniteSet(S \ (T \ {x}))
    BY <1>3
  <2>3. QED
    BY <2>1, <2>2, SumOut
<1>9. (S \ (T \ {x})) \ {x} = S \ T
  OBVIOUS
<1>10. f[x] \in Nat /\ Sum(T \ {x}) \in Nat /\ Sum(S \ T) \in Nat
  BY <1>3
<1>11. Sum(S \ (T \ {x})) = f[x] + Sum(S \ T)
  BY <1>8, <1>9
<1> HIDE DEF Sum
<1>12. Sum(S) = Sum(T) + Sum(S \ T)
  BY <1>6, <1>7, <1>10, <1>11
<1>13. QED
  BY <1>12

(* Nothing is the sum of nothing.                                          *)
LEMMA SumZero ==
  ASSUME NEW D, NEW f \in [D -> Nat], NEW S \in SUBSET D, IsFiniteSet(S),
         \A x \in S : f[x] = 0
  PROVE  SumFunctionOnSet(f, S) = 0
<1> DEFINE Bad == {T \in SUBSET S : SumFunctionOnSet(f, T) # 0}
<1>1. SUFFICES ASSUME Bad # {} PROVE FALSE
  OBVIOUS
<1>2. PICK T \in Bad : \A U \in Bad : U \subseteq T => U = T
  <2>1. Bad \in SUBSET SUBSET S /\ IsFiniteSet(S)
    OBVIOUS
  <2> HIDE DEF Bad
  <2>2. QED
    BY <1>1, <2>1, SmallestSet
<1>3. T # {}
  BY SumEmpty
<1>4. Some(T) \in T
  BY <1>3, SomeIn
<1>5. SumFunctionOnSet(f, T \ {Some(T)}) = 0 /\ f[Some(T)] = 0
  BY <1>2, <1>4
<1>6. IsFiniteSet(T)
  BY FS_Subset
<1>7. QED
  BY <1>3, <1>5, <1>6, SumFirst

----------------------------------------------------------------------------
(* The inductive invariants.                                               *)

(* The thread h has a call under way that records the event e.             *)
Recording(h, e) == pc[h] \in {"setex", "add"} /\ event[h] = e

(* An event with a call at work has not been added yet, and no other call  *)
(* is at work on it, unless two of them have met.                          *)
OneRecords(e) ==
  e \notin raced =>
    /\ times[e] <= 1
    /\ \A g, h \in Handlers : Recording(g, e) /\ Recording(h, e) => g = h
    /\ \A h \in Handlers : Recording(h, e) => times[e] = 0
    /\ \A h \in Handlers : Recording(h, e) /\ pc[h] = "setex" => e \notin dedup

(* What has been added or is about to be has its key.                      *)
KeySet(e) ==
  /\ times[e] > 0 => e \in dedup
  /\ \A h \in Handlers : Recording(h, e) /\ pc[h] = "add" => e \in dedup

(* A key has been set for an addition, past, to come or given up.          *)
KeyUsed(e) ==
  e \in dedup => \/ times[e] > 0
                 \/ e \in dropped
                 \/ \E h \in Handlers : pc[h] = "add" /\ event[h] = e

EventInv(e) == OneRecords(e) /\ KeySet(e) /\ KeyUsed(e)

----------------------------------------------------------------------------
(* What is about to be taken back.                                         *)

LEMMA PendingType == CallTypeOK => Pending \in [Handlers -> Nat]
BY DEF Pending, CallTypeOK

LEMMA InFlightType ==
  ASSUME CallTypeOK, NEW H \in SUBSET Handlers
  PROVE  InFlight(H) \in Nat
BY PendingType, SumType, QuotaAssumption, FS_Subset DEF InFlight

(* It changes with the threads that change.                                *)
LEMMA InFlightSame ==
  ASSUME CallTypeOK, CallTypeOK', NEW H \in SUBSET Handlers,
         \A h \in H : Pending'[h] = Pending[h]
  PROVE  InFlight(H)' = InFlight(H)
<1> DEFINE F == Pending
           G == Pending'
<1>1. F \in [Handlers -> Nat] /\ G \in [Handlers -> Nat]
  BY DEF Pending, CallTypeOK
<1>2. IsFiniteSet(H)
  BY QuotaAssumption, FS_Subset
<1>3. InFlight(H) = SumFunctionOnSet(F, H) /\ InFlight(H)' = SumFunctionOnSet(G, H)
  BY DEF InFlight
<1>4. \A h \in H : G[h] = F[h]
  OBVIOUS
<1> HIDE DEF F, G
<1>5. QED
  BY <1>1, <1>2, <1>3, <1>4, SumSame

(* Only a thread that is to take back has something pending.               *)
LEMMA PendingIdle ==
  ASSUME CallTypeOK, NEW h \in Handlers, pc[h] # "decrby"
  PROVE  Pending[h] = 0
BY DEF CallTypeOK, Pending

(* One thread makes a difference, ...                                      *)
LEMMA InFlightOne ==
  ASSUME CallTypeOK, CallTypeOK', NEW h \in Handlers,
         \A g \in Handlers \ {h} : Pending'[g] = Pending[g]
  PROVE  InFlight(Handlers)' = InFlight(Handlers) - Pending[h] + Pending'[h]
<1> DEFINE F == Pending
           G == Pending'
           Rest == Handlers \ {h}
<1>1. F \in [Handlers -> Nat] /\ G \in [Handlers -> Nat]
  BY DEF Pending, CallTypeOK
<1>2. IsFiniteSet(Handlers) /\ IsFiniteSet(Rest)
  BY QuotaAssumption, FS_Subset
<1>3. /\ InFlight(Handlers) = SumFunctionOnSet(F, Handlers)
      /\ InFlight(Handlers)' = SumFunctionOnSet(G, Handlers)
  BY DEF InFlight
<1>4. \A g \in Rest : F[g] = G[g]
  OBVIOUS
<1> HIDE DEF F, G
<1>5. /\ SumFunctionOnSet(F, Handlers) = F[h] + SumFunctionOnSet(F, Rest)
      /\ SumFunctionOnSet(G, Handlers) = G[h] + SumFunctionOnSet(G, Rest)
  BY <1>1, <1>2, SumOut
<1>6. SumFunctionOnSet(F, Rest) = SumFunctionOnSet(G, Rest)
  BY <1>1, <1>2, <1>4, SumSame
<1>7. SumFunctionOnSet(F, Rest) \in Nat /\ F[h] \in Nat /\ G[h] \in Nat
  BY <1>1, <1>2, SumType
<1>8. InFlight(Handlers)' = InFlight(Handlers) - F[h] + G[h]
  BY <1>3, <1>5, <1>6, <1>7
<1>9. QED
  BY <1>8 DEF F, G

(* ... and some that end all they had pending.                             *)
LEMMA InFlightEnd ==
  ASSUME CallTypeOK, CallTypeOK', NEW H \in SUBSET Handlers, End(H)
  PROVE  InFlight(Handlers)' = InFlight(Handlers) - InFlight(H)
<1> DEFINE F == Pending
           G == Pending'
           Rest == Handlers \ H
<1>1. F \in [Handlers -> Nat] /\ G \in [Handlers -> Nat]
  BY DEF Pending, CallTypeOK
<1>2. IsFiniteSet(Handlers) /\ IsFiniteSet(Rest) /\ IsFiniteSet(H)
  BY QuotaAssumption, FS_Subset
<1>3. /\ InFlight(Handlers) = SumFunctionOnSet(F, Handlers)
      /\ InFlight(Handlers)' = SumFunctionOnSet(G, Handlers)
      /\ InFlight(H) = SumFunctionOnSet(F, H)
  BY DEF InFlight
<1>4. \A g \in Rest : F[g] = G[g]
  BY DEF End, Pending, CallTypeOK
<1>5. \A g \in H : G[g] = 0
  BY DEF End, Pending, CallTypeOK
<1> HIDE DEF F, G
<1>6. /\ SumFunctionOnSet(F, Handlers) = SumFunctionOnSet(F, H) + SumFunctionOnSet(F, Rest)
      /\ SumFunctionOnSet(G, Handlers) = SumFunctionOnSet(G, H) + SumFunctionOnSet(G, Rest)
  BY <1>1, <1>2, SumSplit
<1>7. SumFunctionOnSet(F, Rest) = SumFunctionOnSet(G, Rest)
  BY <1>1, <1>2, <1>4, SumSame
<1>8. SumFunctionOnSet(G, H) = 0
  BY <1>1, <1>2, <1>5, SumZero
<1>9. SumFunctionOnSet(F, Rest) \in Nat /\ SumFunctionOnSet(F, H) \in Nat
  BY <1>1, <1>2, SumType
<1>10. QED
  BY <1>3, <1>6, <1>7, <1>8, <1>9

----------------------------------------------------------------------------
(* Type correctness.                                                       *)

LEMMA NoEventType == NoEvent \in Events
BY QuotaAssumption DEF NoEvent

LEMMA TypeInit == QuotaInit => QuotaTypeOK
<1> SUFFICES ASSUME QuotaInit PROVE QuotaTypeOK
  OBVIOUS
<1>1. CallTypeOK
  BY NoEventType DEF QuotaInit, CallTypeOK, Commands
<1>2. counter = 0 /\ expiring = FALSE /\ limit \in Limits
  BY DEF QuotaInit
<1>3. {admitted, recorded, leaked, forgiven} \subseteq Nat
  BY DEF QuotaInit
<1>4. times \in [Events -> Nat] /\ dedup = {} /\ raced = {} /\ dropped = {}
  BY DEF QuotaInit
<1>5. faults \in 0 .. MaxFaults
  BY FaultAssumption DEF QuotaInit
<1>6. counter \in Int /\ {dedup, raced, dropped} \subseteq SUBSET Events
  BY <1>2, <1>4
<1>7. expiring \in BOOLEAN
  BY <1>2
<1>8. QED
  BY <1>1, <1>2, <1>3, <1>4, <1>5, <1>6, <1>7 DEF QuotaTypeOK

LEMMA FaultBound ==
  ASSUME faults \in 0 .. MaxFaults, NEW k, Fault(k)
  PROVE  faults' \in 0 .. MaxFaults
BY FaultAssumption DEF Fault

LEMMA EndKeepsType ==
  ASSUME CallTypeOK, NEW H \in SUBSET Handlers, End(H)
  PROVE  CallTypeOK'
BY NoEventType DEF CallTypeOK, End, Commands

LEMMA CallKeepsType ==
  ASSUME CallTypeOK, NEW h \in Handlers, NEW command \in Commands, NEW a \in Nat,
         Call(h, command, a), command # "decrby", UNCHANGED counted
  PROVE  /\ pc' \in [Handlers -> Commands]
         /\ amount' \in [Handlers -> Nat]
         /\ \A g \in Handlers : counted'[g] => pc'[g] = "decrby"
BY DEF CallTypeOK, Call, Commands

LEMMA TypeNext == QuotaTypeOK /\ [QuotaNext]_quotaVars => QuotaTypeOK'
<1> SUFFICES ASSUME QuotaTypeOK, [QuotaNext]_quotaVars PROVE QuotaTypeOK'
  OBVIOUS
<1> USE DEF QuotaTypeOK
<1>1. ASSUME NEW h \in Handlers, NEW a \in Amounts, CheckQuota(h, a)
      PROVE  QuotaTypeOK'
  <2>1. a \in Nat /\ "incrby" \in Commands /\ limit \in Nat
    BY QuotaAssumption DEF Commands
  <2>2. /\ pc' \in [Handlers -> Commands]
        /\ amount' \in [Handlers -> Nat]
        /\ \A g \in Handlers : counted'[g] => pc'[g] = "decrby"
    BY <1>1, <2>1, CallKeepsType DEF CheckQuota
  <2>3. CallTypeOK'
    BY <1>1, <2>1, <2>2 DEF CheckQuota, CallTypeOK
  <2>4. QED
    BY <1>1, <2>3 DEF CheckQuota, periodVars, eventVars
<1>2. ASSUME NEW h \in Handlers, NEW a \in Amounts, NEW e \in Events, RecordUsage(h, e, a)
      PROVE  QuotaTypeOK'
  <2>1. a \in Nat /\ "setex" \in Commands
    BY QuotaAssumption DEF Commands
  <2>2. /\ pc' \in [Handlers -> Commands]
        /\ amount' \in [Handlers -> Nat]
        /\ \A g \in Handlers : counted'[g] => pc'[g] = "decrby"
    BY <1>2, <2>1, CallKeepsType DEF RecordUsage
  <2>3. CallTypeOK'
    BY <1>2, <2>2 DEF RecordUsage, CallTypeOK
  <2>4. raced' \in SUBSET Events
    BY <1>2 DEF RecordUsage
  <2>5. QED
    BY <1>2, <2>3, <2>4 DEF RecordUsage, periodVars
<1>3. ASSUME NEW h \in Handlers, IncrBy(h)
      PROVE  QuotaTypeOK'
  <2>1. amount[h] \in Nat
    BY DEF CallTypeOK
  <2>2. counter' \in Int /\ expiring' \in BOOLEAN
    BY <1>3, <2>1 DEF IncrBy
  <2>3. CASE counter' <= bound[h]
    <3>1. CallTypeOK'
      BY <1>3, <2>3, EndKeepsType DEF IncrBy, Allow, Return
    <3>2. admitted' \in Nat
      BY <1>3, <2>1, <2>3 DEF IncrBy, Allow
    <3>3. QED
      BY <1>3, <2>2, <3>1, <3>2 DEF IncrBy, eventVars
  <2>4. CASE ~ (counter' <= bound[h])
    <3>1. CallTypeOK'
      BY <1>3, <2>4 DEF IncrBy, CallTypeOK, Commands
    <3>2. QED
      BY <1>3, <2>2, <2>4, <3>1 DEF IncrBy, eventVars
  <2>5. QED
    BY <2>3, <2>4
<1>4. ASSUME NEW h \in Handlers, IncrByFails(h)
      PROVE  QuotaTypeOK'
  <2>1. amount[h] \in Nat
    BY DEF CallTypeOK
  <2>2. counter' \in Int /\ expiring' \in BOOLEAN /\ leaked' \in Nat
    <3>1. CASE UNCHANGED <<counter, expiring, leaked>>
      BY <3>1
    <3>2. CASE counter' = counter + amount[h] /\ expiring' = TRUE /\ leaked' = leaked + amount[h]
      BY <2>1, <3>2
    <3>3. QED
      BY <1>4, <3>1, <3>2 DEF IncrByFails
  <2>3. CallTypeOK'
    BY <1>4, EndKeepsType DEF IncrByFails, Return
  <2>4. faults' \in 0 .. MaxFaults
    BY <1>4, FaultBound DEF IncrByFails
  <2>5. QED
    BY <1>4, <2>2, <2>3, <2>4 DEF IncrByFails, eventVars
<1>5. ASSUME NEW h \in Handlers, DecrBy(h)
      PROVE  QuotaTypeOK'
  <2>1. amount[h] \in Nat
    BY DEF CallTypeOK
  <2>2. counter' \in Int /\ forgiven' \in Nat
    BY <1>5, <2>1 DEF DecrBy, TakeBack
  <2>3. CallTypeOK'
    BY <1>5, EndKeepsType DEF DecrBy, Return
  <2>4. QED
    BY <1>5, <2>2, <2>3 DEF DecrBy, eventVars
<1>6. ASSUME NEW h \in Handlers, DecrByFails(h)
      PROVE  QuotaTypeOK'
  <2>1. amount[h] \in Nat
    BY DEF CallTypeOK
  <2>2. counter' \in Int /\ forgiven' \in Nat /\ leaked' \in Nat
    BY <1>6, <2>1 DEF DecrByFails, TakeBack
  <2>3. CallTypeOK'
    BY <1>6, EndKeepsType DEF DecrByFails, Return
  <2>4. faults' \in 0 .. MaxFaults
    BY <1>6, FaultBound DEF DecrByFails
  <2>5. QED
    BY <1>6, <2>2, <2>3, <2>4 DEF DecrByFails, eventVars
<1>7. ASSUME NEW h \in Handlers, SetEx(h)
      PROVE  QuotaTypeOK'
  <2>1. CallTypeOK'
    BY <1>7 DEF SetEx, CallTypeOK, Commands
  <2>2. dedup' \in SUBSET Events
    BY <1>7 DEF SetEx, CallTypeOK
  <2>3. QED
    BY <1>7, <2>1, <2>2 DEF SetEx, periodVars
<1>8. ASSUME NEW h \in Handlers, Added(h)
      PROVE  counter' \in Int /\ recorded' \in Nat /\ times' \in [Events -> Nat]
  <2>1. amount[h] \in Nat /\ event[h] \in Events /\ times[event[h]] \in Nat
    BY DEF CallTypeOK
  <2>2. QED
    BY <1>8, <2>1 DEF Added
<1>9. ASSUME NEW h \in Handlers, Add(h)
      PROVE  QuotaTypeOK'
  <2>1. CallTypeOK'
    BY <1>9, EndKeepsType DEF Add, Return
  <2>2. QED
    BY <1>8, <1>9, <2>1 DEF Add
<1>10. ASSUME NEW h \in Handlers, RecordFails(h)
       PROVE  QuotaTypeOK'
  <2>1. event[h] \in Events
    BY DEF CallTypeOK
  <2>2. CallTypeOK'
    BY <1>10, EndKeepsType DEF RecordFails, Return
  <2>3. counter' \in Int /\ recorded' \in Nat /\ times' \in [Events -> Nat]
    BY <1>8, <1>10 DEF RecordFails
  <2>4. dedup' \in SUBSET Events /\ dropped' \in SUBSET Events
    BY <1>10, <2>1 DEF RecordFails
  <2>5. faults' \in 0 .. MaxFaults
    BY <1>10, FaultBound DEF RecordFails
  <2>6. QED
    BY <1>10, <2>2, <2>3, <2>4, <2>5 DEF RecordFails
<1>11. CASE Expire
  <2>1. CallTypeOK'
    BY <1>11 DEF Expire, CallTypeOK
  <2>2. faults' \in 0 .. MaxFaults
    BY <1>11, FaultBound DEF Expire
  <2>3. admitted' = 0 /\ recorded' = 0 /\ leaked' = 0 /\ forgiven' = 0
    BY <1>11 DEF Expire
  <2>4. counter' = 0 /\ expiring' = FALSE /\ limit' \in Limits
    BY <1>11 DEF Expire
  <2>5. times' \in [Events -> Nat] /\ ({dedup, raced, dropped} \subseteq SUBSET Events)'
    BY <1>11 DEF Expire, eventVars
  <2>6. counter' \in Int /\ ({admitted, recorded, leaked, forgiven} \subseteq Nat)'
    BY <2>3, <2>4
  <2>7. expiring' \in BOOLEAN
    BY <2>4
  <2>8. QED
    BY <2>1, <2>2, <2>4, <2>5, <2>6, <2>7
<1>12. ASSUME NEW H \in SUBSET Handlers, Crash(H)
       PROVE  QuotaTypeOK'
  <2>1. CallTypeOK'
    BY <1>12, EndKeepsType DEF Crash
  <2>2. leaked' \in Nat
    BY <1>12, InFlightType DEF Crash
  <2>3. dropped' \in SUBSET Events
    BY <1>12 DEF Crash, CallTypeOK
  <2>4. faults' \in 0 .. MaxFaults
    BY <1>12, FaultBound DEF Crash
  <2>5. QED
    BY <1>12, <2>1, <2>2, <2>3, <2>4 DEF Crash
<1>13. ASSUME NEW e \in Events, Forget(e)
       PROVE  QuotaTypeOK'
  <2>1. CallTypeOK'
    BY <1>13 DEF Forget, callVars, CallTypeOK
  <2>2. times' \in [Events -> Nat]
    BY <1>13 DEF Forget
  <2>3. QED
    BY <1>13, <2>1, <2>2 DEF Forget, periodVars
<1>14. ASSUME NEW n \in Limits, SetLimit(n)
       PROVE  QuotaTypeOK'
  <2>1. CallTypeOK'
    BY <1>14 DEF SetLimit, callVars, CallTypeOK
  <2>2. faults' \in 0 .. MaxFaults
    BY <1>14, FaultBound DEF SetLimit
  <2>3. QED
    BY <1>14, <2>1, <2>2 DEF SetLimit, periodVars, eventVars
<1>15. CASE UNCHANGED quotaVars
  BY <1>15 DEF quotaVars, callVars, periodVars, eventVars, CallTypeOK
<1>16. QED
  BY <1>1, <1>2, <1>3, <1>4, <1>5, <1>6, <1>7, <1>9, <1>10, <1>11, <1>12, <1>13, <1>14, <1>15
     DEF QuotaNext, Serve

(* The service's variables keep their types.                               *)
THEOREM QuotaTypeCorrect == QuotaSpec => []QuotaTypeOK
BY TypeInit, TypeNext, PTL DEF QuotaSpec

----------------------------------------------------------------------------
(* The counter.                                                            *)

(* The end of the call of one thread takes its part out.                   *)
LEMMA InFlightReturn ==
  ASSUME CallTypeOK, CallTypeOK', NEW h \in Handlers, Return(h)
  PROVE  InFlight(Handlers)' = InFlight(Handlers) - Pending[h]
<1>1. \A g \in Handlers \ {h} : Pending'[g] = Pending[g]
  BY DEF Return, End, Pending, CallTypeOK
<1>2. Pending'[h] = 0
  BY DEF Return, End, Pending, CallTypeOK
<1>3. Pending[h] \in Nat /\ InFlight(Handlers) \in Int
  BY PendingType, InFlightType
<1>4. QED
  BY <1>1, <1>2, <1>3, InFlightOne

LEMMA CounterInit == QuotaInit => CounterExplained
<1> SUFFICES ASSUME QuotaInit PROVE CounterExplained
  OBVIOUS
<1>1. Pending \in [Handlers -> Nat] /\ \A h \in Handlers : Pending[h] = 0
  BY DEF QuotaInit, Pending
<1>2. InFlight(Handlers) = 0
  BY <1>1, SumZero, QuotaAssumption DEF InFlight
<1>3. QED
  BY <1>2 DEF QuotaInit, CounterExplained

LEMMA CounterNext ==
  ASSUME QuotaTypeOK, CounterExplained, [QuotaNext]_quotaVars
  PROVE  CounterExplained'
<1>1. QuotaTypeOK'
  BY TypeNext
<1>2. CallTypeOK /\ CallTypeOK'
  BY <1>1 DEF QuotaTypeOK
<1>3. {counter, admitted, recorded, leaked, forgiven} \subseteq Int
  BY DEF QuotaTypeOK
<1>4. InFlight(Handlers) \in Nat
  BY <1>2, InFlightType
<1>5. ASSUME UNCHANGED <<counter, admitted, recorded, leaked, forgiven>>,
             \A h \in Handlers : Pending'[h] = Pending[h]
      PROVE  CounterExplained'
  <2>1. InFlight(Handlers)' = InFlight(Handlers)
    BY <1>2, <1>5, InFlightSame
  <2>2. QED
    BY <1>5, <2>1 DEF CounterExplained
<1>6. \A h \in Handlers : amount[h] \in Nat /\ counted[h] \in BOOLEAN
  BY <1>2 DEF CallTypeOK
<1>7. \A h \in Handlers : Pending[h] = IF counted[h] THEN amount[h] ELSE 0
  BY DEF Pending
<1>8. \A h \in Handlers : Pending'[h] = IF counted'[h] THEN amount'[h] ELSE 0
  BY DEF Pending
<1>9. ASSUME NEW h \in Handlers, NEW a \in Amounts, CheckQuota(h, a)
      PROVE  CounterExplained'
  <2>1. \A g \in Handlers : Pending'[g] = Pending[g]
    BY <1>2, <1>7, <1>8, <1>9 DEF CheckQuota, Call, CallTypeOK
  <2>2. QED
    BY <1>5, <1>9, <2>1 DEF CheckQuota, periodVars
<1>10. ASSUME NEW h \in Handlers, NEW a \in Amounts, NEW e \in Events, RecordUsage(h, e, a)
       PROVE  CounterExplained'
  <2>1. \A g \in Handlers : Pending'[g] = Pending[g]
    BY <1>2, <1>7, <1>8, <1>10 DEF RecordUsage, Call, CallTypeOK
  <2>2. QED
    BY <1>5, <1>10, <2>1 DEF RecordUsage, periodVars
<1>11. ASSUME NEW h \in Handlers, IncrBy(h)
       PROVE  CounterExplained'
  <2>1. Pending[h] = 0
    BY <1>2, <1>11, PendingIdle DEF IncrBy
  <2>2. CASE counter' <= bound[h]
    <3>1. InFlight(Handlers)' = InFlight(Handlers) - Pending[h]
      BY <1>2, <1>11, <2>2, InFlightReturn DEF IncrBy, Allow
    <3>2. admitted' = admitted + amount[h]
      BY <1>11, <2>2 DEF IncrBy, Allow
    <3>3. QED
      BY <1>3, <1>4, <1>6, <1>11, <2>1, <3>1, <3>2 DEF IncrBy, CounterExplained
  <2>3. CASE ~ (counter' <= bound[h])
    <3>1. \A g \in Handlers \ {h} : Pending'[g] = Pending[g]
      BY <1>2, <1>7, <1>8, <1>11, <2>3 DEF IncrBy, CallTypeOK
    <3>2. Pending'[h] = amount[h]
      BY <1>2, <1>8, <1>11, <2>3 DEF IncrBy, CallTypeOK
    <3>3. InFlight(Handlers)' = InFlight(Handlers) - Pending[h] + Pending'[h]
      BY <1>2, <3>1, InFlightOne
    <3>4. QED
      BY <1>3, <1>4, <1>6, <1>11, <2>1, <2>3, <3>2, <3>3 DEF IncrBy, CounterExplained
  <2>4. QED
    BY <2>2, <2>3
<1>12. ASSUME NEW h \in Handlers, IncrByFails(h)
       PROVE  CounterExplained'
  <2>1. Pending[h] = 0
    BY <1>2, <1>12, PendingIdle DEF IncrByFails
  <2>2. InFlight(Handlers)' = InFlight(Handlers) - Pending[h]
    BY <1>2, <1>12, InFlightReturn DEF IncrByFails
  <2>3. \/ UNCHANGED <<counter, leaked>>
        \/ counter' = counter + amount[h] /\ leaked' = leaked + amount[h]
    BY <1>12 DEF IncrByFails
  <2>4. QED
    BY <1>3, <1>4, <1>6, <1>12, <2>1, <2>2, <2>3 DEF IncrByFails, CounterExplained
<1>13. ASSUME NEW h \in Handlers, DecrBy(h)
       PROVE  CounterExplained'
  <2>1. InFlight(Handlers)' = InFlight(Handlers) - Pending[h]
    BY <1>2, <1>13, InFlightReturn DEF DecrBy
  <2>2. QED
    BY <1>3, <1>4, <1>6, <1>7, <1>13, <2>1 DEF DecrBy, TakeBack, CounterExplained
<1>14. ASSUME NEW h \in Handlers, DecrByFails(h)
       PROVE  CounterExplained'
  <2>1. InFlight(Handlers)' = InFlight(Handlers) - Pending[h]
    BY <1>2, <1>14, InFlightReturn DEF DecrByFails
  <2>2. CASE TakeBack(h) /\ UNCHANGED leaked
    BY <1>3, <1>4, <1>6, <1>7, <1>14, <2>1, <2>2 DEF DecrByFails, TakeBack, CounterExplained
  <2>3. CASE /\ leaked' = IF counted[h] THEN leaked + amount[h] ELSE leaked
             /\ UNCHANGED <<counter, forgiven>>
    BY <1>3, <1>4, <1>6, <1>7, <1>14, <2>1, <2>3 DEF DecrByFails, CounterExplained
  <2>4. QED
    BY <1>14, <2>2, <2>3 DEF DecrByFails
<1>15. ASSUME NEW h \in Handlers, SetEx(h)
       PROVE  CounterExplained'
  <2>1. \A g \in Handlers : Pending'[g] = Pending[g]
    BY <1>7, <1>8, <1>15 DEF SetEx
  <2>2. QED
    BY <1>5, <1>15, <2>1 DEF SetEx, periodVars
<1>16. ASSUME NEW h \in Handlers, Add(h)
       PROVE  CounterExplained'
  <2>1. Pending[h] = 0
    BY <1>2, <1>16, PendingIdle DEF Add
  <2>2. InFlight(Handlers)' = InFlight(Handlers) - Pending[h]
    BY <1>2, <1>16, InFlightReturn DEF Add
  <2>3. QED
    BY <1>3, <1>4, <1>6, <1>16, <2>1, <2>2 DEF Add, Added, CounterExplained
<1>17. ASSUME NEW h \in Handlers, RecordFails(h)
       PROVE  CounterExplained'
  <2>1. Pending[h] = 0
    BY <1>2, <1>17, PendingIdle DEF RecordFails
  <2>2. InFlight(Handlers)' = InFlight(Handlers) - Pending[h]
    BY <1>2, <1>17, InFlightReturn DEF RecordFails
  <2>3. \/ UNCHANGED <<counter, recorded>>
        \/ counter' = counter + amount[h] /\ recorded' = recorded + amount[h]
    BY <1>17 DEF RecordFails, Added
  <2>4. QED
    BY <1>3, <1>4, <1>6, <1>17, <2>1, <2>2, <2>3 DEF RecordFails, CounterExplained
<1>18. CASE Expire
  <2> DEFINE G == Pending'
  <2>1. G \in [Handlers -> Nat]
    BY <1>2 DEF Pending, CallTypeOK
  <2>2. \A h \in Handlers : G[h] = 0
    BY <1>18 DEF Expire, Pending
  <2>3. InFlight(Handlers)' = SumFunctionOnSet(G, Handlers)
    BY DEF InFlight
  <2> HIDE DEF G
  <2>4. InFlight(Handlers)' = 0
    BY <2>1, <2>2, <2>3, SumZero, QuotaAssumption
  <2>5. QED
    BY <1>18, <2>4 DEF Expire, CounterExplained
<1>19. ASSUME NEW H \in SUBSET Handlers, Crash(H)
       PROVE  CounterExplained'
  <2>1. InFlight(Handlers)' = InFlight(Handlers) - InFlight(H)
    BY <1>2, <1>19, InFlightEnd DEF Crash
  <2>2. InFlight(H) \in Nat
    BY <1>2, InFlightType
  <2>3. QED
    BY <1>3, <1>4, <1>19, <2>1, <2>2 DEF Crash, CounterExplained
<1>20. ASSUME NEW e \in Events, Forget(e)
       PROVE  CounterExplained'
  <2>1. \A g \in Handlers : Pending'[g] = Pending[g]
    BY <1>7, <1>8, <1>20 DEF Forget, callVars
  <2>2. QED
    BY <1>5, <1>20, <2>1 DEF Forget, periodVars
<1>21. ASSUME NEW n \in Limits, SetLimit(n)
       PROVE  CounterExplained'
  <2>1. \A g \in Handlers : Pending'[g] = Pending[g]
    BY <1>7, <1>8, <1>21 DEF SetLimit, callVars
  <2>2. QED
    BY <1>5, <1>21, <2>1 DEF SetLimit, periodVars
<1>22. CASE UNCHANGED quotaVars
  <2>1. \A g \in Handlers : Pending'[g] = Pending[g]
    BY <1>7, <1>8, <1>22 DEF quotaVars, callVars
  <2>2. QED
    BY <1>5, <1>22, <2>1 DEF quotaVars, periodVars
<1>23. QED
  BY <1>9, <1>10, <1>11, <1>12, <1>13, <1>14, <1>15, <1>16, <1>17, <1>18, <1>19, <1>20, <1>21, <1>22
     DEF QuotaNext, Serve

(* The counter in Redis is what was allowed and recorded in the period and *)
(* what is about to be taken back, but for what a failure leaves in it or  *)
(* takes out of it, whatever the calls and their order.                    *)
THEOREM QuotaCounterCorrect == QuotaSpec => []CounterExplained
<1>1. QuotaInit => QuotaTypeOK /\ CounterExplained
  BY TypeInit, CounterInit
<1>2. QuotaTypeOK /\ CounterExplained /\ [QuotaNext]_quotaVars => (QuotaTypeOK /\ CounterExplained)'
  BY TypeNext, CounterNext
<1>3. QED
  BY <1>1, <1>2, PTL DEF QuotaSpec

(* One step lets no check through beyond the limit that it has read.       *)
LEMMA AdmittedStep ==
  ASSUME QuotaTypeOK, CounterExplained, [QuotaNext]_quotaVars
  PROVE  \A h \in Handlers :
           pc[h] = "incrby" /\ admitted' > admitted
             => admitted' <= bound[h] + forgiven \/ pc'[h] = "incrby"
<1> SUFFICES ASSUME NEW h \in Handlers, pc[h] = "incrby", admitted' > admitted,
                    pc'[h] # "incrby"
             PROVE  admitted' <= bound[h] + forgiven
  OBVIOUS
<1>1. QuotaTypeOK'
  BY TypeNext
<1>2. admitted \in Nat /\ \A g \in Handlers : pc[g] = "incrby" => pc[g] # "decrby"
  BY DEF QuotaTypeOK
<1>3. IncrBy(h)
  <2>1. PICK g \in Handlers : IncrBy(g)
    <3>1. ~ (UNCHANGED admitted \/ admitted' = 0)
      BY <1>2
    <3>2. QED
      BY <3>1 DEF QuotaNext, Serve, quotaVars, CheckQuota, RecordUsage, IncrByFails, DecrBy, DecrByFails,
                  SetEx, Add, RecordFails, Expire, Crash, Forget, SetLimit, periodVars
  <2>2. g = h
    <3> SUFFICES ASSUME g # h PROVE pc'[h] = pc[h]
      OBVIOUS
    <3>1. QED
      BY <2>1 DEF IncrBy, Allow, Return, End, QuotaTypeOK, CallTypeOK
  <2>3. QED
    BY <2>1, <2>2
<1>4. counter' <= bound[h]
  BY <1>2, <1>3 DEF IncrBy
<1>5. CounterExplained'
  BY CounterNext
<1>6. InFlight(Handlers)' \in Nat
  <2> DEFINE G == Pending'
  <2>1. G \in [Handlers -> Nat]
    BY <1>1 DEF Pending, QuotaTypeOK, CallTypeOK
  <2>2. InFlight(Handlers)' = SumFunctionOnSet(G, Handlers)
    BY DEF InFlight
  <2> HIDE DEF G
  <2>3. QED
    BY <2>1, <2>2, SumType, QuotaAssumption
<1>7. {admitted', recorded', leaked', forgiven', bound[h]} \subseteq Nat
  BY <1>1 DEF QuotaTypeOK, CallTypeOK
<1>8. forgiven' = forgiven
  BY <1>3 DEF IncrBy
<1>9. QED
  BY <1>4, <1>5, <1>6, <1>7, <1>8 DEF CounterExplained

(* A check that is allowed leaves what was allowed in the period within    *)
(* the limit it has read, however many others run beside it, unless a      *)
(* rollback of an earlier period has come late.                            *)
THEOREM QuotaLimitKept == QuotaSpec => AdmittedWithinLimit
<1>1. QuotaInit => QuotaTypeOK /\ CounterExplained
  BY TypeInit, CounterInit
<1>2. QuotaTypeOK /\ CounterExplained /\ [QuotaNext]_quotaVars => (QuotaTypeOK /\ CounterExplained)'
  BY TypeNext, CounterNext
<1>3. QuotaTypeOK /\ CounterExplained /\ [QuotaNext]_quotaVars
        => [\A h \in Handlers :
              pc[h] = "incrby" /\ admitted' > admitted
                => admitted' <= bound[h] + forgiven \/ pc'[h] = "incrby"]_quotaVars
  BY AdmittedStep
<1>4. QED
  BY <1>1, <1>2, <1>3, PTL DEF QuotaSpec, AdmittedWithinLimit

----------------------------------------------------------------------------
(* The events.                                                             *)

LEMMA EventInit == QuotaInit => \A e \in Events : EventInv(e)
BY DEF QuotaInit, EventInv, OneRecords, KeySet, KeyUsed, Recording

(* A step that leaves the calls of record_usage and their keys alone.      *)
LEMMA EventSame ==
  ASSUME NEW e \in Events, EventInv(e), UNCHANGED eventVars,
         \A h \in Handlers : pc[h] \in {"setex", "add"} \/ pc'[h] \in {"setex", "add"}
                               => pc'[h] = pc[h] /\ event'[h] = event[h]
  PROVE  EventInv(e)'
<1>1. \A h \in Handlers : Recording(h, e)' <=> Recording(h, e)
  BY DEF Recording
<1>2. \A h \in Handlers : Recording(h, e) => pc'[h] = pc[h]
  BY DEF Recording
<1>3. OneRecords(e)'
  BY <1>1, <1>2 DEF EventInv, OneRecords, eventVars
<1>4. KeySet(e)'
  BY <1>1, <1>2 DEF EventInv, KeySet, eventVars
<1>5. KeyUsed(e)'
  BY DEF EventInv, KeyUsed, eventVars
<1>6. QED
  BY <1>3, <1>4, <1>5 DEF EventInv

(* The end of the call of a thread that does not record.                   *)
LEMMA EventReturn ==
  ASSUME CallTypeOK, NEW e \in Events, EventInv(e), UNCHANGED eventVars,
         NEW h \in Handlers, pc[h] \notin {"setex", "add"}, Return(h)
  PROVE  EventInv(e)'
<1>1. \A g \in Handlers : pc[g] \in {"setex", "add"} \/ pc'[g] \in {"setex", "add"}
                               => pc'[g] = pc[g] /\ event'[g] = event[g]
  BY DEF Return, End
<1>2. QED
  BY <1>1, EventSame

(* After it nobody records but those who did.                              *)
LEMMA EndRecords ==
  ASSUME NEW H \in SUBSET Handlers, End(H), NEW e \in Events, NEW g \in Handlers
  PROVE  /\ Recording(g, e)' => g \notin H /\ Recording(g, e) /\ pc'[g] = pc[g]
         /\ g \notin H => pc'[g] = pc[g] /\ event'[g] = event[g]
BY DEF End, Recording

LEMMA EventNext ==
  ASSUME QuotaTypeOK, NEW e \in Events, EventInv(e), [QuotaNext]_quotaVars
  PROVE  EventInv(e)'
<1> USE DEF EventInv
<1>1. CallTypeOK /\ times[e] \in Nat
  BY DEF QuotaTypeOK
<1>2. ASSUME NEW h \in Handlers, NEW a \in Amounts, CheckQuota(h, a)
      PROVE  EventInv(e)'
  BY <1>1, <1>2, EventSame DEF CheckQuota, Call, CallTypeOK
<1>3. ASSUME NEW h \in Handlers, NEW a \in Amounts, NEW f \in Events, RecordUsage(h, f, a)
      PROVE  EventInv(e)'
  <2>1. /\ pc[h] = "idle" /\ pc'[h] = "setex" /\ event'[h] = f
        /\ \A g \in Handlers \ {h} : pc'[g] = pc[g] /\ event'[g] = event[g]
    BY <1>1, <1>3 DEF RecordUsage, Call, CallTypeOK
  <2>2. \A g \in Handlers \ {h} : Recording(g, e)' <=> Recording(g, e)
    BY <2>1 DEF Recording
  <2>3. Recording(h, e)' <=> e = f
    BY <2>1 DEF Recording
  <2>4. UNCHANGED <<dedup, times, dropped>>
    BY <1>3 DEF RecordUsage
  <2>5. KeySet(e)'
    BY <2>1, <2>2, <2>4 DEF KeySet
  <2>6. KeyUsed(e)'
    BY <2>1, <2>4 DEF KeyUsed
  <2>7. OneRecords(e)'
    <3>1. CASE e # f
      <4>1. e \in raced' <=> e \in raced
        BY <1>3, <3>1 DEF RecordUsage
      <4>2. ~ Recording(h, e)'
        BY <2>3, <3>1
      <4>3. QED
        BY <2>1, <2>2, <2>4, <4>1, <4>2 DEF OneRecords
    <3>2. CASE e = f
      <4>1. e \notin dedup
        BY <1>3, <3>2 DEF RecordUsage
      <4>2. \A g \in Handlers : ~ (Recording(g, e) /\ pc[g] = "add")
        BY <4>1 DEF KeySet
      <4>3. e \notin raced' => \A g \in Handlers : ~ Recording(g, e)
        BY <1>3, <3>2, <4>2 DEF RecordUsage, Recording
      <4>4. times[e] = 0
        BY <1>1, <4>1 DEF KeySet
      <4>5. QED
        BY <2>2, <2>4, <4>1, <4>3, <4>4 DEF OneRecords
    <3>3. QED
      BY <3>1, <3>2
  <2>8. QED
    BY <2>5, <2>6, <2>7
<1>4. ASSUME NEW h \in Handlers, IncrBy(h)
      PROVE  EventInv(e)'
  <2>1. pc[h] \notin {"setex", "add"} /\ UNCHANGED eventVars
    BY <1>4 DEF IncrBy
  <2>2. CASE counter' <= bound[h]
    BY <1>1, <1>4, <2>1, <2>2, EventReturn DEF IncrBy, Allow
  <2>3. CASE ~ (counter' <= bound[h])
    BY <1>1, <1>4, <2>1, <2>3, EventSame DEF IncrBy, CallTypeOK
  <2>4. QED
    BY <2>2, <2>3
<1>5. ASSUME NEW h \in Handlers, IncrByFails(h)
      PROVE  EventInv(e)'
  BY <1>1, <1>5, EventReturn DEF IncrByFails
<1>6. ASSUME NEW h \in Handlers, DecrBy(h)
      PROVE  EventInv(e)'
  BY <1>1, <1>6, EventReturn DEF DecrBy
<1>7. ASSUME NEW h \in Handlers, DecrByFails(h)
      PROVE  EventInv(e)'
  BY <1>1, <1>7, EventReturn DEF DecrByFails
<1>8. ASSUME NEW h \in Handlers, SetEx(h)
      PROVE  EventInv(e)'
  <2>1. /\ pc[h] = "setex" /\ pc'[h] = "add"
        /\ \A g \in Handlers \ {h} : pc'[g] = pc[g]
        /\ UNCHANGED <<event, times, raced, dropped>>
        /\ dedup' = dedup \cup {event[h]}
    BY <1>1, <1>8 DEF SetEx, CallTypeOK
  <2>2. \A g \in Handlers : Recording(g, e)' <=> Recording(g, e)
    BY <2>1 DEF Recording
  <2>3. e \in dedup' <=> e \in dedup \/ event[h] = e
    BY <2>1
  <2>4. KeySet(e)'
    BY <2>1, <2>2, <2>3 DEF KeySet, Recording
  <2>5. KeyUsed(e)'
    BY <2>1, <2>3 DEF KeyUsed
  <2>6. OneRecords(e)'
    <3>1. SUFFICES ASSUME e \notin raced
                   PROVE  /\ times[e] <= 1
                          /\ \A g, k \in Handlers : Recording(g, e) /\ Recording(k, e) => g = k
                          /\ \A g \in Handlers : Recording(g, e) => times[e] = 0
                          /\ \A g \in Handlers : Recording(g, e) /\ pc'[g] = "setex"
                                                   => e \notin dedup'
      BY <2>1, <2>2 DEF OneRecords
    <3>2. ASSUME NEW g \in Handlers, Recording(g, e), pc'[g] = "setex"
          PROVE  e \notin dedup'
      <4>1. g # h /\ pc[g] = "setex"
        BY <2>1, <3>2
      <4>2. ~ Recording(h, e)
        BY <3>1, <3>2, <4>1 DEF OneRecords
      <4>3. event[h] # e
        BY <2>1, <4>2 DEF Recording
      <4>4. QED
        BY <2>3, <3>1, <3>2, <4>1, <4>3 DEF OneRecords
    <3>3. QED
      BY <3>1, <3>2 DEF OneRecords
  <2>7. QED
    BY <2>4, <2>5, <2>6
<1>9. ASSUME NEW h \in Handlers, pc[h] = "add", Added(h), Return(h),
             UNCHANGED <<dedup, raced, dropped>>
      PROVE  EventInv(e)'
  <2>1. \A g \in Handlers :
          /\ Recording(g, e)' => g # h /\ Recording(g, e) /\ pc'[g] = pc[g]
          /\ g # h => pc'[g] = pc[g] /\ event'[g] = event[g]
    BY <1>9, EndRecords DEF Return
  <2>2. event[h] \in Events /\ times \in [Events -> Nat]
    BY DEF QuotaTypeOK, CallTypeOK
  <2>3. times'[e] = IF event[h] = e THEN times[e] + 1 ELSE times[e]
    BY <1>9, <2>2 DEF Added
  <2>4. CASE event[h] # e
    <3>1. times'[e] = times[e]
      BY <2>3, <2>4
    <3>2. OneRecords(e)'
      BY <1>9, <2>1, <3>1 DEF OneRecords
    <3>3. KeySet(e)'
      BY <1>9, <2>1, <3>1 DEF KeySet
    <3>4. KeyUsed(e)'
      BY <1>9, <2>1, <2>4, <3>1 DEF KeyUsed
    <3>5. QED
      BY <3>2, <3>3, <3>4
  <2>5. CASE event[h] = e
    <3>1. Recording(h, e) /\ times'[e] = times[e] + 1
      BY <1>9, <2>3, <2>5 DEF Recording
    <3>2. e \in dedup
      BY <1>9, <3>1 DEF KeySet
    <3>3. KeySet(e)'
      BY <1>9, <2>1, <3>2 DEF KeySet
    <3>4. KeyUsed(e)'
      BY <1>1, <1>9, <3>1 DEF KeyUsed
    <3>5. e \notin raced => \A g \in Handlers : ~ Recording(g, e)'
      BY <2>1, <3>1 DEF OneRecords
    <3>6. OneRecords(e)'
      BY <1>1, <1>9, <3>1, <3>5 DEF OneRecords
    <3>7. QED
      BY <3>3, <3>4, <3>6
  <2>6. QED
    BY <2>4, <2>5
<1>10. ASSUME NEW h \in Handlers, Add(h)
       PROVE  EventInv(e)'
  BY <1>9, <1>10 DEF Add
<1>11. ASSUME NEW H \in SUBSET Handlers, End(H), UNCHANGED <<times, raced>>,
              \/ UNCHANGED dedup
              \/ \E h \in H : /\ pc[h] = "setex"
                              /\ dedup' = dedup \cup {event[h]}
                              /\ dropped' = dropped \cup {event[h]},
              dropped \subseteq dropped',
              \A h \in H : pc[h] = "add" => event[h] \in dropped'
       PROVE  EventInv(e)'
  <2>1. \A g \in Handlers :
          /\ Recording(g, e)' => g \notin H /\ Recording(g, e) /\ pc'[g] = pc[g]
          /\ g \notin H => pc'[g] = pc[g] /\ event'[g] = event[g]
    BY <1>11, EndRecords
  <2>2. /\ dedup \subseteq dedup'
        /\ e \in dedup' =>
             \/ e \in dedup
             \/ e \in dropped' /\ \E h \in H : pc[h] = "setex" /\ event[h] = e
    <3>1. CASE UNCHANGED dedup
      BY <3>1
    <3>2. ASSUME NEW h \in H, pc[h] = "setex", dedup' = dedup \cup {event[h]},
                 dropped' = dropped \cup {event[h]}
          PROVE  /\ dedup \subseteq dedup'
                 /\ e \in dedup' =>
                      \/ e \in dedup
                      \/ e \in dropped' /\ \E g \in H : pc[g] = "setex" /\ event[g] = e
      BY <3>2
    <3>3. QED
      BY <1>11, <3>1, <3>2
  <2>3. dedup \subseteq dedup'
    BY <2>2
  <2>4. KeySet(e)'
    BY <1>11, <2>1, <2>3 DEF KeySet
  <2>5. KeyUsed(e)'
    BY <1>11, <2>1, <2>2 DEF KeyUsed
  <2>6. ASSUME e \notin raced, NEW g \in Handlers, Recording(g, e)', pc'[g] = "setex"
        PROVE  e \notin dedup'
    <3>1. Recording(g, e) /\ pc[g] = "setex" /\ g \notin H
      BY <2>1, <2>6
    <3>2. e \notin dedup
      BY <2>6, <3>1 DEF OneRecords
    <3>3. ~ \E h \in H : pc[h] = "setex" /\ event[h] = e
      BY <2>6, <3>1 DEF OneRecords, Recording
    <3>4. QED
      BY <2>2, <3>2, <3>3
  <2>7. OneRecords(e)'
    BY <1>11, <2>1, <2>6 DEF OneRecords
  <2>8. QED
    BY <2>4, <2>5, <2>7
<1>12. ASSUME NEW h \in Handlers, RecordFails(h)
       PROVE  EventInv(e)'
  <2>1. CASE /\ pc[h] = "setex"
             /\ \/ UNCHANGED <<dedup, dropped>>
                \/ dedup' = dedup \cup {event[h]} /\ dropped' = dropped \cup {event[h]}
             /\ UNCHANGED <<counter, recorded, times>>
    BY <1>11, <1>12, <2>1 DEF RecordFails, Return
  <2>2. CASE pc[h] = "add" /\ Added(h) /\ UNCHANGED dropped /\ UNCHANGED dedup
    BY <1>9, <1>12, <2>2 DEF RecordFails
  <2>3. CASE /\ pc[h] = "add" /\ dropped' = dropped \cup {event[h]}
             /\ UNCHANGED <<counter, recorded, times>> /\ UNCHANGED dedup
    BY <1>11, <1>12, <2>3 DEF RecordFails, Return
  <2>4. QED
    BY <1>12, <2>1, <2>2, <2>3 DEF RecordFails
<1>13. CASE Expire
  BY <1>13, EventSame DEF Expire
<1>14. ASSUME NEW H \in SUBSET Handlers, Crash(H)
       PROVE  EventInv(e)'
  BY <1>11, <1>14 DEF Crash
<1>15. ASSUME NEW f \in Events, Forget(f)
       PROVE  EventInv(e)'
  <2>1. UNCHANGED <<pc, event>>
    BY <1>15 DEF Forget, callVars
  <2>2. \A h \in Handlers : Recording(h, e)' <=> Recording(h, e)
    BY <2>1 DEF Recording
  <2>3. CASE e # f
    <3>1. /\ e \in dedup' <=> e \in dedup
          /\ e \in raced' <=> e \in raced
          /\ e \in dropped' <=> e \in dropped
          /\ times'[e] = times[e]
      BY <1>15, <2>3 DEF Forget, QuotaTypeOK
    <3>2. QED
      BY <2>1, <2>2, <3>1 DEF OneRecords, KeySet, KeyUsed
  <2>4. CASE e = f
    <3>1. e \notin dedup' /\ times'[e] = 0
      BY <1>15, <2>4 DEF Forget, QuotaTypeOK
    <3>2. \A h \in Handlers : ~ Recording(h, e)
      BY <1>15, <2>4 DEF Forget, Recording
    <3>3. QED
      BY <2>2, <3>1, <3>2 DEF OneRecords, KeySet, KeyUsed
  <2>5. QED
    BY <2>3, <2>4
<1>16. ASSUME NEW n \in Limits, SetLimit(n)
       PROVE  EventInv(e)'
  BY <1>16, EventSame DEF SetLimit, callVars
<1>17. CASE UNCHANGED quotaVars
  BY <1>17, EventSame DEF quotaVars, callVars
<1>18. QED
  BY <1>2, <1>3, <1>4, <1>5, <1>6, <1>7, <1>8, <1>10, <1>12, <1>13, <1>14, <1>15, <1>16, <1>17
     DEF QuotaNext, Serve

LEMMA EventImplies == (\A e \in Events : EventInv(e)) => EventsCounted
BY DEF EventInv, OneRecords, KeyUsed, EventsCounted

(* However calls for an event overlap, fail or are retried, it is counted  *)
(* once unless two of them pass EXISTS together, and what has a key has    *)
(* been counted, is about to be or belongs to a call that failed.          *)
THEOREM QuotaEventsCorrect == QuotaSpec => []EventsCounted
<1> DEFINE I == QuotaTypeOK /\ \A e \in Events : EventInv(e)
<1>1. QuotaInit => I
  BY TypeInit, EventInit
<1>2. I /\ [QuotaNext]_quotaVars => I'
  BY TypeNext, EventNext
<1>3. I => EventsCounted
  BY EventImplies
<1>4. QED
  BY <1>1, <1>2, <1>3, PTL DEF QuotaSpec

----------------------------------------------------------------------------
(* The consumer of the metadata service: the inductive invariants.         *)

(* Between events of a process in which nothing failed, and once a         *)
(* statement has, a transaction has done nothing; what it does it adds.    *)
TxFollows ==
  /\ (step.at = "poll" /\ ~ failed) \/ conn # "ok" => tx = db
  /\ db.entities \subseteq tx.entities
  /\ \A m \in Places : db.rows[m] <= tx.rows[m]

(* The failed checks that were announced, or need not be.                  *)
Settled == alerted \cup unheard \cup broken

(* A transaction that can still be committed has marked and announced all  *)
(* failures but those of the event at work.                                *)
TxFailuresKnown ==
  /\ db.marked = db.suspect
  /\ db.failing \subseteq Settled
  /\ conn = "ok" =>
       /\ step.at \notin {"edges", "mark"} => tx.marked = tx.suspect
       /\ step.at \notin {"mark", "alert"} => tx.failing \subseteq Settled
       /\ step.at \in {"edges", "mark"} =>
            /\ tx.marked \ {step.entity} = tx.suspect \ {step.entity}
            /\ step.entity \in tx.suspect <=> Finds(step.checks)
       /\ step.at = "edges" => step.entity \notin tx.marked
       /\ step.at \in {"mark", "alert"} => tx.failing \subseteq Settled \cup {step.place}
  /\ step.at = "mark" => Finds(step.checks)

(* The entities that events name.                                          *)
Logged == {e \in Published : \E p \in Partitions : \E i \in DOMAIN log[p] :
                               log[p][i] \in Created /\ log[p][i].entity = e}

(* What is stored was reported, and what was when the process began is.    *)
StoredLogged ==
  /\ tx.entities \subseteq Logged
  /\ known \subseteq db.entities

(* A process in which nothing failed has handled what it has read, but for *)
(* the references left to the event at work.                               *)
ReadHandled ==
  ~ failed =>
    /\ conn = "ok"
    /\ \A p \in Partitions : \A i \in 1 .. position[p] :
         log[p][i] \in Created =>
           /\ log[p][i].entity \in tx.entities
           /\ log[p][i].entity \in known =>
                \A u \in Upstream[log[p][i].entity] \cap known :
                  \/ <<u, log[p][i].entity>> \in tx.edges
                  \/ step.at = "edges" /\ step.entity = log[p][i].entity /\ u \in step.refs

(* The checks of the event at the place m have been inserted by the        *)
(* replays before this one and, if it is read and not at work, by this one.*)
RowsPaid ==
  /\ step.at = "edges" => step.place.off <= position[step.place.part]
  /\ \A m \in Places :
       IF m.off <= position[m.part] /\ ~ (step.at = "edges" /\ step.place = m)
       THEN tx.rows[m] <= replays + 1
       ELSE tx.rows[m] <= replays

----------------------------------------------------------------------------
(* Its types.                                                              *)

LEMMA StepShape ==
  ASSUME step \in Steps \cup {Polling, NoConsumer}
  PROVE  /\ step.at = "poll" => step = Polling
         /\ step.at \notin {"poll", "none"} =>
              /\ step \in Steps
              /\ step.place \in Places
              /\ step.entity \in Published
              /\ step.checks \in SUBSET Outcomes
              /\ step.refs \in SUBSET Entities
BY DEF Steps, Polling, NoConsumer

LEMMA GotoType ==
  ASSUME step \in Steps, NEW place \in {"edges", "mark", "alert", "commit"},
         Goto(place)
  PROVE  step' \in Steps
BY DEF Steps, Goto

LEMMA TablesShape ==
  ASSUME NEW t \in Tables
  PROVE  /\ t.entities \in SUBSET Published
         /\ t.edges \in SUBSET (Entities \X Published)
         /\ t.rows \in [Places -> Nat]
         /\ t.failing \in SUBSET Places
         /\ t.marked \in SUBSET Published
         /\ t.suspect \in SUBSET Published
BY DEF Tables

(* A place and what is at it.                                              *)
LEMMA PlaceType ==
  /\ \A p \in Partitions : \A i \in 1 .. Room[p] : [part |-> p, off |-> i] \in Places
  /\ \A m \in Places : m.part \in Partitions /\ m.off \in 1 .. Room[m.part]
                      /\ m = [part |-> m.part, off |-> m.off]
BY DEF Places

LEMMA EventType ==
  \A e \in Created : e.entity \in Published /\ e.checks \in SUBSET Outcomes
BY MetadataAssumption

LEMMA MetaFaultBound ==
  ASSUME faults \in 0 .. MaxFaults, NEW k, Fault(k)
  PROVE  faults' \in faults .. MaxFaults
BY FaultAssumption DEF Fault

LEMMA FailsType ==
  ASSUME TypeOK, NEW bad, Fails(bad)
  PROVE  /\ failed' = TRUE /\ tx' = db
         /\ conn' \in {"aborted", "closed"}
         /\ faults' \in faults .. MaxFaults
<1>1. failed' = TRUE /\ tx' = db
  BY DEF Fails
<1>2. conn' \in {"aborted", "closed"}
  BY DEF Fails, TypeOK
<1>3. faults' \in faults .. MaxFaults
  BY MetaFaultBound DEF Fails, TypeOK, NoFault
<1>4. QED
  BY <1>1, <1>2, <1>3

(* A refused upsert leaves the transaction, or ends it.                    *)
LEMMA RefusedType ==
  ASSUME TypeOK, NEW e, UpsertRefused(e)
  PROVE  /\ failed' = TRUE
         /\ \/ tx' = db /\ conn' \in {"aborted", "closed"}
            \/ tx' = tx /\ conn' = conn /\ conn = "ok"
         /\ faults' \in faults .. MaxFaults
<1>1. CASE \E bad : Fails(bad)
  BY <1>1, FailsType
<1>2. CASE Refused /\ UNCHANGED tx
  BY <1>2 DEF Refused, NoFault, TypeOK
<1>3. QED
  BY <1>1, <1>2 DEF UpsertRefused

LEMMA MetaTypeInit == Init => TypeOK
<1> SUFFICES ASSUME Init PROVE TypeOK
  OBVIOUS
<1>1. log \in [Partitions -> Seq(Created \cup Foreign)]
  BY DEF Init
<1>2. /\ position \in [Partitions -> Nat]
      /\ \A p \in Partitions : position[p] <= Len(log[p]) /\ Len(log[p]) <= Room[p]
  BY MetadataAssumption DEF Init
<1>3. step \in Steps \cup {Polling, NoConsumer}
  BY DEF Init
<1>4. db \in Tables /\ tx \in Tables
  BY DEF Init, Tables
<1>5. alerted = {} /\ unheard = {} /\ broken = {} /\ known = {} /\ conn = "ok"
  BY DEF Init
<1>6. failed = FALSE /\ replays = 0 /\ faults = 0 /\ MaxFaults \in Nat
  BY FaultAssumption DEF Init
<1>7. failed \in BOOLEAN
  BY <1>6
<1>8. faults \in 0 .. MaxFaults /\ replays \in 0 .. faults
  BY <1>6
<1>9. QED
  BY <1>1, <1>2, <1>3, <1>4, <1>5, <1>7, <1>8 DEF TypeOK

(* An event that is read is one of the log.                                *)
LEMMA ReadType ==
  ASSUME TypeOK, NEW p \in Partitions, Read(p)
  PROVE  /\ step.at = "poll"
         /\ position[p] \in Nat /\ position[p] + 1 \in 1 .. Len(log[p])
         /\ NextEvent(p) \in Created \cup Foreign
         /\ \A q \in Partitions : position'[q] = IF q = p THEN position[p] + 1 ELSE position[q]
         /\ position' \in [Partitions -> Nat]
         /\ \A q \in Partitions : position'[q] <= Len(log[q])
<1>1. step.at = "poll" /\ position[p] \in Nat /\ position[p] < Len(log[p])
  BY DEF Read, TypeOK
<1>2. log[p] \in Seq(Created \cup Foreign) /\ Len(log[p]) \in Nat
  BY DEF TypeOK
<1>3. position[p] \in Nat /\ position[p] + 1 \in 1 .. Len(log[p])
  BY <1>1, <1>2
<1>4. NextEvent(p) \in Created \cup Foreign
  BY <1>2, <1>3 DEF NextEvent
<1>5. \A q \in Partitions : position'[q] = IF q = p THEN position[p] + 1 ELSE position[q]
  BY DEF Read, TypeOK
<1>6. position' \in [Partitions -> Nat]
  BY DEF Read, TypeOK
<1>7. \A q \in Partitions : position'[q] <= Len(log[q])
  BY <1>3, <1>5 DEF TypeOK
<1>8. QED
  BY <1>1, <1>3, <1>4, <1>5, <1>6, <1>7

(* Publishing leaves what is in the log.                                   *)
LEMMA LogGrows ==
  ASSUME TypeOK, NEW e \in Created \cup Foreign, NEW p \in Partitions,
         Publish(e, p), NEW q \in Partitions
  PROVE  /\ DOMAIN log[q] \subseteq DOMAIN log'[q]
         /\ \A i \in DOMAIN log[q] : log'[q][i] = log[q][i]
         /\ Len(log[q]) <= Len(log'[q])
<1>1. log \in [Partitions -> Seq(Created \cup Foreign)]
  BY DEF TypeOK
<1>2. log' = [log EXCEPT ![p] = Append(log[p], e)]
  BY DEF Publish
<1>3. CASE q # p
  BY <1>1, <1>2, <1>3
<1>4. CASE q = p
  <2>1. log'[q] = Append(log[q], e) /\ log[q] \in Seq(Created \cup Foreign)
    BY <1>1, <1>2, <1>4
  <2>2. QED
    BY <2>1
<1>5. QED
  BY <1>3, <1>4

(* What is read is at a place of the log.                                  *)
LEMMA ReadPlace ==
  ASSUME TypeOK, NEW p \in Partitions, Read(p)
  PROVE  [part |-> p, off |-> position[p] + 1] \in Places
<1>1. position[p] \in Nat /\ position[p] + 1 \in 1 .. Len(log[p])
  BY ReadType
<1>2. Len(log[p]) <= Room[p] /\ Len(log[p]) \in Nat /\ Room[p] \in Nat
  BY MetadataAssumption DEF TypeOK
<1>3. QED
  BY <1>1, <1>2, PlaceType

(* The tables with the checks of the event at work.                        *)
LEMMA WithChecksType ==
  ASSUME TypeOK, step \in Steps
  PROVE  /\ WithChecks \in Tables
         /\ WithChecks.entities = tx.entities /\ WithChecks.edges = tx.edges
         /\ WithChecks.rows = [tx.rows EXCEPT ![step.place] = @ + 1]
         /\ WithChecks.failing = IF "failed" \in step.checks
                                 THEN tx.failing \cup {step.place} ELSE tx.failing
         /\ WithChecks.marked = tx.marked /\ WithChecks.suspect = tx.suspect
<1> DEFINE r == [tx.rows EXCEPT ![step.place] = @ + 1]
           f == IF "failed" \in step.checks THEN tx.failing \cup {step.place} ELSE tx.failing
<1>1. tx \in Tables /\ step.place \in Places
  BY DEF TypeOK, Steps
<1>2. r \in [Places -> Nat] /\ f \in SUBSET Places
  BY <1>1, TablesShape
<1>3. WithChecks = [tx EXCEPT !.rows = r, !.failing = f]
  BY <1>1 DEF WithChecks, Tables
<1> HIDE DEF r, f
<1>4. /\ WithChecks.entities = tx.entities /\ WithChecks.edges = tx.edges
      /\ WithChecks.rows = r /\ WithChecks.failing = f
      /\ WithChecks.marked = tx.marked /\ WithChecks.suspect = tx.suspect
      /\ WithChecks \in Tables
  BY <1>1, <1>2, <1>3 DEF Tables
<1>5. QED
  BY <1>4 DEF r, f

(* An entity is upserted.                                                  *)
LEMMA UpsertShape ==
  ASSUME TypeOK, NEW p \in Partitions, Upsert(p)
  PROVE  /\ NextEvent(p) \in Created /\ NextEvent(p).entity \in Published
         /\ NextEvent(p).entity \notin Malformed
         /\ conn = "ok" /\ conn' = "ok"
         /\ UNCHANGED <<log, db, alerted, unheard, broken, known, replays, failed, faults>>
         /\ tx' \in Tables
         /\ tx'.entities = tx.entities \cup {NextEvent(p).entity}
         /\ tx'.edges = tx.edges /\ tx'.rows = tx.rows /\ tx'.failing = tx.failing
         /\ tx'.marked = tx.marked \ {NextEvent(p).entity}
         /\ tx'.suspect = IF Finds(NextEvent(p).checks) THEN tx.suspect \cup {NextEvent(p).entity}
                                                        ELSE tx.suspect \ {NextEvent(p).entity}
         /\ step' \in Steps
         /\ step'.at = "edges" /\ step'.entity = NextEvent(p).entity
         /\ step'.place = [part |-> p, off |-> position[p] + 1]
         /\ step'.checks = NextEvent(p).checks
         /\ step'.refs = Upstream[NextEvent(p).entity]
<1> DEFINE e == NextEvent(p)
           s == IF Finds(e.checks) THEN tx.suspect \cup {e.entity} ELSE tx.suspect \ {e.entity}
           place == [part |-> p, off |-> position[p] + 1]
<1>1. /\ e \in Created /\ e.entity \notin Malformed /\ Read(p) /\ Executes
      /\ tx' = [tx EXCEPT !.entities = @ \cup {e.entity}, !.marked = @ \ {e.entity}, !.suspect = s]
      /\ step' = [at |-> "edges", place |-> place, entity |-> e.entity, checks |-> e.checks,
                  refs |-> Upstream[e.entity]]
      /\ UNCHANGED <<log, db, alerted, unheard, broken, known, replays>>
  BY DEF Upsert, alertVars, replayVars
<1>2. e.entity \in Published /\ e.checks \in SUBSET Outcomes
  BY <1>1, EventType
<1>3. Upstream[e.entity] \in SUBSET Entities
  BY <1>2, MetadataAssumption
<1>4. place \in Places
  BY <1>1, ReadPlace
<1>5. tx \in Tables
  BY DEF TypeOK
<1>6. s \in SUBSET Published
  BY <1>2, <1>5, TablesShape
<1>7. conn = "ok" /\ conn' = "ok" /\ UNCHANGED <<failed, faults>>
  BY <1>1 DEF Executes, NoFault
<1> HIDE DEF e, s, place
<1>8. /\ tx' \in Tables /\ tx'.entities = tx.entities \cup {e.entity}
      /\ tx'.edges = tx.edges /\ tx'.rows = tx.rows /\ tx'.failing = tx.failing
      /\ tx'.marked = tx.marked \ {e.entity} /\ tx'.suspect = s
  BY <1>1, <1>2, <1>5, <1>6 DEF Tables
<1>9. /\ step' \in Steps /\ step'.at = "edges" /\ step'.entity = e.entity
      /\ step'.place = place /\ step'.checks = e.checks /\ step'.refs = Upstream[e.entity]
  BY <1>1, <1>2, <1>3, <1>4 DEF Steps
<1>10. QED
  BY <1>1, <1>2, <1>7, <1>8, <1>9 DEF e, s, place

LEMMA MetaTypeNext ==
  ASSUME TypeOK, [Next]_vars
  PROVE  TypeOK'
<1> USE DEF TypeOK
<1>2. step.at \notin {"poll", "none"} =>
        step \in Steps /\ step.entity \in Published /\ step.place \in Places
        /\ step.refs \in SUBSET Entities
  BY StepShape
<1>3. /\ tx.entities \in SUBSET Published
      /\ tx.edges \in SUBSET (Entities \X Published)
      /\ tx.rows \in [Places -> Nat]
      /\ tx.marked \in SUBSET Published
  BY TablesShape
<1>4. ASSUME NEW p \in Partitions, Ignore(p)
      PROVE  TypeOK'
  BY <1>4, ReadType DEF Ignore, alertVars, replayVars
<1>5. ASSUME NEW p \in Partitions, Upsert(p)
      PROVE  TypeOK'
  <2>1. Read(p)
    BY <1>5 DEF Upsert
  <2>2. position' \in [Partitions -> Nat] /\ \A q \in Partitions : position'[q] <= Len(log[q])
    BY <2>1, ReadType
  <2>3. /\ UNCHANGED <<log, db, alerted, unheard, broken, known, replays, failed, faults>>
        /\ tx' \in Tables /\ step' \in Steps /\ conn' = "ok"
    BY <1>5, UpsertShape
  <2>4. QED
    BY <2>2, <2>3
<1>6. ASSUME NEW p \in Partitions, UpsertFails(p)
      PROVE  TypeOK'
  <2>1. /\ failed' = TRUE /\ tx' \in {db, tx} /\ conn' \in {"ok", "aborted", "closed"}
        /\ faults' \in faults .. MaxFaults
    BY <1>6, RefusedType DEF UpsertFails
  <2>2. position' \in [Partitions -> Nat] /\ \A q \in Partitions : position'[q] <= Len(log[q])
    BY <1>6, ReadType DEF UpsertFails
  <2>3. UNCHANGED <<log, step, db, alerted, unheard, broken, known, replays>>
    BY <1>6 DEF UpsertFails, alertVars, replayVars
  <2>4. QED
    BY <2>1, <2>2, <2>3
<1>7. ASSUME NEW u \in Entities, Edge(u)
      PROVE  TypeOK'
  <2>1. tx' \in Tables
    <3>1. CASE u \in tx.entities
      <4>1. <<u, step.entity>> \in Entities \X Published
        BY <1>2, <1>7 DEF Edge
      <4>2. QED
        BY <1>3, <1>7, <3>1, <4>1 DEF Edge, Tables
    <3>2. CASE u \notin tx.entities
      BY <1>7, <3>2 DEF Edge
    <3>3. QED
      BY <3>1, <3>2
  <2>2. step' \in Steps
    BY <1>2, <1>7 DEF Edge, Steps
  <2>3. QED
    BY <1>7, <2>1, <2>2 DEF Edge, Executes, NoFault, alertVars, replayVars
<1>8. ASSUME NEW u \in Entities, EdgeFails(u)
      PROVE  TypeOK'
  <2>1. /\ failed' = TRUE /\ tx' = db
        /\ conn' \in {"aborted", "closed"}
        /\ faults' \in faults .. MaxFaults
    BY <1>8, FailsType DEF EdgeFails
  <2>2. step' \in Steps
    BY <1>2, <1>8 DEF EdgeFails, Steps
  <2>3. QED
    BY <1>8, <2>1, <2>2 DEF EdgeFails, alertVars, replayVars
<1>9. CASE InsertChecks
  <2>1. step \in Steps
    BY <1>2, <1>9 DEF InsertChecks
  <2>2. tx' \in Tables
    BY <1>9, <2>1, WithChecksType DEF InsertChecks
  <2>3. step' \in Steps
    BY <1>9, <2>1, GotoType DEF InsertChecks
  <2>4. QED
    BY <1>9, <2>2, <2>3 DEF InsertChecks, Executes, NoFault, alertVars, replayVars
<1>10. CASE ChecksFail
  <2>1. /\ failed' = TRUE /\ tx' = db
        /\ conn' \in {"aborted", "closed"}
        /\ faults' \in faults .. MaxFaults
    BY <1>10, FailsType DEF ChecksFail
  <2>2. QED
    BY <1>10, <2>1 DEF ChecksFail, alertVars, replayVars
<1>22. CASE ChecksBreakOff
  <2>1. step \in Steps /\ step.place \in Places
    BY <1>2, <1>22 DEF ChecksBreakOff
  <2>2. tx' \in Tables
    BY <1>22, <2>1, WithChecksType DEF ChecksBreakOff
  <2>3. broken' \in SUBSET Places
    BY <1>22, <2>1 DEF ChecksBreakOff
  <2>4. QED
    BY <1>22, <2>2, <2>3 DEF ChecksBreakOff, Refused, NoFault, replayVars
<1>11. CASE NoChecks
  <2>1. step' \in Steps
    BY <1>2, <1>11, GotoType DEF NoChecks
  <2>2. QED
    BY <1>11, <2>1 DEF NoChecks, alertVars, replayVars
<1>12. CASE Mark
  <2>1. step \in Steps /\ step.entity \in Published
    BY <1>2, <1>12 DEF Mark
  <2>2. tx' \in Tables
    BY <1>3, <1>12, <2>1 DEF Mark, Tables
  <2>3. step' \in Steps
    BY <1>12, <2>1, GotoType DEF Mark
  <2>4. QED
    BY <1>12, <2>2, <2>3 DEF Mark, Executes, NoFault, alertVars, replayVars
<1>13. CASE MarkFails
  <2>1. /\ failed' = TRUE /\ tx' = db
        /\ conn' \in {"aborted", "closed"}
        /\ faults' \in faults .. MaxFaults
    BY <1>13, FailsType DEF MarkFails
  <2>2. step' \in Steps
    BY <1>2, <1>13, GotoType DEF MarkFails
  <2>3. QED
    BY <1>13, <2>1, <2>2 DEF MarkFails, alertVars, replayVars
<1>14. CASE Alert
  <2>1. step \in Steps /\ step.place \in Places
    BY <1>2, <1>14 DEF Alert
  <2>2. step' \in Steps
    BY <1>14, <2>1, GotoType DEF Alert
  <2>3. QED
    BY <1>14, <2>1, <2>2 DEF Alert, replayVars
<1>15. CASE AlertFails
  <2>1. step \in Steps /\ step.place \in Places
    BY <1>2, <1>15 DEF AlertFails
  <2>2. step' \in Steps
    BY <1>15, <2>1, GotoType DEF AlertFails
  <2>3. faults' \in faults .. MaxFaults
    BY <1>15, MetaFaultBound DEF AlertFails
  <2>4. QED
    BY <1>15, <2>1, <2>2, <2>3 DEF AlertFails, replayVars
<1>16. CASE Commit
  BY <1>16 DEF Commit, alertVars, replayVars
<1>17. CASE CommitLost
  <2>1. faults' \in faults .. MaxFaults
    BY <1>17, MetaFaultBound DEF CommitLost
  <2>2. QED
    BY <1>17, <2>1 DEF CommitLost, alertVars, replayVars
<1>18. ASSUME NEW k, Fault(k), Replay, UNCHANGED <<log, db, alerted, unheard, broken>>,
              step' \in Steps \cup {Polling, NoConsumer}, conn' \in {"ok", "aborted", "closed"},
              tx' \in Tables, failed' \in BOOLEAN
       PROVE  TypeOK'
  <2>1. position' \in [Partitions -> Nat] /\ \A p \in Partitions : position'[p] <= Len(log'[p])
    BY <1>18 DEF Replay
  <2>2. faults' \in faults .. MaxFaults
    BY <1>18, MetaFaultBound
  <2>3. replays' \in 0 .. faults'
    BY <1>18 DEF Replay, Fault
  <2>4. known' \in SUBSET Published
    BY <1>18, TablesShape DEF Replay
  <2>5. faults' \in 0 .. MaxFaults
    BY <2>2
  <2>6. QED
    BY <1>18, <2>1, <2>3, <2>4, <2>5
<1>23. CASE Rebalance
  BY <1>18, <1>23 DEF Rebalance, alertVars
<1>24. CASE Restart
  <2>1. failed' \in BOOLEAN
    BY <1>24 DEF Restart
  <2>2. QED
    BY <1>18, <1>24, <2>1 DEF Restart, alertVars
<1>25. CASE StartFails
  <2>1. faults' \in faults .. MaxFaults
    BY <1>25, MetaFaultBound DEF StartFails
  <2>2. failed' \in BOOLEAN
    BY <1>25 DEF StartFails
  <2>3. QED
    BY <1>25, <2>1, <2>2 DEF StartFails, alertVars, replayVars
<1>19. ASSUME NEW e \in Created \cup Foreign, NEW p \in Partitions, Publish(e, p)
       PROVE  TypeOK'
  <2>1. log' = [log EXCEPT ![p] = Append(log[p], e)] /\ Len(log[p]) < Room[p]
    BY <1>19 DEF Publish
  <2>2. /\ Append(log[p], e) \in Seq(Created \cup Foreign)
        /\ Len(Append(log[p], e)) = Len(log[p]) + 1
        /\ Len(log[p]) \in Nat /\ Room[p] \in Nat
    BY MetadataAssumption
  <2>3. log' \in [Partitions -> Seq(Created \cup Foreign)]
    BY <2>1, <2>2
  <2>4. \A q \in Partitions : position[q] <= Len(log'[q]) /\ Len(log'[q]) <= Room[q]
    BY <2>1, <2>2
  <2>5. QED
    BY <1>19, <2>3, <2>4 DEF Publish, consumerVars, alertVars, replayVars
<1>20. CASE UNCHANGED vars
  BY <1>20 DEF vars, consumerVars, alertVars, replayVars
<1>21. QED
  BY <1>4, <1>5, <1>6, <1>7, <1>8, <1>9, <1>10, <1>11, <1>12, <1>13, <1>14, <1>15, <1>16, <1>17,
     <1>19, <1>20, <1>22, <1>23, <1>24, <1>25
     DEF Next, Consume

(* The consumer's variables keep their types.                              *)
THEOREM ConsumerTypeCorrect == Spec => []TypeOK
<1>1. Init => TypeOK
  BY MetaTypeInit
<1>2. TypeOK /\ [Next]_vars => TypeOK'
  BY MetaTypeNext
<1>3. QED
  BY <1>1, <1>2, PTL DEF Spec

----------------------------------------------------------------------------
(* Its transactions.                                                       *)

LEMMA GotoShape ==
  ASSUME step \in Steps, NEW place, Goto(place)
  PROVE  /\ step'.at = place /\ step'.place = step.place /\ step'.entity = step.entity
         /\ step'.checks = step.checks /\ step'.refs = step.refs
BY DEF Steps, Goto

LEMMA TxInit == Init => TxFollows
BY DEF Init, TxFollows

(* A transaction that ends or fails leaves what is stored.                 *)
LEMMA TxEnds ==
  ASSUME TypeOK', tx' = db'
  PROVE  TxFollows'
<1>1. \A m \in Places : db'.rows[m] \in Nat
  BY DEF TypeOK, Tables
<1>2. QED
  BY <1>1 DEF TxFollows

LEMMA TxNext ==
  ASSUME TypeOK, TxFollows, [Next]_vars
  PROVE  TxFollows'
<1>1. TypeOK'
  BY MetaTypeNext
<1>2. /\ step.at \notin {"poll", "none"} => step \in Steps /\ step.place \in Places
      /\ tx \in Tables /\ db \in Tables
  BY StepShape DEF TypeOK
<1>3. tx.rows \in [Places -> Nat] /\ db.rows \in [Places -> Nat]
  BY <1>2, TablesShape
<1>4. ASSUME UNCHANGED <<db, tx, conn>>, step'.at = "poll" /\ ~ failed' => step.at = "poll" /\ ~ failed
      PROVE  TxFollows'
  BY <1>4 DEF TxFollows
(* A step of the transaction that adds.                                    *)
<1>5. ASSUME conn' = "ok", db' = db, step'.at # "poll" \/ failed', tx.entities \subseteq tx'.entities,
             \A m \in Places : tx.rows[m] <= tx'.rows[m]
      PROVE  TxFollows'
  <2>1. \A m \in Places : tx'.rows[m] \in Nat
    BY <1>1 DEF TypeOK, Tables
  <2>2. \A m \in Places : db.rows[m] <= tx'.rows[m]
    BY <1>3, <1>5, <2>1 DEF TxFollows
  <2>3. QED
    BY <1>5, <2>2 DEF TxFollows
<1>6. \A m \in Places : tx.rows[m] <= tx.rows[m]
  BY <1>3
<1>7. ASSUME NEW p \in Partitions, Ignore(p)
      PROVE  TxFollows'
  BY <1>4, <1>7 DEF Ignore
<1>8. ASSUME NEW p \in Partitions, Upsert(p)
      PROVE  TxFollows'
  BY <1>5, <1>6, <1>8, UpsertShape
<1>9. ASSUME NEW p \in Partitions, UpsertFails(p)
      PROVE  TxFollows'
  <2>1. db' = db /\ failed' = TRUE
    BY <1>9, RefusedType DEF UpsertFails
  <2>2. CASE tx' = db
    BY <1>1, <2>1, <2>2, TxEnds
  <2>3. CASE tx' = tx /\ conn' = conn /\ conn = "ok"
    BY <1>5, <1>6, <2>1, <2>3
  <2>4. QED
    BY <1>9, <2>2, <2>3, RefusedType DEF UpsertFails
<1>10. ASSUME NEW u \in Entities, Edge(u)
       PROVE  TxFollows'
  <2>1. conn' = "ok" /\ db' = db /\ step'.at # "poll"
    BY <1>2, <1>10 DEF Edge, Executes, Steps
  <2>2. tx'.entities = tx.entities /\ tx'.rows = tx.rows
    BY <1>2, <1>10 DEF Edge, Tables
  <2>3. QED
    BY <1>5, <1>6, <2>1, <2>2
<1>11. ASSUME NEW u \in Entities, EdgeFails(u)
       PROVE  TxFollows'
  BY <1>1, <1>11, TxEnds DEF EdgeFails, Fails
(* The checks are inserted.                                                *)
<1>12. ASSUME step \in Steps, conn' = "ok", db' = db, step'.at # "poll" \/ failed', tx' = WithChecks
       PROVE  TxFollows'
  <2>1. /\ tx'.entities = tx.entities /\ step.place \in Places
        /\ tx'.rows = [tx.rows EXCEPT ![step.place] = @ + 1]
    BY <1>12, WithChecksType DEF Steps
  <2>2. \A m \in Places : tx.rows[m] <= tx'.rows[m]
    BY <1>3, <2>1
  <2>3. QED
    BY <1>5, <1>12, <2>1, <2>2
<1>13. CASE InsertChecks
  <2>1. step \in Steps /\ conn' = "ok" /\ db' = db /\ tx' = WithChecks
    BY <1>2, <1>13 DEF InsertChecks, Executes
  <2>2. step'.at # "poll"
    BY <1>13, <2>1, GotoShape DEF InsertChecks
  <2>3. QED
    BY <1>12, <2>1, <2>2
<1>14. CASE ChecksFail
  BY <1>1, <1>14, TxEnds DEF ChecksFail, Fails
<1>15. CASE ChecksBreakOff
  <2>1. step \in Steps /\ conn' = "ok" /\ db' = db /\ failed'
    BY <1>2, <1>15 DEF ChecksBreakOff, Refused
  <2>2. CASE tx' = tx
    BY <1>5, <1>6, <2>1, <2>2
  <2>3. CASE tx' = WithChecks
    BY <1>12, <2>1, <2>3
  <2>4. QED
    BY <1>15, <2>2, <2>3 DEF ChecksBreakOff
<1>16. CASE NoChecks
  BY <1>2, <1>4, <1>16, GotoShape DEF NoChecks
<1>17. CASE Mark
  <2>1. conn' = "ok" /\ db' = db /\ step'.at # "poll"
    BY <1>2, <1>17, GotoShape DEF Mark, Executes
  <2>2. tx'.entities = tx.entities /\ tx'.rows = tx.rows
    BY <1>2, <1>17 DEF Mark, Tables
  <2>3. QED
    BY <1>5, <1>6, <2>1, <2>2
<1>18. CASE MarkFails
  BY <1>1, <1>18, TxEnds DEF MarkFails, Fails
<1>19. CASE Alert
  BY <1>2, <1>4, <1>19, GotoShape DEF Alert
<1>20. CASE AlertFails
  BY <1>2, <1>4, <1>20, GotoShape DEF AlertFails
<1>21. CASE Commit
  BY <1>1, <1>21, TxEnds DEF Commit
<1>22. CASE CommitLost
  BY <1>1, <1>22, TxEnds DEF CommitLost
<1>23. CASE Rebalance
  BY <1>4, <1>23 DEF Rebalance
<1>24. CASE Restart
  BY <1>1, <1>24, TxEnds DEF Restart
<1>25. CASE StartFails
  BY <1>1, <1>25, TxEnds DEF StartFails
<1>26. ASSUME NEW e \in Created \cup Foreign, NEW p \in Partitions, Publish(e, p)
       PROVE  TxFollows'
  BY <1>4, <1>26 DEF Publish, consumerVars
<1>27. CASE UNCHANGED vars
  BY <1>4, <1>27 DEF vars, consumerVars
<1>28. QED
  BY <1>7, <1>8, <1>9, <1>10, <1>11, <1>13, <1>14, <1>15, <1>16, <1>17, <1>18, <1>19, <1>20,
     <1>21, <1>22, <1>23, <1>24, <1>25, <1>26, <1>27
     DEF Next, Consume

----------------------------------------------------------------------------
(* Its failed checks.                                                      *)

LEMMA FailuresInit == Init => TxFailuresKnown
BY DEF Init, TxFailuresKnown, Settled, Polling

LEMMA FailuresNext ==
  ASSUME TypeOK, TxFollows, TxFailuresKnown, [Next]_vars
  PROVE  TxFailuresKnown'
<1>2. /\ step.at \notin {"poll", "none"} => step \in Steps /\ step.place \in Places
      /\ tx \in Tables /\ db \in Tables
  BY StepShape DEF TypeOK
<1>3. db.marked = db.suspect /\ db.failing \subseteq Settled
  BY DEF TxFailuresKnown
(* A step after which nothing is under way but what is stored.             *)
<1>4. ASSUME db' = db, Settled \subseteq Settled', tx' = db,
             conn' # "ok" \/ step'.at \in {"poll", "commit", "none"},
             step'.at = "mark" => Finds(step'.checks)
      PROVE  TxFailuresKnown'
  BY <1>3, <1>4 DEF TxFailuresKnown
<1>5. ASSUME UNCHANGED alertVars
      PROVE  Settled' = Settled
  BY <1>5 DEF alertVars, Settled
(* A step that changes neither the tables nor where the event at work is.  *)
<1>6. ASSUME UNCHANGED <<db, tx, conn, step, alertVars>>
      PROVE  TxFailuresKnown'
  BY <1>5, <1>6 DEF TxFailuresKnown
<1>7. ASSUME NEW p \in Partitions, Ignore(p)
      PROVE  TxFailuresKnown'
  BY <1>6, <1>7 DEF Ignore
<1>8. ASSUME NEW p \in Partitions, Upsert(p)
      PROVE  TxFailuresKnown'
  <2> DEFINE e == NextEvent(p).entity
             c == NextEvent(p).checks
  <2>1. /\ conn = "ok" /\ conn' = "ok" /\ db' = db /\ UNCHANGED alertVars
        /\ tx'.failing = tx.failing /\ tx'.marked = tx.marked \ {e}
        /\ tx'.suspect = IF Finds(c) THEN tx.suspect \cup {e} ELSE tx.suspect \ {e}
        /\ step'.at = "edges" /\ step'.entity = e /\ step'.checks = c
    BY <1>8, UpsertShape DEF alertVars
  <2>2. step.at = "poll"
    BY <1>8 DEF Upsert, Read
  <2> HIDE DEF e, c
  <2>3. tx.marked = tx.suspect /\ tx.failing \subseteq Settled
    BY <2>1, <2>2 DEF TxFailuresKnown
  <2>4. /\ tx'.marked \ {e} = tx'.suspect \ {e} /\ e \notin tx'.marked
        /\ (e \in tx'.suspect <=> Finds(c))
    BY <2>1, <2>3
  <2>5. QED
    BY <1>3, <1>5, <2>1, <2>3, <2>4 DEF TxFailuresKnown
<1>9. ASSUME NEW p \in Partitions, UpsertFails(p)
      PROVE  TxFailuresKnown'
  <2>1. /\ db' = db /\ step' = step /\ step.at = "poll" /\ Settled' = Settled
    BY <1>5, <1>9 DEF UpsertFails, Read
  <2>2. CASE tx' = db
    BY <1>4, <2>1, <2>2
  <2>3. CASE tx' = tx /\ conn' = conn
    BY <1>6, <1>9, <2>1, <2>3 DEF UpsertFails
  <2>4. QED
    BY <1>9, <2>2, <2>3, RefusedType DEF UpsertFails
<1>10. ASSUME NEW u \in Entities, Edge(u)
       PROVE  TxFailuresKnown'
  <2>1. /\ conn = "ok" /\ conn' = "ok" /\ db' = db /\ UNCHANGED alertVars
        /\ step.at = "edges" /\ step'.at = "edges" /\ step'.entity = step.entity
        /\ step'.checks = step.checks
    BY <1>2, <1>10 DEF Edge, Executes, Steps
  <2>2. tx'.marked = tx.marked /\ tx'.failing = tx.failing /\ tx'.suspect = tx.suspect
    BY <1>2, <1>10 DEF Edge, Tables
  <2>3. QED
    BY <1>3, <1>5, <2>1, <2>2 DEF TxFailuresKnown
<1>11. ASSUME NEW u \in Entities, EdgeFails(u)
       PROVE  TxFailuresKnown'
  <2>1. step'.at = "edges" /\ db' = db /\ Settled' = Settled
    BY <1>2, <1>5, <1>11 DEF EdgeFails, Steps
  <2>2. tx' = db /\ conn' # "ok"
    BY <1>11, FailsType DEF EdgeFails
  <2>3. QED
    BY <1>4, <2>1, <2>2
(* What the transaction holds with the checks of the event at work.        *)
<1>12. ASSUME step.at = "edges", conn = "ok", step.refs = {}
       PROVE  /\ WithChecks.marked = tx.marked /\ WithChecks.suspect = tx.suspect
              /\ WithChecks.failing \subseteq Settled \cup {step.place}
              /\ "failed" \notin step.checks => WithChecks.failing \subseteq Settled
              /\ ~ Finds(step.checks) => tx.marked = tx.suspect
              /\ step.entity \notin tx.marked
              /\ tx.marked \ {step.entity} = tx.suspect \ {step.entity}
              /\ step.entity \in tx.suspect <=> Finds(step.checks)
              /\ tx.failing \subseteq Settled
  <2>1. /\ WithChecks.failing = IF "failed" \in step.checks
                                THEN tx.failing \cup {step.place} ELSE tx.failing
        /\ WithChecks.marked = tx.marked /\ WithChecks.suspect = tx.suspect
    BY <1>2, <1>12, WithChecksType
  <2>2. /\ tx.marked \ {step.entity} = tx.suspect \ {step.entity}
        /\ step.entity \notin tx.marked /\ tx.failing \subseteq Settled
        /\ step.entity \in tx.suspect <=> Finds(step.checks)
    BY <1>12 DEF TxFailuresKnown
  <2>3. ~ Finds(step.checks) => tx.marked = tx.suspect
    BY <2>2
  <2>4. QED
    BY <2>1, <2>2, <2>3
<1>13. CASE InsertChecks
  <2>1. /\ conn = "ok" /\ conn' = "ok" /\ db' = db /\ Settled' = Settled /\ tx' = WithChecks
        /\ step.at = "edges" /\ step'.entity = step.entity /\ step'.place = step.place
        /\ step'.checks = step.checks /\ step.refs = {} /\ "garbled" \notin step.checks
        /\ step'.at = IF "failed" \in step.checks THEN "mark" ELSE "commit"
    BY <1>2, <1>5, <1>13, GotoShape DEF InsertChecks, Executes
  <2>2. CASE "failed" \in step.checks
    <3>1. Finds(step.checks)
      BY <2>1, <2>2 DEF Finds
    <3>2. QED
      BY <1>3, <1>12, <2>1, <2>2, <3>1 DEF TxFailuresKnown
  <2>3. CASE "failed" \notin step.checks
    <3>1. ~ Finds(step.checks)
      BY <2>3 DEF Finds
    <3>2. QED
      BY <1>3, <1>12, <2>1, <2>3, <3>1 DEF TxFailuresKnown
  <2>4. QED
    BY <2>2, <2>3
<1>14. CASE ChecksFail
  <2>1. step'.at = "poll" /\ db' = db /\ Settled' = Settled
    BY <1>5, <1>14 DEF ChecksFail, Polling
  <2>2. tx' = db /\ conn' # "ok"
    BY <1>14, FailsType DEF ChecksFail
  <2>3. QED
    BY <1>4, <2>1, <2>2
<1>15. CASE ChecksBreakOff
  <2>1. /\ conn = "ok" /\ conn' = "ok" /\ db' = db /\ step'.at = "poll" /\ step.at = "edges"
        /\ step.refs = {} /\ tx' \in {tx, WithChecks}
    BY <1>15 DEF ChecksBreakOff, Refused, Polling
  <2>2. Settled' = Settled \cup {step.place}
    BY <1>15 DEF ChecksBreakOff, Settled
  <2>3. ~ Finds(step.checks)
    BY <1>15 DEF ChecksBreakOff, Finds
  <2>4. tx'.marked = tx'.suspect /\ tx'.failing \subseteq Settled'
    BY <1>12, <2>1, <2>2, <2>3
  <2>5. QED
    BY <1>3, <2>1, <2>2, <2>4 DEF TxFailuresKnown
<1>16. CASE NoChecks
  <2>1. /\ UNCHANGED <<db, tx, conn>> /\ Settled' = Settled /\ step.refs = {}
        /\ step.at = "edges" /\ step'.at = "commit" /\ step.checks = {}
    BY <1>2, <1>5, <1>16, GotoShape DEF NoChecks
  <2>2. ~ Finds(step.checks)
    BY <2>1 DEF Finds
  <2>3. QED
    BY <1>3, <1>12, <2>1, <2>2 DEF TxFailuresKnown
<1>17. CASE Mark
  <2>1. /\ conn = "ok" /\ conn' = "ok" /\ db' = db /\ Settled' = Settled
        /\ step.at = "mark" /\ step'.at = "alert" /\ step'.place = step.place
    BY <1>2, <1>5, <1>17, GotoShape DEF Mark, Executes
  <2>2. /\ tx'.marked = tx.marked \cup {step.entity} /\ tx'.failing = tx.failing
        /\ tx'.suspect = tx.suspect
    BY <1>2, <1>17 DEF Mark, Tables
  <2>3. /\ tx.marked \ {step.entity} = tx.suspect \ {step.entity}
        /\ step.entity \in tx.suspect
        /\ tx.failing \subseteq Settled \cup {step.place}
    BY <2>1 DEF TxFailuresKnown
  <2>4. tx'.marked = tx'.suspect
    BY <2>2, <2>3
  <2>5. QED
    BY <1>3, <2>1, <2>2, <2>3, <2>4 DEF TxFailuresKnown
<1>18. CASE MarkFails
  <2>1. step'.at = "alert" /\ db' = db /\ Settled' = Settled
    BY <1>2, <1>5, <1>18, GotoShape DEF MarkFails
  <2>2. tx' = db /\ conn' # "ok"
    BY <1>18, FailsType DEF MarkFails
  <2>3. QED
    BY <1>4, <2>1, <2>2
<1>19. ASSUME step.at = "alert", Goto("commit"), UNCHANGED <<conn, tx, db>>,
              Settled \cup {step.place} \subseteq Settled'
       PROVE  TxFailuresKnown'
  <2>1. step'.at = "commit"
    BY <1>2, <1>19, GotoShape
  <2>2. conn = "ok" => tx.marked = tx.suspect /\ tx.failing \subseteq Settled'
    BY <1>19 DEF TxFailuresKnown
  <2>3. QED
    BY <1>3, <1>19, <2>1, <2>2 DEF TxFailuresKnown
<1>20. CASE Alert
  BY <1>19, <1>20 DEF Alert, Settled
<1>21. CASE AlertFails
  BY <1>19, <1>21 DEF AlertFails, Settled
<1>22. ASSUME step.at = "commit", conn = "ok" \/ db' = db, db' \in {db, tx}, tx' = db',
              step' = Polling, Settled' = Settled
       PROVE  TxFailuresKnown'
  <2>1. conn = "ok" => tx.marked = tx.suspect /\ tx.failing \subseteq Settled
    BY <1>22 DEF TxFailuresKnown
  <2>2. db'.marked = db'.suspect /\ db'.failing \subseteq Settled'
    BY <1>3, <1>22, <2>1
  <2>3. step'.at = "poll"
    BY <1>22 DEF Polling
  <2>4. QED
    BY <1>22, <2>2, <2>3 DEF TxFailuresKnown
<1>23. CASE Commit
  BY <1>5, <1>22, <1>23 DEF Commit
<1>24. CASE CommitLost
  BY <1>5, <1>22, <1>24 DEF CommitLost
<1>25. CASE Rebalance
  BY <1>6, <1>25 DEF Rebalance
<1>26. CASE Restart
  BY <1>4, <1>5, <1>26 DEF Restart, Polling
<1>27. CASE StartFails
  BY <1>4, <1>5, <1>27 DEF StartFails, NoConsumer
<1>28. ASSUME NEW e \in Created \cup Foreign, NEW p \in Partitions, Publish(e, p)
       PROVE  TxFailuresKnown'
  BY <1>6, <1>28 DEF Publish, consumerVars
<1>29. CASE UNCHANGED vars
  BY <1>6, <1>29 DEF vars, consumerVars
<1>30. QED
  BY <1>7, <1>8, <1>9, <1>10, <1>11, <1>13, <1>14, <1>15, <1>16, <1>17, <1>18, <1>20, <1>21,
     <1>23, <1>24, <1>25, <1>26, <1>27, <1>28, <1>29
     DEF Next, Consume

LEMMA FailuresImply == TxFailuresKnown => FailuresKnown
BY DEF TxFailuresKnown, Settled, FailuresKnown

(* Whichever statements fail and have their exceptions swallowed, an       *)
(* entity is marked as failed exactly if the event its attributes are of   *)
(* has a failed check, and every failed check that is stored was           *)
(* announced, unless just the announcement failed or the event's checks    *)
(* broke off.                                                              *)
THEOREM ConsumerFailuresCorrect == Spec => []FailuresKnown
<1> DEFINE I == TypeOK /\ TxFollows /\ TxFailuresKnown
<1>1. Init => I
  BY MetaTypeInit, TxInit, FailuresInit
<1>2. I /\ [Next]_vars => I'
  BY MetaTypeNext, TxNext, FailuresNext
<1>3. I => FailuresKnown
  BY FailuresImply
<1>4. QED
  BY <1>1, <1>2, <1>3, PTL DEF Spec

----------------------------------------------------------------------------
(* Its replays.                                                            *)

LEMMA StoredInit == Init => StoredLogged
BY DEF Init, StoredLogged

LEMMA StoredNext ==
  ASSUME TypeOK, TxFollows, StoredLogged, [Next]_vars
  PROVE  StoredLogged'
<1>1. /\ step.at \notin {"poll", "none"} => step \in Steps /\ step.entity \in Published
      /\ tx \in Tables /\ db \in Tables
  BY StepShape DEF TypeOK
<1>2. db.entities \subseteq tx.entities /\ db.entities \subseteq Logged
  BY DEF TxFollows, StoredLogged
<1>3. ASSUME UNCHANGED log
      PROVE  Logged' = Logged
  BY <1>3 DEF Logged
<1>4. ASSUME UNCHANGED <<log, db, known>>, tx' = db \/ tx'.entities = tx.entities
      PROVE  StoredLogged'
  BY <1>2, <1>3, <1>4 DEF StoredLogged
<1>5. ASSUME NEW p \in Partitions, Ignore(p)
      PROVE  StoredLogged'
  BY <1>4, <1>5 DEF Ignore, replayVars
<1>6. ASSUME NEW p \in Partitions, Upsert(p)
      PROVE  StoredLogged'
  <2> DEFINE e == NextEvent(p)
  <2>1. /\ UNCHANGED <<log, db, known>> /\ e \in Created /\ e.entity \in Published
        /\ tx'.entities = tx.entities \cup {e.entity}
    BY <1>6, UpsertShape
  <2>2. position[p] + 1 \in DOMAIN log[p]
    BY <1>6, ReadType DEF Upsert, TypeOK
  <2>3. e.entity \in Logged
    BY <2>1, <2>2 DEF Logged, NextEvent
  <2> HIDE DEF e
  <2>4. QED
    BY <1>2, <1>3, <2>1, <2>3 DEF StoredLogged
<1>7. ASSUME NEW p \in Partitions, UpsertFails(p)
      PROVE  StoredLogged'
  <2>1. tx' = db \/ tx' = tx
    BY <1>7, RefusedType DEF UpsertFails
  <2>2. QED
    BY <1>4, <1>7, <2>1 DEF UpsertFails, replayVars
<1>8. ASSUME NEW u \in Entities, Edge(u)
      PROVE  StoredLogged'
  <2>1. tx'.entities = tx.entities
    BY <1>1, <1>8 DEF Edge, Tables
  <2>2. QED
    BY <1>4, <1>8, <2>1 DEF Edge, replayVars
<1>9. ASSUME NEW u \in Entities, EdgeFails(u)
      PROVE  StoredLogged'
  BY <1>4, <1>9 DEF EdgeFails, Fails, replayVars
<1>10. CASE InsertChecks
  <2>1. tx'.entities = tx.entities
    BY <1>1, <1>10, WithChecksType DEF InsertChecks
  <2>2. QED
    BY <1>4, <1>10, <2>1 DEF InsertChecks, replayVars
<1>11. CASE ChecksFail
  BY <1>4, <1>11 DEF ChecksFail, Fails, replayVars
<1>24. CASE ChecksBreakOff
  <2>1. tx'.entities = tx.entities
    BY <1>1, <1>24, WithChecksType DEF ChecksBreakOff
  <2>2. QED
    BY <1>4, <1>24, <2>1 DEF ChecksBreakOff, replayVars
<1>12. CASE NoChecks
  BY <1>4, <1>12 DEF NoChecks, replayVars
<1>13. CASE Mark
  <2>1. tx'.entities = tx.entities
    BY <1>1, <1>13 DEF Mark, Tables
  <2>2. QED
    BY <1>4, <1>13, <2>1 DEF Mark, replayVars
<1>14. CASE MarkFails
  BY <1>4, <1>14 DEF MarkFails, Fails, replayVars
<1>15. CASE Alert
  BY <1>4, <1>15 DEF Alert, replayVars
<1>16. CASE AlertFails
  BY <1>4, <1>16 DEF AlertFails, replayVars
<1>17. ASSUME UNCHANGED <<log, known>>, db' \in {db, tx}, tx' = db'
       PROVE  StoredLogged'
  BY <1>2, <1>3, <1>17 DEF StoredLogged
<1>18. CASE Commit
  BY <1>17, <1>18 DEF Commit, replayVars
<1>19. CASE CommitLost
  BY <1>17, <1>19 DEF CommitLost, replayVars
<1>20. CASE Restart
  BY <1>2, <1>3, <1>20 DEF Restart, Replay, StoredLogged
<1>25. CASE Rebalance
  BY <1>2, <1>3, <1>25 DEF Rebalance, Replay, StoredLogged
<1>26. CASE StartFails
  BY <1>4, <1>26 DEF StartFails, replayVars
<1>21. ASSUME NEW e \in Created \cup Foreign, NEW p \in Partitions, Publish(e, p)
       PROVE  StoredLogged'
  <2>1. Logged \subseteq Logged'
    BY <1>21, LogGrows DEF Logged
  <2>2. UNCHANGED <<tx, db, known>>
    BY <1>21 DEF Publish, consumerVars, replayVars
  <2>3. QED
    BY <2>1, <2>2 DEF StoredLogged
<1>22. CASE UNCHANGED vars
  BY <1>4, <1>22 DEF vars, consumerVars, replayVars
<1>23. QED
  BY <1>5, <1>6, <1>7, <1>8, <1>9, <1>10, <1>11, <1>12, <1>13, <1>14, <1>15, <1>16, <1>18,
     <1>19, <1>20, <1>21, <1>22, <1>24, <1>25, <1>26
     DEF Next, Consume

LEMMA ReadInit == Init => ReadHandled
BY DEF Init, ReadHandled

LEMMA ReadNext ==
  ASSUME TypeOK, TxFollows, StoredLogged, ReadHandled,
         [Next]_vars
  PROVE  ReadHandled'
<1>1. /\ step.at \notin {"poll", "none"} => step \in Steps /\ step.entity \in Published
      /\ tx \in Tables /\ db \in Tables
  BY StepShape DEF TypeOK
<1>2. SUFFICES ASSUME ~ failed'
               PROVE  ReadHandled'
  BY DEF ReadHandled
<1>3. known \subseteq tx.entities
  BY DEF TxFollows, StoredLogged
(* A step that reads nothing and keeps what has been written.              *)
<1>4. ASSUME UNCHANGED <<log, position, known, failed, conn>>,
             tx'.entities = tx.entities, tx.edges \subseteq tx'.edges,
             \A u \in known : step.at = "edges" /\ u \in step.refs =>
               \/ <<u, step.entity>> \in tx'.edges
               \/ step'.at = "edges" /\ step'.entity = step.entity /\ u \in step'.refs
      PROVE  ReadHandled'
  BY <1>2, <1>4 DEF ReadHandled
<1>5. ASSUME NEW p \in Partitions, Ignore(p)
      PROVE  ReadHandled'
  <2>1. /\ Read(p) /\ NextEvent(p) \in Foreign
        /\ UNCHANGED <<log, step, conn, tx, failed, known>>
    BY <1>5 DEF Ignore, replayVars
  <2>2. log[p][position[p] + 1] \notin Created
    BY <2>1, MetadataAssumption DEF NextEvent
  <2>3. /\ position[p] \in Nat
        /\ \A q \in Partitions : position'[q] = IF q = p THEN position[p] + 1 ELSE position[q]
    BY <2>1, ReadType
  <2>4. \A q \in Partitions : \A i \in 1 .. position'[q] :
          i \in 1 .. position[q] \/ (q = p /\ i = position[p] + 1)
    <3>1. \A i \in 1 .. position[p] + 1 : i \in 1 .. position[p] \/ i = position[p] + 1
      BY <2>3
    <3>2. QED
      BY <2>3, <3>1
  <2>5. QED
    BY <1>2, <2>1, <2>2, <2>4 DEF ReadHandled
<1>6. ASSUME NEW p \in Partitions, Upsert(p)
      PROVE  ReadHandled'
  <2> DEFINE e == NextEvent(p)
  <2>1. /\ conn' = "ok" /\ UNCHANGED <<log, known, failed>>
        /\ tx'.entities = tx.entities \cup {e.entity} /\ tx'.edges = tx.edges
        /\ step'.at = "edges" /\ step'.entity = e.entity /\ step'.refs = Upstream[e.entity]
    BY <1>6, UpsertShape
  <2>2. /\ position[p] \in Nat /\ step.at = "poll"
        /\ \A q \in Partitions : position'[q] = IF q = p THEN position[p] + 1 ELSE position[q]
    BY <1>6, ReadType DEF Upsert
  <2>3. \A q \in Partitions : \A i \in 1 .. position'[q] :
          i \in 1 .. position[q] \/ log[q][i] = e
    <3>1. \A i \in 1 .. position[p] + 1 : i \in 1 .. position[p] \/ i = position[p] + 1
      BY <2>2
    <3>2. QED
      BY <2>2, <3>1 DEF NextEvent
  <2> HIDE DEF e
  <2>6. ASSUME NEW q \in Partitions, NEW i \in 1 .. position'[q], log[q][i] \in Created
        PROVE  /\ log[q][i].entity \in tx'.entities
               /\ log[q][i].entity \in known =>
                    \A u \in Upstream[log[q][i].entity] \cap known :
                      \/ <<u, log[q][i].entity>> \in tx'.edges
                      \/ step'.at = "edges" /\ step'.entity = log[q][i].entity /\ u \in step'.refs
    <3>1. CASE log[q][i] = e
      BY <2>1, <3>1
    <3>2. CASE i \in 1 .. position[q]
      BY <1>2, <2>1, <2>2, <2>6, <3>2 DEF ReadHandled
    <3>3. QED
      BY <2>3, <3>1, <3>2
  <2>7. QED
    BY <2>1, <2>6 DEF ReadHandled
<1>7. ASSUME NEW p \in Partitions, UpsertFails(p)
      PROVE  ReadHandled'
  BY <1>2, <1>7, RefusedType DEF UpsertFails
<1>8. ASSUME NEW u \in Entities, Edge(u)
      PROVE  ReadHandled'
  <2>1. UNCHANGED <<log, position, known, failed, conn>>
    BY <1>8 DEF Edge, Executes, replayVars
  <2>2. /\ step'.at = "edges" /\ step'.entity = step.entity
        /\ step'.refs = step.refs \ {u}
    BY <1>1, <1>8 DEF Edge, Steps
  <2>3. /\ tx'.entities = tx.entities
        /\ tx'.edges = IF u \in tx.entities THEN tx.edges \cup {<<u, step.entity>>} ELSE tx.edges
    BY <1>1, <1>8 DEF Edge, Tables
  <2>4. ASSUME NEW v \in known, v \in step.refs
        PROVE  <<v, step.entity>> \in tx'.edges \/ v \in step'.refs
    BY <1>3, <2>2, <2>3, <2>4
  <2>5. QED
    BY <1>4, <2>1, <2>2, <2>3, <2>4
<1>9. ASSUME NEW u \in Entities, EdgeFails(u)
      PROVE  ReadHandled'
  BY <1>2, <1>9 DEF EdgeFails, Fails
<1>10. CASE InsertChecks
  <2>1. tx'.entities = tx.entities /\ tx'.edges = tx.edges
    BY <1>1, <1>10, WithChecksType DEF InsertChecks
  <2>2. step'.at # "poll" /\ step.refs = {}
    BY <1>1, <1>10, GotoShape DEF InsertChecks
  <2>3. QED
    BY <1>4, <1>10, <2>1, <2>2 DEF InsertChecks, Executes, replayVars
<1>11. CASE ChecksFail
  BY <1>2, <1>11 DEF ChecksFail, Fails
<1>23. CASE ChecksBreakOff
  BY <1>2, <1>23 DEF ChecksBreakOff, Refused
<1>12. CASE NoChecks
  BY <1>4, <1>12 DEF NoChecks, replayVars
<1>13. CASE Mark
  <2>1. tx'.entities = tx.entities /\ tx'.edges = tx.edges
    BY <1>1, <1>13 DEF Mark, Tables
  <2>2. QED
    BY <1>4, <1>13, <2>1 DEF Mark, Executes, replayVars
<1>14. CASE MarkFails
  BY <1>2, <1>14 DEF MarkFails, Fails
<1>15. CASE Alert
  BY <1>4, <1>15 DEF Alert, replayVars
<1>16. CASE AlertFails
  BY <1>4, <1>16 DEF AlertFails, replayVars
<1>17. CASE Commit
  <2>1. conn = "ok" /\ UNCHANGED <<log, position, known, failed>> /\ step.at = "commit"
    BY <1>2, <1>17 DEF Commit, ReadHandled, replayVars
  <2>2. tx' = tx /\ conn' = "ok"
    BY <1>17, <2>1 DEF Commit
  <2>3. QED
    BY <1>4, <2>1, <2>2
<1>18. CASE CommitLost
  BY <1>2, <1>18 DEF CommitLost
<1>19. CASE Restart
  <2>1. conn' = "ok" /\ \A p \in Partitions : position'[p] = 0
    BY <1>19 DEF Restart, Replay
  <2>2. QED
    BY <2>1 DEF ReadHandled
<1>24. CASE Rebalance
  <2>1. conn' = conn /\ failed' = failed /\ \A p \in Partitions : position'[p] = 0
    BY <1>24 DEF Rebalance, Replay
  <2>2. conn = "ok"
    BY <1>2, <2>1 DEF ReadHandled
  <2>3. QED
    BY <2>1, <2>2 DEF ReadHandled
<1>25. CASE StartFails
  BY <1>2, <1>25 DEF StartFails
<1>20. ASSUME NEW e \in Created \cup Foreign, NEW p \in Partitions, Publish(e, p)
       PROVE  ReadHandled'
  <2>1. UNCHANGED <<position, step, conn, tx, failed, known>>
    BY <1>20 DEF Publish, consumerVars, replayVars
  <2>2. \A q \in Partitions : \A i \in 1 .. position[q] : log'[q][i] = log[q][i]
    <3>1. \A q \in Partitions : position[q] \in Nat /\ position[q] <= Len(log[q])
                                /\ Len(log[q]) \in Nat /\ DOMAIN log[q] = 1 .. Len(log[q])
      BY DEF TypeOK
    <3>2. QED
      BY <1>20, <3>1, LogGrows
  <2>3. QED
    BY <1>2, <2>1, <2>2 DEF ReadHandled
<1>21. CASE UNCHANGED vars
  BY <1>4, <1>21 DEF vars, consumerVars, replayVars
<1>22. QED
  BY <1>5, <1>6, <1>7, <1>8, <1>9, <1>10, <1>11, <1>12, <1>13, <1>14, <1>15, <1>16, <1>17,
     <1>18, <1>19, <1>20, <1>21, <1>23, <1>24, <1>25
     DEF Next, Consume

LEMMA ReplayImplies ==
  ASSUME TypeOK, TxFollows, StoredLogged, ReadHandled
  PROVE  ReplayRepairs
<1> SUFFICES ASSUME CaughtUp, ~ failed
             PROVE  /\ Reported \subseteq db.entities
                    /\ \A d \in known : \A u \in Upstream[d] \cap known : <<u, d>> \in db.edges
  BY DEF ReplayRepairs
<1>1. step.at = "poll" /\ tx = db
  BY DEF CaughtUp, TxFollows
<1>2. \A p \in Partitions : DOMAIN log[p] = 1 .. position[p]
  BY DEF CaughtUp, TypeOK
<1>3. ASSUME NEW x \in Reported
      PROVE  x \in db.entities
  <2>1. PICK e \in (UNION {Range(log[p]) : p \in Partitions}) \ Foreign : x = e.entity
    BY <1>3 DEF Reported
  <2>2. PICK p \in Partitions : e \in Range(log[p])
    BY <2>1
  <2>3. PICK i \in DOMAIN log[p] : log[p][i] = e
    BY <2>2 DEF Range
  <2>4. log[p][i] \in Created
    BY <2>1, <2>3 DEF TypeOK
  <2>5. QED
    BY <1>1, <1>2, <2>1, <2>3, <2>4 DEF ReadHandled
<1>4. ASSUME NEW d \in known, NEW u \in Upstream[d] \cap known
      PROVE  <<u, d>> \in db.edges
  <2>1. d \in Logged
    BY DEF StoredLogged, TxFollows
  <2>2. PICK p \in Partitions : \E i \in DOMAIN log[p] : log[p][i] \in Created /\ log[p][i].entity = d
    BY <2>1 DEF Logged
  <2>3. QED
    BY <1>1, <1>2, <2>2 DEF ReadHandled
<1>5. QED
  BY <1>3, <1>4

(* A process in which nothing failed has, once it is through, all entities *)
(* of the topic, and its replay has mended the lineage of those stored     *)
(* before it began, in whatever order events come.                         *)
THEOREM ConsumerReplayCorrect == Spec => []ReplayRepairs
<1> DEFINE I == TypeOK /\ TxFollows /\ StoredLogged /\ ReadHandled
<1>1. Init => I
  BY MetaTypeInit, TxInit, StoredInit, ReadInit
<1>2. I /\ [Next]_vars => I'
  BY MetaTypeNext, TxNext, StoredNext, ReadNext
<1>3. I => ReplayRepairs
  BY ReplayImplies
<1>4. QED
  BY <1>1, <1>2, <1>3, PTL DEF Spec

----------------------------------------------------------------------------
(* Its rows.                                                               *)

LEMMA RowsInit == Init => RowsPaid
<1> SUFFICES ASSUME Init PROVE RowsPaid
  OBVIOUS
<1>1. step.at = "poll" /\ replays = 0 /\ \A m \in Places : tx.rows[m] = 0
  BY DEF Init, Polling
<1>2. QED
  BY <1>1 DEF RowsPaid

LEMMA RowsNext ==
  ASSUME TypeOK, TxFollows, RowsPaid, [Next]_vars
  PROVE  RowsPaid'
<1>1. /\ step.at \notin {"poll", "none"} => step \in Steps /\ step.place \in Places
      /\ tx \in Tables /\ db \in Tables /\ position \in [Partitions -> Nat]
  BY StepShape DEF TypeOK
<1>2. /\ \A m \in Places : tx.rows[m] \in Nat /\ db.rows[m] \in Nat
      /\ tx.rows \in [Places -> Nat] /\ replays \in Nat
      /\ \A m \in Places : db.rows[m] <= tx.rows[m]
      /\ \A m \in Places : m.off \in Nat /\ m.part \in Partitions
  BY <1>1, TablesShape, PlaceType, MetadataAssumption DEF TypeOK, TxFollows
(* A step that inserts nothing and reads nothing.                          *)
<1>3. ASSUME tx'.rows \in {tx.rows, db.rows}, UNCHANGED <<position, replays>>,
             \/ step'.at = "edges" /\ step.at = "edges" /\ step'.place = step.place
             \/ step'.at # "edges"
      PROVE  RowsPaid'
  <2>1. \A m \in Places : tx'.rows[m] <= tx.rows[m]
    BY <1>2, <1>3
  <2>2. \A m \in Places : tx'.rows[m] \in Nat
    BY <1>2, <1>3
  <2>3. \A m \in Places :
          /\ m.off <= position[m.part] => tx'.rows[m] <= replays + 1
          /\ ~ (m.off <= position[m.part]) => tx'.rows[m] <= replays
          /\ step.at = "edges" /\ step.place = m => tx'.rows[m] <= replays
    BY <1>2, <2>1, <2>2 DEF RowsPaid
  <2>4. QED
    BY <1>3, <2>3 DEF RowsPaid
<1>4. ASSUME NEW p \in Partitions, Read(p)
      PROVE  \A m \in Places : m.off <= position'[m.part] =>
               m.off <= position[m.part] \/ m = [part |-> p, off |-> position[p] + 1]
  <2>1. /\ position[p] \in Nat
        /\ \A q \in Partitions : position'[q] = IF q = p THEN position[p] + 1 ELSE position[q]
    BY <1>4, ReadType
  <2>2. \A m \in Places : m.off <= position'[m.part] =>
          m.off <= position[m.part] \/ (m.part = p /\ m.off = position[p] + 1)
    BY <1>2, <2>1
  <2>3. QED
    BY <2>2, PlaceType
(* An event is read and passed by.                                         *)
<1>5. ASSUME NEW p \in Partitions, Read(p), tx' \in {tx, db}, step' = step, replays' = replays
      PROVE  RowsPaid'
  <2>1. /\ step.at = "poll" /\ position' \in [Partitions -> Nat]
        /\ \A q \in Partitions : position[q] <= position'[q]
    BY <1>1, <1>5, ReadType
  <2>2. \A m \in Places : tx'.rows[m] <= tx.rows[m] /\ tx'.rows[m] \in Nat
    BY <1>2, <1>5
  <2>3. \A m \in Places :
          /\ tx'.rows[m] <= replays + 1
          /\ ~ (m.off <= position[m.part]) => tx'.rows[m] <= replays
    BY <1>2, <2>2 DEF RowsPaid
  <2>4. \A m \in Places : ~ (m.off <= position'[m.part]) => ~ (m.off <= position[m.part])
    BY <1>1, <1>2, <2>1
  <2>5. QED
    BY <1>5, <2>1, <2>3, <2>4 DEF RowsPaid
<1>6. ASSUME NEW p \in Partitions, Ignore(p)
      PROVE  RowsPaid'
  BY <1>5, <1>6 DEF Ignore, replayVars
<1>7. ASSUME NEW p \in Partitions, Upsert(p)
      PROVE  RowsPaid'
  <2> DEFINE k == [part |-> p, off |-> position[p] + 1]
  <2>1. /\ tx'.rows = tx.rows /\ replays' = replays /\ step'.at = "edges" /\ step'.place = k
    BY <1>7, UpsertShape
  <2>2. /\ Read(p) /\ step.at = "poll" /\ position[p] \in Nat /\ position' \in [Partitions -> Nat]
        /\ \A q \in Partitions : position'[q] = IF q = p THEN position[p] + 1 ELSE position[q]
    BY <1>7, ReadType DEF Upsert
  <2>3. /\ k \in Places /\ ~ (k.off <= position[k.part])
        /\ k.off <= position'[k.part]
    BY <1>7, <2>2, ReadPlace DEF Upsert
  <2>4. \A m \in Places : m.off <= position'[m.part] => m.off <= position[m.part] \/ m = k
    BY <1>4, <2>2
  <2> HIDE DEF k
  <2>5. \A m \in Places :
          /\ tx.rows[m] <= replays + 1
          /\ ~ (m.off <= position[m.part]) => tx.rows[m] <= replays
    BY <1>2, <2>2 DEF RowsPaid
  <2>6. \A m \in Places : ~ (m.off <= position'[m.part]) => ~ (m.off <= position[m.part])
    BY <1>1, <1>2, <2>2
  <2>7. QED
    BY <2>1, <2>3, <2>4, <2>5, <2>6 DEF RowsPaid
<1>8. ASSUME NEW p \in Partitions, UpsertFails(p)
      PROVE  RowsPaid'
  BY <1>5, <1>8, RefusedType DEF UpsertFails, replayVars
<1>9. ASSUME NEW u \in Entities, Edge(u)
      PROVE  RowsPaid'
  <2>1. tx'.rows = tx.rows
    BY <1>1, <1>9 DEF Edge, Tables
  <2>2. step'.at = "edges" /\ step.at = "edges" /\ step'.place = step.place
    BY <1>1, <1>9 DEF Edge, Steps
  <2>3. QED
    BY <1>3, <1>9, <2>1, <2>2 DEF Edge, replayVars
<1>10. ASSUME NEW u \in Entities, EdgeFails(u)
       PROVE  RowsPaid'
  <2>1. step'.at = "edges" /\ step.at = "edges" /\ step'.place = step.place
    BY <1>1, <1>10 DEF EdgeFails, Steps
  <2>2. tx' = db
    BY <1>10 DEF EdgeFails, Fails
  <2>3. QED
    BY <1>3, <1>10, <2>1, <2>2 DEF EdgeFails, replayVars
(* The checks of the event at work are inserted.                           *)
<1>11. ASSUME step.at = "edges", step'.at # "edges", tx' = WithChecks, UNCHANGED <<position, replays>>
       PROVE  RowsPaid'
  <2>1. step \in Steps /\ step.place \in Places /\ tx'.rows = [tx.rows EXCEPT ![step.place] = @ + 1]
    BY <1>1, <1>11, WithChecksType
  <2>2. /\ tx.rows[step.place] <= replays
        /\ step.place.off <= position[step.place.part]
    BY <1>11, <2>1 DEF RowsPaid
  <2>3. tx'.rows[step.place] <= replays + 1
    BY <1>2, <2>1, <2>2
  <2>4. \A m \in Places \ {step.place} :
          IF m.off <= position[m.part] THEN tx'.rows[m] <= replays + 1 ELSE tx'.rows[m] <= replays
    BY <1>2, <2>1 DEF RowsPaid
  <2>5. QED
    BY <1>11, <2>2, <2>3, <2>4 DEF RowsPaid
<1>12. CASE InsertChecks
  <2>1. step'.at # "edges"
    BY <1>1, <1>12, GotoShape DEF InsertChecks
  <2>2. QED
    BY <1>11, <1>12, <2>1 DEF InsertChecks, replayVars
<1>13. CASE ChecksFail
  BY <1>3, <1>13 DEF ChecksFail, Fails, Polling, replayVars
<1>14. CASE ChecksBreakOff
  <2>1. step.at = "edges" /\ step'.at # "edges" /\ UNCHANGED <<position, replays>>
    BY <1>14 DEF ChecksBreakOff, Polling, replayVars
  <2>2. CASE tx' = tx
    BY <1>3, <2>1, <2>2
  <2>3. CASE tx' = WithChecks
    BY <1>11, <2>1, <2>3
  <2>4. QED
    BY <1>14, <2>2, <2>3 DEF ChecksBreakOff
<1>15. CASE NoChecks
  <2>1. step'.at # "edges"
    BY <1>1, <1>15, GotoShape DEF NoChecks
  <2>2. QED
    BY <1>3, <1>15, <2>1 DEF NoChecks, replayVars
<1>16. CASE Mark
  <2>1. step'.at # "edges"
    BY <1>1, <1>16, GotoShape DEF Mark
  <2>2. tx'.rows = tx.rows
    BY <1>1, <1>16 DEF Mark, Tables
  <2>3. QED
    BY <1>3, <1>16, <2>1, <2>2 DEF Mark, replayVars
<1>17. CASE MarkFails
  <2>1. step'.at # "edges"
    BY <1>1, <1>17, GotoShape DEF MarkFails
  <2>2. QED
    BY <1>3, <1>17, <2>1 DEF MarkFails, Fails, replayVars
<1>18. CASE Alert
  <2>1. step'.at # "edges"
    BY <1>1, <1>18, GotoShape DEF Alert
  <2>2. QED
    BY <1>3, <1>18, <2>1 DEF Alert, replayVars
<1>19. CASE AlertFails
  <2>1. step'.at # "edges"
    BY <1>1, <1>19, GotoShape DEF AlertFails
  <2>2. QED
    BY <1>3, <1>19, <2>1 DEF AlertFails, replayVars
<1>20. CASE Commit
  BY <1>3, <1>20 DEF Commit, Polling, replayVars
<1>21. CASE CommitLost
  BY <1>3, <1>21 DEF CommitLost, Polling, replayVars
(* The topic is begun again.                                               *)
<1>22. ASSUME Replay, tx' \in {tx, db}, step'.at # "edges"
       PROVE  RowsPaid'
  <2>1. \A m \in Places : tx'.rows[m] <= tx.rows[m] /\ tx'.rows[m] \in Nat
    BY <1>2, <1>22
  <2>2. \A m \in Places : tx'.rows[m] <= replays + 1
    BY <1>2, <2>1 DEF RowsPaid
  <2>3. replays' = replays + 1
    BY <1>22 DEF Replay
  <2>4. \A m \in Places : tx'.rows[m] <= replays' /\ tx'.rows[m] <= replays' + 1
    BY <1>2, <2>1, <2>2, <2>3
  <2>5. QED
    BY <1>22, <2>4 DEF RowsPaid
<1>23. CASE Rebalance
  BY <1>22, <1>23 DEF Rebalance
<1>24. CASE Restart
  BY <1>22, <1>24 DEF Restart, Polling
<1>25. CASE StartFails
  BY <1>3, <1>25 DEF StartFails, NoConsumer, replayVars
<1>26. ASSUME NEW e \in Created \cup Foreign, NEW p \in Partitions, Publish(e, p)
       PROVE  RowsPaid'
  BY <1>26 DEF Publish, consumerVars, replayVars, RowsPaid
<1>27. CASE UNCHANGED vars
  BY <1>27 DEF vars, consumerVars, replayVars, RowsPaid
<1>28. QED
  BY <1>6, <1>7, <1>8, <1>9, <1>10, <1>12, <1>13, <1>14, <1>15, <1>16, <1>17, <1>18, <1>19,
     <1>20, <1>21, <1>23, <1>24, <1>25, <1>26, <1>27
     DEF Next, Consume

LEMMA RowsImply ==
  ASSUME TypeOK, TxFollows, RowsPaid
  PROVE  RowsExplained
<1>1. /\ \A m \in Places : db.rows[m] \in Nat /\ tx.rows[m] \in Nat
      /\ replays \in Nat
  BY TablesShape DEF TypeOK
<1>2. \A m \in Places : tx.rows[m] <= replays + 1
  BY <1>1 DEF RowsPaid
<1>3. \A m \in Places : db.rows[m] <= 1 + replays
  BY <1>1, <1>2 DEF TxFollows
<1>4. QED
  BY <1>3 DEF RowsExplained

(* However events are replayed by restarts and rebalances, transactions    *)
(* fail and checks break off, an event's checks are stored at most once    *)
(* for each time the topic is read.                                        *)
THEOREM ConsumerRowsCorrect == Spec => []RowsExplained
<1> DEFINE I == TypeOK /\ TxFollows /\ RowsPaid
<1>1. Init => I
  BY MetaTypeInit, TxInit, RowsInit
<1>2. I /\ [Next]_vars => I'
  BY MetaTypeNext, TxNext, RowsNext
<1>3. I => RowsExplained
  BY RowsImply
<1>4. QED
  BY <1>1, <1>2, <1>3, PTL DEF Spec

=============================================================================
