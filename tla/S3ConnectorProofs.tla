----------------------------- MODULE S3ConnectorProofs ----------------------------
(* Proofs about S3Connector for any bucket, page size and faults: every    *)
(* version that the watermark covers has its event, no version has more    *)
(* events than faults explain, and a row comes before an event.            *)
EXTENDS S3Connector, FiniteSetTheorems, WellFoundedInduction, TLAPS

(* The first and the last name of a page exist.                            *)
Bounds(A) == /\ \E a \in A : \A b \in A : a <= b
             /\ \E a \in A : \A b \in A : b <= a

LEMMA FiniteBounds ==
  ASSUME NEW S \in SUBSET Nat, IsFiniteSet(S), S # {}
  PROVE  Bounds(S)
  <1> DEFINE Bad == {A \in SUBSET S : A # {} /\ ~ Bounds(A)}
  <1>1. IsWellFoundedOn(StrictSubsetOrdering(S), SUBSET S)
    BY FS_StrictSubsetOrderingWellFounded, FS_FiniteSubsetsOfFinite
  <1>2. SUFFICES ASSUME Bad # {}  PROVE FALSE
    OBVIOUS
  <1>3. PICK A \in Bad : \A B \in Bad : <<B, A>> \notin StrictSubsetOrdering(S)
    <2> HIDE DEF Bad
    <2>1. Bad \subseteq SUBSET S
      BY DEF Bad
    <2> QED  BY <1>1, <1>2, <2>1, WFMin
  <1>4. PICK e \in A : TRUE
    OBVIOUS
  <1> DEFINE B == A \ {e}
  <1>5. B \notin Bad
    BY <1>3, <1>4 DEF StrictSubsetOrdering
  <1>6. CASE B = {}
    <2>1. A = {e} /\ e \in Nat
      BY <1>4, <1>6
    <2> QED  BY <2>1 DEF Bounds
  <1>7. CASE B # {}
    <2>1. Bounds(B)
      BY <1>5, <1>7
    <2>2. PICK l \in B, g \in B : \A b \in B : l <= b /\ b <= g
      BY <2>1 DEF Bounds
    <2>3. {l, g, e} \subseteq Nat /\ A \subseteq Nat
      BY <1>4
    <2>4. \E a \in A : \A b \in A : a <= b
      <3>1. CASE e <= l
        BY <2>2, <2>3, <3>1
      <3>2. CASE l <= e
        BY <2>2, <2>3, <3>2
      <3> QED  BY <2>3, <3>1, <3>2
    <2>5. \E a \in A : \A b \in A : b <= a
      <3>1. CASE g <= e
        BY <2>2, <2>3, <3>1
      <3>2. CASE e <= g
        BY <2>2, <2>3, <3>2
      <3> QED  BY <2>3, <3>1, <3>2
    <2> QED  BY <2>4, <2>5 DEF Bounds
  <1> QED  BY <1>6, <1>7

(* The page after a name: the marker goes to the last name on it, or stays *)
(* if there is none; what is not on it comes after that.                   *)
LEMMA PageForm ==
  ASSUME NEW rest \in SUBSET Objects, NEW first,
         first = {o \in rest : Cardinality({q \in rest : q < o}) < PageSize}
  PROVE  /\ first = {} => rest = {}
         /\ first # {} => \E m \in first :
              /\ m = CHOOSE o \in first : \A q \in first : q <= o
              /\ \A q \in first : q <= m
              /\ \A q \in rest \ first : q > m
  <1>1. rest \subseteq Nat /\ IsFiniteSet(rest) /\ first \subseteq rest /\ IsFiniteSet(first)
    BY ConnectorAssumption, FS_Subset
  <1>2. ASSUME rest # {}  PROVE first # {}
    <2>1. PICK o \in rest : \A q \in rest : o <= q
      BY <1>1, <1>2, FiniteBounds DEF Bounds
    <2>2. {q \in rest : q < o} = {}
      <3>1. \A q \in rest : q \in Nat /\ o \in Nat /\ o <= q
        BY <1>1, <2>1
      <3>2. \A q \in rest : ~ (q < o)
        BY <3>1
      <3> QED  BY <3>2
    <2>3. o \in first
      BY <2>1, <2>2, FS_EmptySet, ConnectorAssumption
    <2> QED  BY <2>3
  <1>3. ASSUME first # {}
        PROVE  \E m \in first :
                 /\ m = CHOOSE o \in first : \A q \in first : q <= o
                 /\ \A q \in first : q <= m
                 /\ \A q \in rest \ first : q > m
    <2> DEFINE m == CHOOSE o \in first : \A q \in first : q <= o
    <2>1. \E o \in first : \A q \in first : q <= o
      <3>1. first \in SUBSET Nat
        BY <1>1
      <3> QED  BY <1>1, <1>3, <3>1, FiniteBounds DEF Bounds
    <2>2. m \in first /\ \A q \in first : q <= m
      BY <2>1
    <2> HIDE DEF m
    <2>3. ASSUME NEW q \in rest \ first, q <= m  PROVE FALSE
      <3>1. {p \in rest : p < q} \in SUBSET {p \in rest : p < m}
        <4>1. q \in Nat /\ m \in Nat /\ q <= m /\ \A p \in rest : p \in Nat
          BY <1>1, <2>2, <2>3
        <4>2. \A p \in rest : p < q => p < m
          BY <4>1
        <4> QED  BY <4>2
      <3>2. IsFiniteSet({p \in rest : p < m}) /\ IsFiniteSet({p \in rest : p < q})
        BY <1>1, FS_Subset
      <3>3. Cardinality({p \in rest : p < q}) <= Cardinality({p \in rest : p < m})
        BY <3>1, <3>2, FS_Subset
      <3>4. Cardinality({p \in rest : p < m}) < PageSize
        BY <2>2
      <3>5. Cardinality({p \in rest : p < q}) < PageSize
        BY <3>2, <3>3, <3>4, FS_CardinalityType, ConnectorAssumption
      <3> QED  BY <2>3, <3>5
    <2>4. \A q \in rest \ first : q > m
      BY <1>1, <2>2, <2>3
    <2> QED  BY <2>2, <2>4 DEF m
  <1> QED  BY <1>2, <1>3

(* A step of the listing.                                                  *)
LEMMA NextPageForm ==
  ASSUME TypeOK, NextPage
  PROVE  /\ marker' \in Objects \cup {0}
         /\ marker <= marker'
         /\ \A x \in page' : /\ x \in Listed /\ x.modified = bucket[x.name]
                             /\ marker < x.name /\ x.name <= marker'
         /\ \A o \in Objects : bucket[o] # 0 /\ o > marker =>
              \/ [name |-> o, modified |-> bucket[o]] \in page'
              \/ more' /\ o > marker'
  <1> DEFINE rest  == {o \in Objects : o > marker /\ bucket[o] # 0}
             first == {o \in rest : Cardinality({q \in rest : q < o}) < PageSize}
  <1>1. /\ page'   = {[name |-> o, modified |-> bucket[o]] : o \in first}
        /\ marker' = IF first = {} THEN marker ELSE CHOOSE o \in first : \A q \in first : q <= o
        /\ more'   = (first # rest)
    BY DEF NextPage
  <1>2. rest \in SUBSET Objects /\ first \subseteq rest
    OBVIOUS
  <1>3. /\ first = {} => rest = {}
        /\ first # {} => \E m \in first :
             /\ m = CHOOSE o \in first : \A q \in first : q <= o
             /\ \A q \in first : q <= m
             /\ \A q \in rest \ first : q > m
    BY <1>2, PageForm
  <1>4. \A o \in rest : o \in Objects /\ o > marker /\ bucket[o] \in Times \ {0}
    BY DEF TypeOK
  <1>5. Objects \subseteq Nat /\ marker \in Nat
    BY ConnectorAssumption DEF TypeOK
  <1>6. \A o \in Objects : bucket[o] # 0 /\ o > marker => o \in rest
    OBVIOUS
  <1> HIDE DEF rest, first
  <1>7. /\ marker' \in Objects \cup {0} /\ marker <= marker'
        /\ \A o \in first : o <= marker'
        /\ \A o \in rest \ first : more' /\ o > marker'
    <2>1. CASE first = {}
      BY <1>1, <1>3, <1>5, <2>1 DEF TypeOK
    <2>2. CASE first # {}
      <3>1. marker' \in first /\ \A q \in first : q <= marker'
        BY <1>1, <1>3, <2>2
      <3>2. \A q \in rest \ first : q > marker'
        BY <1>1, <1>3, <2>2
      <3>3. \A q \in rest \ first : more'
        BY <1>1
      <3> QED  BY <1>2, <1>4, <1>5, <3>1, <3>2, <3>3
    <2> QED  BY <2>1, <2>2
  <1>8. \A x \in page' : \E o \in first : x = [name |-> o, modified |-> bucket[o]]
    BY <1>1
  <1>9. \A x \in page' : /\ x \in Listed /\ x.modified = bucket[x.name]
                         /\ marker < x.name /\ x.name <= marker'
    <2> TAKE x \in page'
    <2>1. PICK o \in first : x = [name |-> o, modified |-> bucket[o]]
      BY <1>8
    <2>2. /\ o \in Objects /\ o > marker /\ o <= marker'
          /\ bucket[o] \in Times \ {0} /\ o \in Nat /\ marker \in Nat
      BY <1>2, <1>4, <1>5, <1>7
    <2> QED  BY <2>1, <2>2 DEF Listed
  <1>10. \A o \in first : [name |-> o, modified |-> bucket[o]] \in page'
    BY <1>1
  <1> QED  BY <1>6, <1>7, <1>9, <1>10

----------------------------------------------------------------------------
Version(o, t) == [name |-> o, modified |-> t]

(* Types.                                                                  *)
LEMMA FaultTyped ==
  ASSUME TypeOK, NEW k, Fault(k)
  PROVE  faults' \in 0 .. MaxFaults /\ faults' = faults + 1
  BY FaultAssumption DEF TypeOK, Fault

LEMMA OnPage ==
  ASSUME TypeOK, NEW x \in page
  PROVE  /\ x \in Listed /\ x.name \in Objects /\ x.name \in Nat
         /\ x.modified \in Times \ {0} /\ x = Version(x.name, x.modified)
  BY ConnectorAssumption DEF TypeOK, Listed, Version

LEMMA Counted ==
  ASSUME TypeOK, NEW x \in page,
         published' = [published EXCEPT ![x.name][x.modified] = @ + 1]
  PROVE  /\ published' \in [Objects -> [Times -> Nat]]
         /\ published'[x.name][x.modified] = published[x.name][x.modified] + 1
         /\ \A o \in Objects : \A t \in Times :
              o # x.name \/ t # x.modified => published'[o][t] = published[o][t]
  <1>1. x.name \in Objects /\ x.modified \in Times
    BY OnPage
  <1> DEFINE f == [published[x.name] EXCEPT ![x.modified] = @ + 1]
  <1>2. published' = [published EXCEPT ![x.name] = f]
    OBVIOUS
  <1>3. f \in [Times -> Nat]
    BY <1>1 DEF TypeOK
  <1>4. f[x.modified] = published[x.name][x.modified] + 1
        /\ \A t \in Times \ {x.modified} : f[t] = published[x.name][t]
    BY <1>1 DEF TypeOK
  <1> HIDE DEF f
  <1> QED  BY <1>1, <1>2, <1>3, <1>4 DEF TypeOK

(* No attempt has raised before the first.                                 *)
LEMMA FirstAttempt == 0 \in 0 .. Attempts - 1
  BY ConnectorAssumption

LEMMA PageTyping ==
  ASSUME TypeOK, NEW x \in page, Skip(x) \/ Reject(x) \/ Announce(x)
  PROVE  TypeOK'
  <1>1. x.name \in Objects
    BY OnPage
  <1>2. CASE Skip(x)
    BY <1>2, FirstAttempt DEF Skip, Done, TypeOK
  <1>3. CASE Reject(x)
    BY <1>1, <1>3, FirstAttempt DEF Reject, Done, TypeOK
  <1>4. CASE Announce(x)
    BY <1>1, <1>4 DEF Announce, TypeOK
  <1> QED  BY <1>2, <1>3, <1>4

LEMMA PublishTyping ==
  ASSUME TypeOK, NEW x \in page, Publish(x) \/ PublishFails(x)
  PROVE  TypeOK'
  <1>1. x \in Listed /\ x.name \in Objects /\ x.modified \in Times
    BY OnPage
  <1>2. faults' \in 0 .. MaxFaults
    BY FaultTyped DEF Publish, PublishFails, TypeOK
  <1>3. published' \in [Objects -> [Times -> Nat]]
    BY Counted DEF Publish, PublishFails, Copy, TypeOK
  <1>4. missed' \in SUBSET Listed /\ newWatermark' \in Times
    BY <1>1 DEF Publish, PublishFails, TypeOK
  <1>5. attempt' \in 0 .. Attempts - 1
    BY ConnectorAssumption DEF Publish, PublishFails, Done, TypeOK
  <1> QED  BY <1>2, <1>3, <1>4, <1>5 DEF Publish, PublishFails, Done, TypeOK

(* What the ways to end a poll by an exception have in common: only those  *)
(* on a connection that is not usable need no new fault.                   *)
Aborted ==
  /\ Abort
  /\ UNCHANGED <<bucket, clock, watermark, status, published, missed>>
  /\ connection' \in {"ok", "lost", "aborted"}
  /\ \/ faults' = faults + 1 /\ faults < MaxFaults
     \/ connection # "ok" /\ UNCHANGED faults

LEMMA AbortForm ==
  ASSUME TypeOK,
         \/ PollFails
         \/ \E x \in page : ConnectionLost(x) \/ Reconnect(x) \/ StatementRefused(x)
  PROVE  Aborted
  <1>1. CASE PollFails
    BY <1>1 DEF PollFails, Aborted, Fault, TypeOK
  <1>2. ASSUME NEW x \in page, ConnectionLost(x)  PROVE Aborted
    BY <1>2 DEF ConnectionLost, Aborted, Fault
  <1>3. ASSUME NEW x \in page, Reconnect(x)  PROVE Aborted
    BY <1>3 DEF Reconnect, Aborted
  <1>4. ASSUME NEW x \in page, StatementRefused(x)  PROVE Aborted
    BY <1>4 DEF StatementRefused, Aborted, Fault
  <1> QED  BY <1>1, <1>2, <1>3, <1>4

LEMMA UploadTyping ==
  ASSUME TypeOK, NEW o \in Objects, Upload(o)
  PROVE  TypeOK'
  <1>1. clock' \in Times /\ clock' > 0
    <2>1. \/ clock < MaxTime /\ clock' = clock + 1
          \/ clock > 0 /\ clock' = clock
      BY DEF Upload
    <2>2. clock \in 0 .. MaxTime /\ MaxTime \in Nat
      BY ConnectorAssumption DEF TypeOK, Times
    <2>3. clock' \in 0 .. MaxTime /\ clock' > 0
      BY <2>1, <2>2
    <2> QED  BY <2>3 DEF Times
  <1>2. faults' \in 0 .. MaxFaults
    BY FaultTyped DEF Upload, TypeOK
  <1>3. missed' \in SUBSET Listed
    <2>1. Version(o, clock') \in Listed
      BY <1>1 DEF Version, Listed, Times
    <2>2. missed' \subseteq missed \cup {Version(o, clock')}
      BY DEF Upload, Version
    <2> QED  BY <2>1, <2>2 DEF TypeOK
  <1> QED  BY <1>1, <1>2, <1>3 DEF Upload, pollVars, TypeOK

LEMMA Typing ==
  ASSUME TypeOK, [Next]_vars
  PROVE  TypeOK'
  <1>1. CASE StartPoll
    BY <1>1, FirstAttempt DEF StartPoll, TypeOK
  <1>2. CASE NextPage
    <2>1. page' \in SUBSET Listed /\ marker' \in Objects \cup {0}
      BY <1>2, NextPageForm
    <2>2. more' \in BOOLEAN
      BY <1>2 DEF NextPage
    <2> QED  BY <1>2, <2>1, <2>2 DEF NextPage, TypeOK
  <1>3. CASE EndPoll
    BY <1>3 DEF EndPoll, TypeOK
  <1>4. CASE Aborted
    <2>1. faults' \in 0 .. MaxFaults
      BY <1>4, FaultAssumption DEF Aborted, TypeOK
    <2> QED  BY <1>4, <2>1, FirstAttempt DEF Aborted, Abort, TypeOK
  <1>5. CASE UNCHANGED vars
    BY <1>5 DEF vars, pollVars, TypeOK
  <1> QED
    BY <1>1, <1>2, <1>3, <1>4, <1>5, PageTyping, PublishTyping, AbortForm, UploadTyping
       DEF Next, Poll

(* Every variable of bucket, connector and table keeps its type.           *)
THEOREM ConnectorTypeCorrect == Spec => []TypeOK
  <1>1. Init => TypeOK
    <2>1. /\ 0 \in Times /\ 0 \in 0 .. MaxFaults
          /\ [o \in Objects |-> [t \in Times |-> 0]] \in [Objects -> [Times -> Nat]]
      BY ConnectorAssumption, FaultAssumption DEF Times
    <2> QED  BY <2>1, FirstAttempt DEF Init, TypeOK
  <1>2. TypeOK /\ [Next]_vars => TypeOK'
    BY Typing
  <1> QED  BY <1>1, <1>2, PTL DEF Spec

----------------------------------------------------------------------------
(* The inductive invariant.                                                *)

(* No time is ahead of the clock, and a page is of the poll under way.     *)
InTime ==
  /\ watermark <= clock
  /\ polling => seen = watermark /\ watermark <= newWatermark /\ newWatermark <= clock
  /\ \A o \in Objects : bucket[o] <= clock
  /\ \A x \in page : polling /\ x.modified <= clock /\ x.name <= marker
  /\ \A x, y \in page : x.name = y.name => x = y

Settled(o) ==
  published[o][bucket[o]] > 0 \/ Version(o, bucket[o]) \in missed

(* It is too late for the poll to take the version as passed.              *)
Later(o) ==
  bucket[o] > newWatermark /\ \A y \in page : bucket[o] > y.modified

(* A poll has settled an object, has it on its page, or will come to it;   *)
(* once the listing is over, what it has not is newer than all it has.     *)
Found(o) ==
  \/ bucket[o] = 0
  \/ Settled(o)
  \/ Version(o, bucket[o]) \in page
  \/ more /\ o > marker
  \/ ~ more /\ Later(o)

PollFinds == polling => \A o \in Allowed : Found(o)

(* The object at hand has its row before its event.                        *)
RowFirst ==
  announced =>
    /\ connection = "ok"
    /\ page # {}
    /\ \A x \in page : IsNext(x) =>
         status[x.name] = "pending" /\ x.name \in Allowed /\ x.modified > seen

(* A version with as many events as can be is covered by the watermark, or *)
(* will be when the poll that is past it ends.                             *)
LastEvent(o, t) ==
  \/ t <= watermark
  \/ /\ polling /\ connection = "ok"
     /\ t <= newWatermark /\ o <= marker
     /\ Version(o, t) \notin page

EventsLimited ==
  \A o \in Objects : \A t \in Times :
    published[o][t] <= faults + 1 /\ (published[o][t] = faults + 1 => LastEvent(o, t))

ConnectorInv ==
  InTime /\ WatermarkCovers /\ PollFinds /\ RowFirst /\ PublishedAnnounced /\ EventsLimited


LEMMA Numbers ==
  ASSUME TypeOK
  PROVE  /\ clock \in Nat /\ watermark \in Nat /\ seen \in Nat /\ newWatermark \in Nat
         /\ marker \in Nat /\ faults \in Nat /\ Times \subseteq Nat /\ Objects \subseteq Nat
         /\ Allowed \subseteq Objects /\ \A o \in Objects : o > 0
         /\ \A o \in Objects : bucket[o] \in Times
         /\ \A o \in Objects : \A t \in Times : published[o][t] \in Nat
  BY ConnectorAssumption DEF TypeOK, Times

(* Events are limited still if there are none more.                        *)
LEMMA NoMoreEvents ==
  ASSUME TypeOK, EventsLimited, UNCHANGED published, faults' \in {faults, faults + 1},
         faults' = faults =>
           \A o \in Objects : \A t \in Times : LastEvent(o, t) => LastEvent(o, t)'
  PROVE  EventsLimited'
  <1>1. \A o \in Objects : \A t \in Times :
          /\ published'[o][t] = published[o][t] /\ published[o][t] \in Nat
          /\ faults \in Nat
    BY Numbers
  <1> QED  BY <1>1 DEF EventsLimited

(* The connector's view of an object that stays as it is.                  *)
LEMMA StillFound ==
  ASSUME TypeOK, NEW o \in Objects, Found(o), bucket'[o] = bucket[o],
         Settled(o) => Settled(o)',
         Version(o, bucket[o]) \in page => Version(o, bucket[o]) \in page' \/ Settled(o)',
         more' = more, marker' = marker,
         ~ more /\ Later(o) => Later(o)'
  PROVE  Found(o)'
  BY DEF Found

LEMMA UploadStep ==
  ASSUME TypeOK, ConnectorInv, NEW o \in Objects, Upload(o)
  PROVE  ConnectorInv'
  <1> USE DEF ConnectorInv
  <1>1. /\ UNCHANGED <<watermark, polling, seen, newWatermark, page, marker, more, announced,
                       connection, status, published>>
        /\ bucket'[o] = clock' /\ \A q \in Objects \ {o} : bucket'[q] = bucket[q]
        /\ missed \subseteq missed'
    BY DEF Upload, pollVars, TypeOK
  <1>2. \/ /\ clock' = clock + 1 /\ UNCHANGED faults
           /\ Behind(o) /\ more => Version(o, clock') \in missed'
        \/ /\ clock' = clock /\ faults' = faults + 1
           /\ Behind(o) \/ clock <= watermark => Version(o, clock') \in missed'
    BY DEF Upload, Fault, Version
  <1>3. InTime'
    <2>1. clock \in Nat /\ clock' \in Nat /\ clock <= clock' /\ newWatermark \in Nat
          /\ watermark \in Nat
      BY <1>2, Numbers
    <2>2. \A q \in Objects : bucket'[q] <= clock'
      BY <1>1, <2>1, Numbers DEF InTime
    <2>3. \A x \in page : polling /\ x.modified <= clock' /\ x.name <= marker
      BY <2>1, OnPage, Numbers DEF InTime
    <2> QED  BY <1>1, <2>1, <2>2, <2>3 DEF InTime
  <1>4. WatermarkCovers'
    <2>1. ASSUME NEW q \in Allowed, q # o, bucket'[q] # 0, bucket'[q] <= watermark'
          PROVE  published'[q][bucket'[q]] > 0 \/ Version(q, bucket'[q]) \in missed'
      <3>1. q \in Objects /\ bucket'[q] = bucket[q]
        BY <1>1, <2>1, Numbers
      <3> QED  BY <1>1, <2>1, <3>1 DEF WatermarkCovers, Version
    <2>2. bucket'[o] <= watermark' => Version(o, bucket'[o]) \in missed'
      BY <1>1, <1>2, Numbers DEF InTime
    <2> QED  BY <2>1, <2>2 DEF WatermarkCovers, Version
  <1>5. PollFinds'
    <2> SUFFICES ASSUME polling, NEW q \in Allowed  PROVE Found(q)'
      BY <1>1 DEF PollFinds
    <2>1. q \in Objects /\ Found(q)
      BY Numbers DEF PollFinds
    <2>2. CASE q # o
      <3>1. bucket'[q] = bucket[q]
        BY <1>1, <2>1, <2>2
      <3> QED  BY <1>1, <2>1, <3>1, StillFound DEF Settled, Later
    <2>3. CASE q = o
      <3>1. CASE Version(o, clock') \in missed'
        BY <1>1, <2>3, <3>1 DEF Found, Settled
      <3>2. CASE ~ Behind(o)
        BY <1>1, <2>3, <3>2, Numbers DEF Behind, Found
      <3>3. CASE clock' = clock + 1 /\ ~ more
        <4>1. Later(o)'
          <5>1. \A y \in page : y.modified \in Nat /\ y.modified <= clock
            BY OnPage, Numbers DEF InTime
          <5> QED  BY <1>1, <3>3, <5>1, Numbers DEF Later, InTime
        <4> QED  BY <1>1, <2>3, <3>3, <4>1 DEF Found
      <3> QED  BY <1>2, <3>1, <3>2, <3>3
    <2> QED  BY <2>2, <2>3
  <1>6. RowFirst' /\ PublishedAnnounced'
    BY <1>1 DEF RowFirst, PublishedAnnounced, IsNext
  <1>7. EventsLimited'
    BY <1>1, <1>2, NoMoreEvents DEF LastEvent
  <1> QED  BY <1>3, <1>4, <1>5, <1>6, <1>7

LEMMA StartPollStep ==
  ASSUME TypeOK, ConnectorInv, StartPoll
  PROVE  ConnectorInv'
  <1> USE DEF ConnectorInv
  <1>1. /\ UNCHANGED <<bucket, clock, watermark, connection, status, published, missed, faults>>
        /\ ~ polling /\ polling' /\ seen' = watermark /\ newWatermark' = watermark
        /\ page' = {} /\ marker' = 0 /\ more' /\ ~ announced'
    BY DEF StartPoll
  <1>2. InTime'
    BY <1>1, Numbers DEF InTime
  <1>3. WatermarkCovers' /\ PublishedAnnounced' /\ RowFirst'
    BY <1>1 DEF WatermarkCovers, PublishedAnnounced, RowFirst
  <1>4. PollFinds'
    BY <1>1, Numbers DEF PollFinds, Found
  <1>5. EventsLimited'
    BY <1>1, NoMoreEvents DEF LastEvent
  <1> QED  BY <1>2, <1>3, <1>4, <1>5

LEMMA NextPageStep ==
  ASSUME TypeOK, ConnectorInv, NextPage
  PROVE  ConnectorInv'
  <1> USE DEF ConnectorInv
  <1>1. /\ UNCHANGED <<bucket, clock, watermark, polling, seen, newWatermark, announced,
                       connection, status, published, missed, faults>>
        /\ polling /\ more /\ page = {}
    BY DEF NextPage
  <1>2. /\ marker <= marker' /\ marker' \in Nat
        /\ \A x \in page' : /\ x \in Listed /\ x.modified = bucket[x.name]
                            /\ marker < x.name /\ x.name <= marker'
        /\ \A o \in Objects : bucket[o] # 0 /\ o > marker =>
             \/ Version(o, bucket[o]) \in page'
             \/ more' /\ o > marker'
    BY NextPageForm, Numbers DEF Version
  <1>3. InTime'
    <2>1. \A x \in page' : x.name \in Objects
      BY <1>2 DEF Listed
    <2>2. \A x, y \in page' : x.name = y.name => x = y
      BY <1>2 DEF Listed
    <2> QED  BY <1>1, <1>2, <2>1, <2>2 DEF InTime
  <1>4. WatermarkCovers' /\ PublishedAnnounced' /\ RowFirst'
    BY <1>1 DEF WatermarkCovers, PublishedAnnounced, RowFirst
  <1>5. PollFinds'
    <2> SUFFICES ASSUME NEW o \in Allowed  PROVE Found(o)'
      BY DEF PollFinds
    <2>1. o \in Objects /\ Found(o)
      BY <1>1, Numbers DEF PollFinds
    <2>2. CASE bucket[o] = 0 \/ Settled(o)
      BY <1>1, <2>2 DEF Found, Settled
    <2>3. CASE bucket[o] # 0 /\ o > marker
      BY <1>1, <1>2, <2>1, <2>3 DEF Found
    <2> QED  BY <1>1, <2>1, <2>2, <2>3 DEF Found
  <1>6. EventsLimited'
    <2>1. ASSUME NEW o \in Objects, NEW t \in Times, LastEvent(o, t)  PROVE LastEvent(o, t)'
      <3>1. CASE t <= watermark
        BY <1>1, <3>1 DEF LastEvent
      <3>2. CASE ~ (t <= watermark)
        <4>1. o <= marker /\ connection = "ok" /\ t <= newWatermark
          BY <2>1, <3>2 DEF LastEvent
        <4>2. o <= marker' /\ Version(o, t) \notin page'
          BY <1>2, <4>1, Numbers DEF Version
        <4> QED  BY <1>1, <4>1, <4>2 DEF LastEvent
      <3> QED  BY <3>1, <3>2
    <2> QED  BY <1>1, <2>1, NoMoreEvents
  <1> QED  BY <1>3, <1>4, <1>5, <1>6

LEMMA EndPollStep ==
  ASSUME TypeOK, ConnectorInv, EndPoll
  PROVE  ConnectorInv'
  <1> USE DEF ConnectorInv
  <1>1. /\ UNCHANGED <<bucket, clock, page, announced, connection, status, published, missed,
                       faults>>
        /\ polling /\ ~ polling' /\ ~ more /\ page = {} /\ watermark' = newWatermark
    BY DEF EndPoll
  <1>2. InTime' /\ RowFirst' /\ PublishedAnnounced' /\ PollFinds'
    BY <1>1 DEF InTime, RowFirst, PublishedAnnounced, PollFinds
  <1>3. WatermarkCovers'
    <2> SUFFICES ASSUME NEW o \in Allowed, bucket[o] # 0, bucket[o] <= newWatermark
                 PROVE  Settled(o)
      BY <1>1 DEF WatermarkCovers, Settled, Version
    <2>1. o \in Objects /\ Found(o)
      BY <1>1, Numbers DEF PollFinds
    <2>2. ~ (bucket[o] > newWatermark)
      BY <2>1, Numbers
    <2> QED  BY <1>1, <2>1, <2>2 DEF Found, Later
  <1>4. EventsLimited'
    <2>1. \A o \in Objects : \A t \in Times : LastEvent(o, t) => LastEvent(o, t)'
      BY <1>1, Numbers DEF LastEvent, InTime
    <2> QED  BY <1>1, <2>1, NoMoreEvents
  <1> QED  BY <1>2, <1>3, <1>4

LEMMA AbortStep ==
  ASSUME TypeOK, ConnectorInv, Aborted
  PROVE  ConnectorInv'
  <1> USE DEF ConnectorInv
  <1>1. /\ UNCHANGED <<bucket, clock, watermark, status, published, missed>>
        /\ ~ polling' /\ page' = {} /\ ~ announced'
        /\ \/ faults' = faults + 1
           \/ connection # "ok" /\ UNCHANGED faults
    BY DEF Aborted, Abort
  <1>2. InTime' /\ WatermarkCovers' /\ RowFirst' /\ PublishedAnnounced' /\ PollFinds'
    BY <1>1 DEF InTime, WatermarkCovers, RowFirst, PublishedAnnounced, PollFinds
  <1>3. EventsLimited'
    BY <1>1, NoMoreEvents, Numbers DEF LastEvent
  <1> QED  BY <1>2, <1>3

(* The object at hand leaves the page, settled if it has to be.            *)
LEMMA PageShrinks ==
  ASSUME TypeOK, InTime, PollFinds, NEW x \in page, polling,
         page' = page \ {x}, UNCHANGED <<bucket, marker, more>>,
         newWatermark' \in {newWatermark, x.modified},
         \A o \in Objects : Settled(o) => Settled(o)',
         x.name \in Allowed /\ bucket[x.name] = x.modified => Settled(x.name)'
  PROVE  PollFinds'
  <1> SUFFICES ASSUME NEW o \in Allowed  PROVE Found(o)'
    BY DEF PollFinds
  <1>1. o \in Objects /\ Found(o)
    BY Numbers DEF PollFinds
  <1>2. Version(o, bucket[o]) = x => o = x.name /\ bucket[o] = x.modified
    BY DEF Version
  <1>3. Version(o, bucket[o]) \in page => Version(o, bucket[o]) \in page' \/ Settled(o)'
    BY <1>2
  <1>4. Later(o) => Later(o)'
    BY DEF Later
  <1> QED  BY <1>1, <1>3, <1>4, StillFound

(* So do the other parts, as far as they have to do with the page only.    *)
LEMMA PageShrinksInTime ==
  ASSUME TypeOK, InTime, NEW x \in page,
         page' = page \ {x}, UNCHANGED <<bucket, clock, watermark, polling, seen, marker>>,
         newWatermark' = newWatermark
           \/ (newWatermark' = x.modified /\ x.modified >= newWatermark)
  PROVE  InTime'
  <1>1. x.modified \in Nat /\ x.modified <= clock /\ polling
    BY OnPage, Numbers DEF InTime
  <1>2. watermark <= newWatermark' /\ newWatermark' <= clock
    BY <1>1, Numbers DEF InTime
  <1> QED  BY <1>1, <1>2 DEF InTime

LEMMA DropStep ==
  ASSUME TypeOK, ConnectorInv, NEW x \in page, Skip(x) \/ Reject(x)
  PROVE  ConnectorInv'
  <1> USE DEF ConnectorInv
  <1>1. /\ UNCHANGED <<bucket, clock, watermark, polling, seen, newWatermark, marker, more,
                       connection, published, missed, faults>>
        /\ polling /\ page' = page \ {x} /\ ~ announced'
        /\ x.name \notin Allowed \/ x.modified <= seen
        /\ UNCHANGED status
             \/ (x.name \notin Allowed /\ status' = [status EXCEPT ![x.name] = "error"])
    BY DEF Skip, Reject, Done, IsNext
  <1>2. InTime'
    BY <1>1, PageShrinksInTime
  <1>3. WatermarkCovers' /\ RowFirst'
    BY <1>1 DEF WatermarkCovers, RowFirst
  <1>4. PollFinds'
    <2>1. x.name \in Allowed /\ bucket[x.name] = x.modified => Settled(x.name)
      BY <1>1, OnPage, Numbers DEF InTime, WatermarkCovers, Settled, Version
    <2>2. \A o \in Objects : Settled(o)' = Settled(o)
      BY <1>1 DEF Settled
    <2>3. Settled(x.name)' = Settled(x.name)
      BY <2>2, OnPage
    <2> QED  BY <1>1, <2>1, <2>2, <2>3, PageShrinks
  <1>5. PublishedAnnounced'
    <2>1. \A o \in Allowed : status'[o] = status[o]
      BY <1>1, Numbers DEF TypeOK
    <2> QED  BY <1>1, <2>1 DEF PublishedAnnounced
  <1>6. EventsLimited'
    BY <1>1, NoMoreEvents DEF LastEvent
  <1> QED  BY <1>2, <1>3, <1>4, <1>5, <1>6

(* Only one object is at hand.                                             *)
LEMMA OneAtHand ==
  ASSUME TypeOK, InTime, NEW x \in page, NEW y \in page, IsNext(x), IsNext(y)
  PROVE  x = y
  <1>1. x.name <= y.name /\ y.name <= x.name /\ x.name \in Nat /\ y.name \in Nat
    BY OnPage DEF IsNext
  <1> QED  BY <1>1 DEF InTime

LEMMA AnnounceStep ==
  ASSUME TypeOK, ConnectorInv, NEW x \in page, Announce(x)
  PROVE  ConnectorInv'
  <1> USE DEF ConnectorInv
  <1>1. /\ UNCHANGED <<bucket, clock, watermark, polling, seen, newWatermark, page, marker, more,
                       connection, published, missed, faults>>
        /\ status' = [status EXCEPT ![x.name] = "pending"]
        /\ IsNext(x) /\ x.name \in Allowed /\ x.modified > seen /\ connection = "ok"
    BY DEF Announce
  <1>2. InTime' /\ WatermarkCovers'
    BY <1>1 DEF InTime, WatermarkCovers
  <1>3. PollFinds'
    BY <1>1 DEF PollFinds, Found, Settled, Later
  <1>4. status'[x.name] = "pending"
        /\ \A o \in Objects : status'[o] = status[o] \/ status'[o] = "pending"
    BY <1>1, OnPage DEF TypeOK
  <1>5. RowFirst'
    <2>1. \A y \in page' : IsNext(y)' => y = x
      BY <1>1, OneAtHand DEF IsNext
    <2> QED  BY <1>1, <1>4, <2>1 DEF RowFirst
  <1>6. PublishedAnnounced'
    BY <1>1, <1>4 DEF PublishedAnnounced
  <1>7. EventsLimited'
    BY <1>1, NoMoreEvents DEF LastEvent
  <1> QED  BY <1>2, <1>3, <1>5, <1>6, <1>7

(* An attempt that is not the last raises.                                 *)
LEMMA RetryStep ==
  ASSUME TypeOK, ConnectorInv, NEW x \in page, PublishFails(x), UNCHANGED page
  PROVE  ConnectorInv'
  <1> USE DEF ConnectorInv
  <1>1. /\ UNCHANGED <<bucket, clock, watermark, polling, seen, newWatermark, page, marker, more,
                       announced, connection, status, missed>>
        /\ IsNext(x) /\ announced /\ faults' = faults + 1
        /\ Copy(x) \/ UNCHANGED published
    BY DEF PublishFails, AtPublish, Done, Fault
  <1>2. x.name \in Objects /\ x.modified \in Times /\ x = Version(x.name, x.modified)
        /\ status[x.name] = "pending" /\ x.name \in Allowed /\ x.modified > watermark
    BY <1>1, OnPage DEF RowFirst, InTime, IsNext
  <1>3. \A o \in Objects : \A t \in Times :
          \/ published'[o][t] = published[o][t]
          \/ o = x.name /\ t = x.modified /\ published'[o][t] = published[o][t] + 1
    BY <1>1, Counted DEF Copy
  <1>4. \A o \in Objects : \A t \in Times : published[o][t] > 0 => published'[o][t] > 0
    BY <1>3, Numbers
  <1>5. InTime' /\ RowFirst'
    BY <1>1 DEF InTime, RowFirst, IsNext
  <1>6. WatermarkCovers'
    BY <1>1, <1>4, Numbers DEF WatermarkCovers
  <1>7. PollFinds'
    <2>1. \A o \in Objects : Settled(o) => Settled(o)'
      BY <1>1, <1>4, Numbers DEF Settled
    <2>2. \A o \in Allowed : Found(o) => Found(o)'
      BY <1>1, <2>1, Numbers DEF Found, Later
    <2> QED  BY <1>1, <2>2 DEF PollFinds
  <1>8. PublishedAnnounced'
    BY <1>1, <1>2, <1>3 DEF PublishedAnnounced
  <1>9. EventsLimited'
    <2> SUFFICES ASSUME NEW o \in Objects, NEW t \in Times
                 PROVE  published'[o][t] < faults' + 1
      <3>1. \A o \in Objects : \A t \in Times : published'[o][t] \in Nat /\ faults' \in Nat
        BY <1>1, <1>3, Numbers
      <3> QED  BY <3>1 DEF EventsLimited
    <2>1. /\ published[o][t] \in Nat /\ faults \in Nat /\ t \in Nat /\ watermark \in Nat
          /\ published[o][t] <= faults + 1
          /\ published[o][t] = faults + 1 => LastEvent(o, t)
      BY Numbers DEF EventsLimited
    <2>2. CASE published'[o][t] = published[o][t]
      BY <1>1, <2>1, <2>2
    <2>3. CASE o = x.name /\ t = x.modified /\ published'[o][t] = published[o][t] + 1
      <3>1. ~ LastEvent(o, t)
        BY <1>2, <2>1, <2>3 DEF LastEvent
      <3> QED  BY <1>1, <2>1, <2>3, <3>1
    <2> QED  BY <1>3, <2>2, <2>3
  <1> QED  BY <1>5, <1>6, <1>7, <1>8, <1>9

(* Publication comes to its end, by success or by the last attempt.        *)
LEMMA PublishStep ==
  ASSUME TypeOK, ConnectorInv, NEW x \in page, Publish(x) \/ PublishFails(x)
  PROVE  ConnectorInv'
  <1> USE DEF ConnectorInv
  <1>r. CASE PublishFails(x) /\ UNCHANGED page
    BY <1>r, RetryStep
  <1>d. SUFFICES ASSUME ~ (PublishFails(x) /\ UNCHANGED page)  PROVE ConnectorInv'
    BY <1>r
  <1> DEFINE sent == published' = [published EXCEPT ![x.name][x.modified] = @ + 1]
  <1>1. /\ UNCHANGED <<bucket, clock, watermark, polling, seen, marker, more, connection, status>>
        /\ page' = page \ {x} /\ ~ announced'
        /\ IsNext(x) /\ polling /\ announced
        /\ missed \subseteq missed'
    BY <1>d DEF Publish, PublishFails, AtPublish, IsNext, Done
  <1>2. /\ newWatermark' = newWatermark
             \/ (newWatermark' = x.modified /\ x.modified >= newWatermark)
        /\ sent \/ UNCHANGED published
        /\ published'[x.name][x.modified] > 0 \/ x \in missed'
        /\ \/ faults' = faults + 1
           \/ faults' = faults /\ newWatermark' >= x.modified
    <2>1. newWatermark \in Nat /\ x.modified \in Nat
      BY OnPage, Numbers
    <2>2. CASE Publish(x)
      <3>1. published[x.name][x.modified] \in Nat
        BY OnPage, Numbers
      <3>2. sent => published'[x.name][x.modified] = published[x.name][x.modified] + 1
        BY Counted
      <3> QED  BY <2>1, <2>2, <3>1, <3>2 DEF Publish, Copy, Fault
    <2>3. CASE PublishFails(x)
      BY <1>d, <2>3 DEF PublishFails, Copy, Fault
    <2> QED  BY <2>2, <2>3
  <1>3. /\ x.name \in Objects /\ x.modified \in Times /\ x.modified \in Nat
        /\ x = Version(x.name, x.modified)
    BY OnPage, Numbers
  <1>4. /\ connection = "ok" /\ status[x.name] = "pending" /\ x.name \in Allowed
        /\ x.modified > watermark /\ x.name <= marker
    BY <1>1 DEF RowFirst, InTime
  <1>5. /\ \A o \in Objects : \A t \in Times :
             \/ published'[o][t] = published[o][t]
             \/ sent /\ o = x.name /\ t = x.modified /\ published'[o][t] = published[o][t] + 1
        /\ sent => published'[x.name][x.modified] = published[x.name][x.modified] + 1
    <2>1. CASE sent
      BY <2>1, Counted
    <2>2. CASE UNCHANGED published /\ ~ sent
      BY <2>2
    <2> QED  BY <1>2, <2>1, <2>2
  <1> HIDE DEF sent
  <1>6. InTime'
    BY <1>1, <1>2, PageShrinksInTime
  <1>7. \A o \in Objects : \A t \in Times : published[o][t] > 0 => published'[o][t] > 0
    BY <1>5, Numbers
  <1>8. WatermarkCovers'
    BY <1>1, <1>7, Numbers DEF WatermarkCovers
  <1>9. PollFinds'
    <2>1. \A o \in Objects : Settled(o) => Settled(o)'
      BY <1>1, <1>7, Numbers DEF Settled
    <2>2. published'[x.name][x.modified] > 0 \/ x \in missed'
      BY <1>2
    <2>3. bucket[x.name] = x.modified => Settled(x.name)'
      BY <1>1, <1>3, <2>2 DEF Settled
    <2> QED  BY <1>1, <1>2, <2>1, <2>3, PageShrinks
  <1>10. RowFirst'
    BY <1>1 DEF RowFirst
  <1>11. PublishedAnnounced'
    BY <1>1, <1>4, <1>5 DEF PublishedAnnounced
  <1>12. EventsLimited'
    <2> SUFFICES ASSUME NEW o \in Objects, NEW t \in Times
                 PROVE  /\ published'[o][t] <= faults' + 1
                        /\ published'[o][t] = faults' + 1 => LastEvent(o, t)'
      BY DEF EventsLimited
    <2>1. /\ published[o][t] \in Nat /\ faults \in Nat /\ t \in Nat
          /\ published[o][t] <= faults + 1
          /\ published[o][t] = faults + 1 => LastEvent(o, t)
      BY Numbers DEF EventsLimited
    <2>2. CASE o = x.name /\ t = x.modified
      <3>1. ~ LastEvent(o, t)
        <4>1. ~ (t <= watermark)
          BY <1>4, <2>1, <2>2, Numbers
        <4>2. Version(o, t) \in page
          BY <1>3, <2>2
        <4> QED  BY <4>1, <4>2 DEF LastEvent
      <3>2. published[o][t] <= faults
        BY <2>1, <3>1
      <3>3. faults' = faults => LastEvent(o, t)'
        <4>1. Version(o, t) = x /\ x \notin page'
          BY <1>1, <1>3, <2>2
        <4>2. polling' /\ connection' = "ok" /\ o <= marker'
          BY <1>1, <1>4, <2>2
        <4>3. faults' = faults => t <= newWatermark'
          <5>1. faults' = faults => newWatermark' >= x.modified
            BY <1>2, <2>1
          <5>2. newWatermark' \in Nat
            BY <1>2, <1>3, Numbers
          <5> QED  BY <2>1, <2>2, <5>1, <5>2
        <4> QED  BY <4>1, <4>2, <4>3 DEF LastEvent, Version
      <3>4. published'[o][t] <= published[o][t] + 1
        BY <1>5, <2>1
      <3>5. published'[o][t] \in Nat
        BY <1>5, <2>1
      <3> QED  BY <1>2, <2>1, <3>2, <3>3, <3>4, <3>5
    <2>3. CASE ~ (o = x.name /\ t = x.modified)
      <3>1. published'[o][t] = published[o][t]
        BY <1>5, <2>3
      <3>2. LastEvent(o, t) => LastEvent(o, t)'
        BY <1>1, <1>2, <1>3, <2>1, Numbers DEF LastEvent
      <3> QED  BY <1>2, <2>1, <3>1, <3>2
    <2> QED  BY <2>2, <2>3
  <1> QED  BY <1>6, <1>8, <1>9, <1>10, <1>11, <1>12

LEMMA ConnectorStep ==
  ASSUME TypeOK, ConnectorInv, [Next]_vars
  PROVE  ConnectorInv'
  <1>1. CASE UNCHANGED vars
    BY <1>1 DEF vars, pollVars, ConnectorInv, InTime, WatermarkCovers, PollFinds, Found, Settled,
       Later, RowFirst, IsNext, PublishedAnnounced, EventsLimited, LastEvent
  <1> QED
    BY <1>1, UploadStep, StartPollStep, NextPageStep, EndPollStep, AbortForm, AbortStep, DropStep,
       AnnounceStep, PublishStep DEF Next, Poll

(* The inductive invariant behind EventsFollowVersions: a poll settles all *)
(* that it is past, announces before it publishes, and publishes once.     *)
THEOREM ConnectorCorrect == Spec => []ConnectorInv
  <1>1. Init => ConnectorInv
    BY ConnectorAssumption, FaultAssumption DEF Init, ConnectorInv, InTime, WatermarkCovers, PollFinds, RowFirst,
       PublishedAnnounced, EventsLimited, LastEvent, Times
  <1>2. TypeOK /\ ConnectorInv /\ [Next]_vars => ConnectorInv'
    BY ConnectorStep
  <1> QED  BY <1>1, <1>2, ConnectorTypeCorrect, PTL DEF Spec

(* Every version that the watermark covers has its event or was missed,    *)
(* none has more events than one and the faults, and a row is there before *)
(* an event (connector.py:88, 115, 127).                                   *)
THEOREM EventsCorrect == Spec => []EventsFollowVersions
  <1>1. ConnectorInv /\ TypeOK => EventsFollowVersions
    <2> SUFFICES ASSUME ConnectorInv, TypeOK  PROVE DuplicatesNeedFaults
      BY DEF ConnectorInv, EventsFollowVersions
    <2>1. \A o \in Objects : \A t \in Times : published[o][t] <= faults + 1
      BY DEF ConnectorInv, EventsLimited
    <2> QED  BY <2>1, Numbers DEF DuplicatesNeedFaults
  <1> QED  BY <1>1, ConnectorCorrect, ConnectorTypeCorrect, PTL

=============================================================================
