--------------------------- MODULE EmbeddingConfigProofs --------------------------
(* Proofs about EmbeddingConfig.  The table of versions first, for any     *)
(* calls as SchemaVersions specifies them; then that the operator makes    *)
(* such calls, so that what holds of the table holds for it; then what it  *)
(* is the operator itself that ensures.                                    *)
EXTENDS EmbeddingConfig, TLAPS

----------------------------------------------------------------------------
(* The table of versions.                                                  *)

(* The numbers in use have no gap, and a call that has chosen its number   *)
(* finds all smaller ones in use.  So a number that is still free when it  *)
(* is committed is greater than all others.                                *)
NoGap ==
  \A n \in Numbers : \A k \in Nat \ {0} : k < n => k \in Numbers

ChosenIsNext ==
  \A r \in Requests : call[r].at = "commit" =>
    \A k \in Nat \ {0} : k < call[r].number => k \in Numbers

(* Calls that never overlapped: one at a time, and it sees all rows.       *)
Serial ==
  ~ overlap =>
    /\ \A q, r \in Open : q = r
    /\ \A r \in Open : call[r].seen = Numbers

VersionsInv ==
  /\ VersionsTypeOK
  /\ VersionsSound
  /\ NoGap
  /\ ChosenIsNext
  /\ Serial
  /\ OneCurrentIfSerial

(* Numbers are natural numbers.                                            *)
LEMMA NumbersType ==
  ASSUME VersionsTypeOK
  PROVE  Numbers \subseteq Nat \ {0}
  BY DEF VersionsTypeOK, Rows, Numbers

(* After a commit the new number is in use besides the former ones.        *)
LEMMA CommittedNumbers ==
  ASSUME VersionsTypeOK, NEW r \in Requests, Commit(r)
  PROVE  Numbers' = Numbers \cup {call[r].number}
  <1> DEFINE new == [number |-> call[r].number, model |-> call[r].model, current |-> TRUE]
             old(row) == [row EXCEPT !.current = @ /\ row.number \notin call[r].seen]
  <1>1. rows' = {old(row) : row \in rows} \cup {new}
    BY DEF Commit, Committed
  <1>2. \A row \in rows : old(row).number = row.number
    BY DEF VersionsTypeOK, Rows
  <1>3. new.number = call[r].number
    OBVIOUS
  <1> HIDE DEF new, old
  <1> QED  BY <1>1, <1>2, <1>3 DEF Numbers

(* The type of the tables is kept.                                         *)
LEMMA VersionsTyping ==
  ASSUME VersionsTypeOK, [VersionsNext]_versionVars
  PROVE  VersionsTypeOK'
  <1>1. CASE UNCHANGED versionVars
    BY <1>1 DEF versionVars, VersionsTypeOK
  <1>2. ASSUME NEW r \in Requests, NEW m \in Models, Send(r, m)  PROVE VersionsTypeOK'
    BY <1>2 DEF Send, VersionsTypeOK, Calls
  <1>3. ASSUME NEW r \in Requests, StartUpdate(r)  PROVE VersionsTypeOK'
    <2>1. call[r].model \in Models
      BY <1>3 DEF StartUpdate, VersionsTypeOK, Calls
    <2>2. Numbers \in SUBSET Nat
      BY NumbersType
    <2> QED  BY <1>3, <2>1, <2>2 DEF StartUpdate, VersionsTypeOK, Calls
  <1>4. ASSUME NEW r \in Requests, FinishUpdate(r)  PROVE VersionsTypeOK'
    <2>1. [call[r] EXCEPT !.at = "insert"] \in Calls
      BY <1>4 DEF FinishUpdate, VersionsTypeOK, Calls
    <2> QED  BY <1>4, <2>1 DEF FinishUpdate, VersionsTypeOK
  <1>5. ASSUME NEW r \in Requests, Insert(r)  PROVE VersionsTypeOK'
    <2>1. call[r].model \in Models /\ call[r].seen \in SUBSET Nat
      BY <1>5 DEF Insert, VersionsTypeOK, Calls
    <2>2. \A n \in {1} \cup {k + 1 : k \in Numbers} : n \in Nat \ {0}
      BY NumbersType
    <2>3. PICK n \in {1} \cup {k + 1 : k \in Numbers} :
            call' = [call EXCEPT ![r] =
              [at |-> "commit", model |-> @.model, seen |-> @.seen, number |-> n]]
      BY <1>5 DEF Insert
    <2>4. [at |-> "commit", model |-> call[r].model, seen |-> call[r].seen, number |-> n]
            \in Calls
      BY <2>1, <2>2 DEF Calls
    <2> QED  BY <1>5, <2>3, <2>4 DEF Insert, VersionsTypeOK
  <1>6. ASSUME NEW r \in Requests, Commit(r)  PROVE VersionsTypeOK'
    <2>1. call[r].model \in Models /\ call[r].number \in Nat \ {0}
      BY <1>6 DEF Commit, VersionsTypeOK, Calls
    <2>2. ASSUME NEW row \in rows
          PROVE  [row EXCEPT !.current = @ /\ row.number \notin call[r].seen] \in Rows
      BY DEF VersionsTypeOK, Rows
    <2>3. [number |-> call[r].number, model |-> call[r].model, current |-> TRUE] \in Rows
      BY <2>1 DEF Rows
    <2>4. Committed(r) \subseteq Rows
      BY <2>2, <2>3, Zenon DEF Committed
    <2> QED  BY <1>6, <2>4 DEF Commit, VersionsTypeOK, Calls
  <1>7. ASSUME NEW r \in Requests, UniqueViolation(r) \/ Lose(r)  PROVE VersionsTypeOK'
    BY <1>7 DEF UniqueViolation, Lose, VersionsTypeOK, Calls
  <1> QED
    BY <1>1, <1>2, <1>3, <1>4, <1>5, <1>6, <1>7 DEF VersionsNext, Answer

(* Every other step leaves the rows alone, and of the calls it changes     *)
(* only those the named parts speak of.                                    *)
LEMMA SoundKept ==
  ASSUME VersionsInv, [VersionsNext]_versionVars
  PROVE  VersionsSound' /\ NoGap' /\ ChosenIsNext'
  <1> USE DEF VersionsInv
  <1>1. Numbers \subseteq Nat \ {0}
    BY NumbersType
  <1>2. ASSUME NEW r \in Requests, NEW m \in Models, Send(r, m)
        PROVE  VersionsSound' /\ NoGap' /\ ChosenIsNext'
    BY <1>2 DEF Send, VersionsTypeOK, VersionsSound, NumbersUnique, NewestIsCurrent, NoGap,
       ChosenIsNext, Numbers
  <1>3. ASSUME NEW r \in Requests,
               StartUpdate(r) \/ FinishUpdate(r) \/ UniqueViolation(r) \/ Lose(r)
        PROVE  VersionsSound' /\ NoGap' /\ ChosenIsNext'
    <2>1. rows' = rows
      BY <1>3 DEF StartUpdate, FinishUpdate, UniqueViolation, Lose
    <2>2. \A q \in Requests \ {r} : call'[q] = call[q]
      BY <1>3 DEF StartUpdate, FinishUpdate, UniqueViolation, Lose, VersionsTypeOK
    <2>3. call'[r].at # "commit"
      BY <1>3 DEF StartUpdate, FinishUpdate, UniqueViolation, Lose, VersionsTypeOK, Calls
    <2> QED
      BY <2>1, <2>2, <2>3
      DEF VersionsSound, NumbersUnique, NewestIsCurrent, NoGap, ChosenIsNext, Numbers
  <1>4. ASSUME NEW r \in Requests, Insert(r)
        PROVE  VersionsSound' /\ NoGap' /\ ChosenIsNext'
    <2>1. rows' = rows /\ Numbers' = Numbers
      BY <1>4 DEF Insert, Numbers
    <2>2. PICK n \in {1} \cup {k + 1 : k \in Numbers} :
            call' = [call EXCEPT ![r] =
              [at |-> "commit", model |-> @.model, seen |-> @.seen, number |-> n]]
      BY <1>4 DEF Insert
    <2>3. \A k \in Nat \ {0} : k < n => k \in Numbers
      BY <1>1 DEF NoGap
    <2>4. call'[r].number = n
      BY <2>2 DEF VersionsTypeOK
    <2>5. \A q \in Requests \ {r} : call'[q] = call[q]
      BY <2>2 DEF VersionsTypeOK
    <2>6. ChosenIsNext'
      BY <2>1, <2>3, <2>4, <2>5 DEF ChosenIsNext
    <2> QED  BY <2>1, <2>6 DEF VersionsSound, NumbersUnique, NewestIsCurrent, NoGap
  <1>5. ASSUME NEW r \in Requests, Commit(r)
        PROVE  VersionsSound' /\ NoGap' /\ ChosenIsNext'
    <2> DEFINE n == call[r].number
               new == [number |-> n, model |-> call[r].model, current |-> TRUE]
               old(row) == [row EXCEPT !.current = @ /\ row.number \notin call[r].seen]
    <2>1. n \in Nat \ {0} /\ n \notin Numbers
      BY <1>5 DEF Commit, VersionsTypeOK, Calls
    <2>2. \A k \in Nat \ {0} : k < n => k \in Numbers
      BY <1>5 DEF Commit, ChosenIsNext
    <2>3. \A m \in Numbers : m < n
      BY <1>1, <2>1 DEF NoGap
    <2>4. Numbers' = Numbers \cup {n}
      BY <1>5, CommittedNumbers
    <2>5. rows' = {old(row) : row \in rows} \cup {new}
      BY <1>5 DEF Commit, Committed
    <2>6. /\ new.number = n /\ new.current
          /\ \A row \in rows : old(row).number = row.number /\ row.number \in Numbers
      BY DEF VersionsTypeOK, Rows, Numbers
    <2>7. \A q \in Requests : call'[q].at = "commit" => call'[q] = call[q]
      BY <1>5 DEF Commit, VersionsTypeOK
    <2>8. NoGap' /\ ChosenIsNext'
      BY <1>1, <2>1, <2>2, <2>4, <2>7 DEF NoGap, ChosenIsNext
    <2> HIDE DEF n, new, old
    <2>9. NumbersUnique'
      <3> SUFFICES ASSUME NEW x \in rows', NEW y \in rows', x.number = y.number  PROVE x = y
        BY DEF NumbersUnique
      <3>1. CASE x = new \/ y = new
        BY <3>1, <2>1, <2>5, <2>6
      <3>2. CASE x # new /\ y # new
        BY <3>2, <2>5, <2>6 DEF VersionsSound, NumbersUnique
      <3> QED  BY <3>1, <3>2
    <2>10. NewestIsCurrent'
      <3> SUFFICES ASSUME NEW x \in rows', \A k \in Numbers' : k <= x.number  PROVE x.current
        BY DEF NewestIsCurrent
      <3>1. CASE x = new
        BY <3>1, <2>6
      <3>2. CASE x # new
        <4>1. x.number \in Numbers /\ n <= x.number
          BY <3>2, <2>4, <2>5, <2>6
        <4>2. n \in Nat /\ x.number \in Nat /\ x.number < n
          BY <4>1, <2>1, <2>3, <1>1
        <4> QED  BY <4>1, <4>2
      <3> QED  BY <3>1, <3>2
    <2> QED  BY <2>8, <2>9, <2>10 DEF VersionsSound
  <1>6. CASE UNCHANGED versionVars
    BY <1>6 DEF versionVars, VersionsSound, NumbersUnique, NewestIsCurrent, NoGap, ChosenIsNext,
       Numbers
  <1> QED
    BY <1>2, <1>3, <1>4, <1>5, <1>6 DEF VersionsNext, Answer

(* Without overlap, the call under way deactivates all there is.           *)
LEMMA SerialKept ==
  ASSUME VersionsInv, [VersionsNext]_versionVars
  PROVE  Serial' /\ OneCurrentIfSerial'
  <1> USE DEF VersionsInv
  <1>1. ASSUME NEW r \in Requests, NEW m \in Models, Send(r, m)
        PROVE  Serial' /\ OneCurrentIfSerial'
    <2>1. Open' = Open /\ rows' = rows /\ overlap' = overlap
      BY <1>1 DEF Send, Open, VersionsTypeOK
    <2>2. \A q \in Open : call'[q] = call[q]
      BY <1>1 DEF Send, Open, VersionsTypeOK
    <2> QED  BY <2>1, <2>2 DEF Serial, OneCurrentIfSerial, Numbers
  <1>2. ASSUME NEW r \in Requests, StartUpdate(r)
        PROVE  Serial' /\ OneCurrentIfSerial'
    <2>1. Open' = Open \cup {r} /\ rows' = rows /\ call'[r].seen = Numbers
      BY <1>2 DEF StartUpdate, Open, VersionsTypeOK
    <2>2. ~ overlap' => Open = {} /\ ~ overlap
      BY <1>2 DEF StartUpdate
    <2> QED  BY <2>1, <2>2 DEF Serial, OneCurrentIfSerial, Numbers
  <1>3. ASSUME NEW r \in Requests, FinishUpdate(r) \/ Insert(r)
        PROVE  Serial' /\ OneCurrentIfSerial'
    <2>1. /\ rows' = rows /\ overlap' = overlap
          /\ \A q \in Requests \ {r} : call'[q] = call[q]
      BY <1>3 DEF FinishUpdate, Insert, VersionsTypeOK
    <2>2. /\ call[r].at \in {"update", "insert"}
          /\ call'[r].at \in {"insert", "commit"}
          /\ call'[r].seen = call[r].seen
      <3>1. CASE FinishUpdate(r)
        BY <3>1 DEF FinishUpdate, VersionsTypeOK, Calls
      <3>2. CASE Insert(r)
        BY <3>2 DEF Insert, VersionsTypeOK
      <3> QED  BY <1>3, <3>1, <3>2
    <2>3. Open' = Open /\ \A q \in Open : call'[q].seen = call[q].seen
      BY <2>1, <2>2 DEF Open
    <2> QED  BY <2>1, <2>3 DEF Serial, OneCurrentIfSerial, Numbers
  <1>4. ASSUME NEW r \in Requests, UniqueViolation(r) \/ Lose(r)
        PROVE  Serial' /\ OneCurrentIfSerial'
    <2>1. Open' \subseteq Open /\ rows' = rows /\ overlap' = overlap
      BY <1>4 DEF UniqueViolation, Lose, Open, VersionsTypeOK
    <2>2. \A q \in Open' : call'[q] = call[q]
      BY <1>4 DEF UniqueViolation, Lose, Open, VersionsTypeOK
    <2> QED  BY <2>1, <2>2 DEF Serial, OneCurrentIfSerial, Numbers
  <1>5. ASSUME NEW r \in Requests, Commit(r)
        PROVE  Serial' /\ OneCurrentIfSerial'
    <2> DEFINE new == [number |-> call[r].number, model |-> call[r].model, current |-> TRUE]
               old(row) == [row EXCEPT !.current = @ /\ row.number \notin call[r].seen]
    <2>1. r \in Open /\ Open' = Open \ {r} /\ overlap' = overlap
      BY <1>5 DEF Commit, Open, VersionsTypeOK
    <2>2. SUFFICES ASSUME ~ overlap  PROVE Serial' /\ OneCurrentIfSerial'
      BY <2>1 DEF Serial, OneCurrentIfSerial
    <2>3. Open' = {} /\ call[r].seen = Numbers
      BY <2>1, <2>2 DEF Serial
    <2>4. rows' = {old(row) : row \in rows} \cup {new}
      BY <1>5 DEF Commit, Committed
    <2>5. \A row \in rows : ~ old(row).current
      BY <2>3 DEF Numbers, VersionsTypeOK, Rows
    <2> HIDE DEF new, old
    <2>6. OneCurrentIfSerial'
      BY <2>4, <2>5 DEF OneCurrentIfSerial
    <2> QED  BY <2>3, <2>6 DEF Serial
  <1>6. CASE UNCHANGED versionVars
    BY <1>6 DEF versionVars, Serial, OneCurrentIfSerial, Open, Numbers
  <1> QED
    BY <1>1, <1>2, <1>3, <1>4, <1>5, <1>6 DEF VersionsNext, Answer

(* The invariant holds, whatever calls are made.                           *)
LEMMA VersionsInvariance == VersionsSpec => []VersionsInv
  <1>1. VersionsInit => VersionsInv
    <2> SUFFICES ASSUME VersionsInit  PROVE VersionsInv
      OBVIOUS
    <2>1. rows = {} /\ Numbers = {} /\ \A r \in Requests : call[r].at = "none"
      BY DEF VersionsInit, Numbers
    <2>2. Open = {}
      BY <2>1 DEF Open
    <2>3. VersionsTypeOK
      BY DEF VersionsInit, VersionsTypeOK, Calls, Rows
    <2>4. VersionsSound /\ NoGap /\ ChosenIsNext
      BY <2>1 DEF VersionsSound, NumbersUnique, NewestIsCurrent, NoGap, ChosenIsNext
    <2>5. Serial /\ OneCurrentIfSerial
      BY <2>1, <2>2 DEF Serial, OneCurrentIfSerial
    <2> QED  BY <2>3, <2>4, <2>5 DEF VersionsInv
  <1>2. VersionsInv /\ [VersionsNext]_versionVars => VersionsInv'
    BY VersionsTyping, SoundKept, SerialKept DEF VersionsInv
  <1> QED  BY <1>1, <1>2, PTL DEF VersionsSpec

(* Version numbers are unique and the newest version is always current,    *)
(* for any number of concurrent calls (db.py:292).                         *)
THEOREM VersionsCorrect == VersionsSpec => []VersionsSound
  BY VersionsInvariance, PTL DEF VersionsInv

(* Calls that do not overlap leave one current version (db.py:290).        *)
THEOREM OneCurrent == VersionsSpec => []OneCurrentIfSerial
  BY VersionsInvariance, PTL DEF VersionsInv

----------------------------------------------------------------------------
(* The operator.                                                           *)

(* Every step is a step of the table, or leaves it alone.                  *)
LEMMA StepRefines ==
  ASSUME [ConfigNext]_configVars
  PROVE  \/ UNCHANGED versionVars
         \/ \E r \in Requests : Answer(r) \/ Lose(r)
         \/ \E r \in Requests : Send(r, spec.model)
  <1>1. CASE Post
    BY <1>1 DEF Post
  <1>2. CASE \E r \in Requests : Service(r) \/ ServiceFails(r)
    BY <1>2 DEF Service, ServiceFails
  <1>3. CASE ~ Post /\ ~ \E r \in Requests : Service(r) \/ ServiceFails(r)
    BY <1>3 DEF ConfigNext, Edit, DeleteMap, CreateMap, Reconciles, Begin, SkipPost, Answered, Patch,
       Restart, TimesOut, ReconcileFails, configVars
  <1> QED  BY <1>1, <1>2, <1>3

LEMMA ModelOfSpec ==
  ASSUME ConfigTypeOK
  PROVE  spec.model \in Models
  BY ConfigAssumption DEF ConfigTypeOK

LEMMA StepIsVersionsStep ==
  ASSUME ConfigTypeOK, [ConfigNext]_configVars
  PROVE  [VersionsNext]_versionVars
  BY StepRefines, ModelOfSpec DEF VersionsNext

LEMMA Typing ==
  ASSUME ConfigTypeOK, [ConfigNext]_configVars
  PROVE  ConfigTypeOK'
  <1>1. VersionsTypeOK'
    BY StepIsVersionsStep, VersionsTyping DEF ConfigTypeOK
  <1> USE <1>1, ConfigAssumption, FaultAssumption DEF ConfigTypeOK, handlerVars, configMapVars
  <1>2. ASSUME NEW s \in Specs, Edit(s)  PROVE ConfigTypeOK'
    BY <1>2 DEF Edit
  <1>3. CASE Begin
    BY <1>3 DEF Begin
  <1>4. CASE Post
    BY <1>4 DEF Post
  <1>5. CASE SkipPost \/ Answered
    BY <1>5 DEF SkipPost, Answered
  <1>6. CASE Patch
    <2>1. settings' \in {{}} \cup {{s} : s \in Specs} /\ stale' \in BOOLEAN
      BY <1>6 DEF Patch
    <2> QED  BY <1>6, <2>1 DEF Patch
  <1>7. CASE Restart
    BY <1>7 DEF Restart
  <1>8. CASE DeleteMap \/ CreateMap
    <2>1. faults' \in 0 .. MaxFaults
      BY <1>8 DEF DeleteMap, CreateMap, Fault
    <2>2. settings' \in {{}} \cup {{s} : s \in Specs} /\ present' \in BOOLEAN
      BY <1>8 DEF DeleteMap, CreateMap
    <2> QED  BY <1>8, <2>1, <2>2 DEF DeleteMap, CreateMap
  <1>9. CASE TimesOut
    BY <1>9 DEF TimesOut, Fault
  <1>10. CASE ReconcileFails
    BY <1>10 DEF ReconcileFails, Fault
  <1>11. ASSUME NEW r \in Requests, Service(r) \/ ServiceFails(r)  PROVE ConfigTypeOK'
    BY <1>11 DEF Service, ServiceFails, Fault
  <1>12. CASE UNCHANGED configVars
    BY <1>12 DEF configVars
  <1> QED
    BY <1>2, <1>3, <1>4, <1>5, <1>6, <1>7, <1>8, <1>9, <1>10, <1>11, <1>12 DEF ConfigNext, Reconciles

(* The operator, the table of versions and the calls between them stay     *)
(* well typed.                                                             *)
THEOREM ConfigTypeCorrect == ConfigSpec => []ConfigTypeOK
  <1>1. ConfigInit => ConfigTypeOK
    <2> SUFFICES ASSUME ConfigInit  PROVE ConfigTypeOK
      OBVIOUS
    <2>1. VersionsTypeOK
      BY DEF ConfigInit, VersionsInit, VersionsTypeOK, Calls, Rows
    <2>2. /\ {embedding, applied, spec} \subseteq Specs
          /\ settings \in {{}} \cup {{s} : s \in Specs}
          /\ posted \subseteq Requests
      BY ConfigAssumption DEF ConfigInit
    <2>3. changes \in 0 .. MaxChanges /\ faults \in 0 .. MaxFaults
      BY ConfigAssumption, FaultAssumption DEF ConfigInit
    <2>4. step = "idle" /\ present = TRUE /\ stale = FALSE
      BY DEF ConfigInit
    <2> QED  BY <2>1, <2>2, <2>3, <2>4 DEF ConfigTypeOK
  <1>2. ConfigTypeOK /\ [ConfigNext]_configVars => ConfigTypeOK'
    BY Typing
  <1> QED  BY <1>1, <1>2, PTL DEF ConfigSpec

(* The operator implements the table of versions: whatever it and kopf do, *)
(* the service sees calls as SchemaVersions has them.                      *)
THEOREM ConfigRefinesVersions == ConfigSpec => VersionsSpec
  <1>1. ConfigInit => VersionsInit
    BY DEF ConfigInit
  <1>2. ConfigTypeOK /\ [ConfigNext]_configVars => [VersionsNext]_versionVars
    BY StepIsVersionsStep
  <1> QED  BY <1>1, <1>2, ConfigTypeCorrect, PTL DEF ConfigSpec, VersionsSpec

(* So version numbers are unique, the newest version is current, under any *)
(* timeouts and retries of the operator (db.py:292).                       *)
THEOREM ConfigVersionsSound == ConfigSpec => []VersionsSound
  BY ConfigRefinesVersions, VersionsCorrect, PTL

(* And one version is current as long as no two calls overlapped.          *)
THEOREM ConfigOneCurrent == ConfigSpec => []OneCurrentIfSerial
  BY ConfigRefinesVersions, OneCurrent, PTL

(* As long as nothing failed, a call that has not ended is the one that    *)
(* the handler waits for.                                                  *)
Busy == {r \in Requests : call[r].at \notin {"none", "ok", "failed"}}

OneBusy == faults = 0 => \A r \in Busy : step = "wait" /\ posted = {r}

(* So a call begins alone, and none overlaps another.                      *)
Alone == OneBusy /\ (overlap => faults > 0)

LEMMA AloneKept ==
  ASSUME ConfigTypeOK, Alone, [ConfigNext]_configVars
  PROVE  Alone'
  <1> USE DEF Alone, OneBusy, Busy
  <1>1. faults \in Nat /\ \A r \in Requests : call[r] \in Calls
    BY ConfigAssumption DEF ConfigTypeOK, VersionsTypeOK
  <1>2. CASE Post
    <2>1. UNCHANGED <<overlap, faults>> /\ step = "post"
      BY <1>2 DEF Post, Send
    <2>2. PICK r \in Requests : Send(r, spec.model) /\ posted' = {r} /\ step' = "wait"
      BY <1>2 DEF Post
    <2>3. \A q \in Requests \ {r} : call'[q] = call[q]
      BY <2>2 DEF Send, ConfigTypeOK, VersionsTypeOK
    <2> QED  BY <2>1, <2>2, <2>3
  <1>3. ASSUME NEW r \in Requests, Service(r)
        PROVE  Alone'
    <2>1. UNCHANGED <<step, posted, faults>>
      BY <1>3 DEF Service, handlerVars, configMapVars
    <2>2. r \in Busy /\ \A q \in Requests \ {r} : call'[q] = call[q]
      BY <1>3 DEF Service, Answer, StartUpdate, FinishUpdate, Insert, Commit, UniqueViolation,
         ConfigTypeOK, VersionsTypeOK
    <2>3. OneBusy'
      BY <2>1, <2>2
    <2>4. CASE StartUpdate(r)
      <3>1. overlap' = (overlap \/ Open # {}) /\ r \notin Open
        BY <2>4 DEF StartUpdate, Open
      <3>2. Open \subseteq Busy
        BY DEF Open
      <3>3. faults = 0 => Open = {}
        BY <2>2, <3>1, <3>2
      <3>4. overlap' => faults > 0
        <4> SUFFICES ASSUME overlap', faults = 0  PROVE FALSE
          BY <1>1
        <4>1. overlap
          BY <3>1, <3>3
        <4> QED  BY <4>1
      <3>5. faults' > 0 <=> faults > 0
        BY <2>1 DEF handlerVars, configMapVars
      <3> QED  BY <2>3, <3>4, <3>5
    <2>5. CASE ~ StartUpdate(r)
      <3>1. overlap' = overlap
        BY <1>3, <2>5 DEF Service, Answer, FinishUpdate, Insert, Commit, UniqueViolation
      <3> QED  BY <2>1, <2>3, <3>1
    <2> QED  BY <2>4, <2>5
  <1>4. CASE TimesOut \/ ReconcileFails \/ DeleteMap \/ \E r \in Requests : ServiceFails(r)
    <2>1. faults' > 0
      BY <1>1, <1>4 DEF TimesOut, ReconcileFails, DeleteMap, ServiceFails, Fault
    <2> QED  BY <2>1
  <1>5. CASE Answered
    <2>1. UNCHANGED <<versionVars, posted, faults>>
      BY <1>5 DEF Answered
    <2>2. faults = 0 => Busy = {}
      BY <1>5 DEF Answered
    <2> QED  BY <2>1, <2>2 DEF versionVars
  <1>6. CASE Begin \/ SkipPost \/ Patch \/ Restart
    <2>1. UNCHANGED <<versionVars, posted, faults>> /\ step # "wait"
      BY <1>6 DEF Begin, SkipPost, Patch, Restart
    <2> QED  BY <2>1 DEF versionVars
  <1>7. CASE CreateMap \/ (\E s \in Specs : Edit(s)) \/ UNCHANGED configVars
    <2>1. UNCHANGED <<versionVars, step, posted, faults>>
      BY <1>7 DEF CreateMap, Edit, configVars, handlerVars, configMapVars
    <2> QED  BY <2>1 DEF versionVars
  <1> QED
    BY <1>2, <1>3, <1>4, <1>5, <1>6, <1>7 DEF ConfigNext, Reconciles

(* The operator's calls overlap, and so leave two versions current, only   *)
(* after one of them timed out or its handler failed (handlers.py:189,     *)
(* db.py:293).                                                             *)
THEOREM ConfigCallsSerial == ConfigSpec => []CallsSerial
  <1>1. ConfigInit => Alone
    BY DEF ConfigInit, VersionsInit, Alone, OneBusy, Busy
  <1>2. ConfigTypeOK /\ Alone /\ [ConfigNext]_configVars => Alone'
    BY AloneKept
  <1>3. Alone /\ OneCurrentIfSerial => CallsSerial
    BY DEF Alone, CallsSerial
  <1> QED
    BY <1>1, <1>2, <1>3, ConfigTypeCorrect, ConfigOneCurrent, PTL DEF ConfigSpec

(* As long as nothing failed, the settings are those of the spec handled   *)
(* last, or those that the handler is about to restart the worker for.     *)
Follows ==
  faults = 0 =>
    /\ present
    /\ step # "restart" => settings = {applied} /\ ~ stale
    /\ step = "restart" => settings = {spec}

LEMMA FollowsKept ==
  ASSUME ConfigTypeOK, Follows, [ConfigNext]_configVars
  PROVE  Follows'
  <1> USE DEF Follows, handlerVars, configMapVars
  <1>1. CASE Begin \/ Post \/ SkipPost \/ Answered
    BY <1>1 DEF Begin, Post, SkipPost, Answered
  <1>2. CASE Patch
    BY <1>2 DEF Patch
  <1>3. CASE Restart
    BY <1>3 DEF Restart
  <1>4. CASE DeleteMap \/ TimesOut \/ ReconcileFails \/ \E r \in Requests : ServiceFails(r)
    <2>1. faults' # 0
      BY <1>4, FaultAssumption DEF DeleteMap, TimesOut, ReconcileFails, ServiceFails, Fault, ConfigTypeOK
    <2> QED  BY <2>1
  <1>5. CASE CreateMap \/ (\E s \in Specs : Edit(s)) \/ (\E r \in Requests : Service(r))
              \/ UNCHANGED configVars
    BY <1>5 DEF CreateMap, Edit, Service, configVars
  <1> QED  BY <1>1, <1>2, <1>3, <1>4, <1>5 DEF ConfigNext, Reconciles

(* So between two calls of the handler the ConfigMap has the settings of   *)
(* the spec handled last and the worker was restarted with them, for any   *)
(* edits, however they interleave with the handler (handlers.py:205-211).  *)
THEOREM ConfigSettingsHandled ==
  ConfigSpec => [](faults = 0 /\ step = "idle" => settings = {applied} /\ ~ stale)
  <1>1. ConfigInit => Follows
    BY DEF ConfigInit, Follows
  <1>2. ConfigTypeOK /\ Follows /\ [ConfigNext]_configVars => Follows'
    BY FollowsKept
  <1>3. Follows => (faults = 0 /\ step = "idle" => settings = {applied} /\ ~ stale)
    BY DEF Follows
  <1> QED  BY <1>1, <1>2, <1>3, ConfigTypeCorrect, PTL DEF ConfigSpec

=============================================================================
