---------------------------- MODULE NFSConnectorProofs ----------------------------
(* Proofs about NFSConnector, for any files, writes and faults.            *)
EXTENDS NFSConnector, FiniteSetTheorems, TLAPS

(* The bound of Write keeps the count of each file's writes within it.     *)
LEMMA WriteBound ==
  ASSUME TypeOK, NEW f \in Files, Cardinality(TotalWrites) < MaxWrites
  PROVE  written[f] < MaxWrites
  <1> DEFINE S == {f} \X (1 .. MaxWrites)
  <1>1. /\ IsFiniteSet(Files) /\ MaxWrites \in Nat
        /\ written[f] \in 0 .. MaxWrites
    BY FilesAssumption DEF TypeOK
  <1>2. IsFiniteSet(1 .. MaxWrites) /\ Cardinality(1 .. MaxWrites) = MaxWrites
    BY <1>1, FS_Interval
  <1>3. IsFiniteSet({f}) /\ Cardinality({f}) = 1
    BY FS_Singleton
  <1>4. IsFiniteSet(S) /\ Cardinality(S) = 1 * MaxWrites
    BY <1>2, <1>3, FS_Product
  <1>5. IsFiniteSet(TotalWrites)
    <2>1. IsFiniteSet(Files \X (1 .. MaxWrites))
      BY <1>1, <1>2, FS_Product
    <2>2. TotalWrites \subseteq Files \X (1 .. MaxWrites)
      BY DEF TotalWrites
    <2> QED  BY <2>1, <2>2, FS_Subset
  <1> SUFFICES ASSUME written[f] = MaxWrites  PROVE FALSE
    BY <1>1
  <1>6. S \subseteq TotalWrites
    BY <1>1 DEF TotalWrites
  <1>7. Cardinality(S) <= Cardinality(TotalWrites)
    BY <1>5, <1>6, FS_Subset
  <1>8. Cardinality(TotalWrites) \in Nat
    BY <1>5, FS_CardinalityType
  <1> QED  BY <1>1, <1>4, <1>7, <1>8

(* And so does that of Fault the count of faults.                          *)
LEMMA FaultBound ==
  ASSUME TypeOK, NEW k, Fault(k)
  PROVE  faults' \in 0 .. MaxFaults
  BY FaultAssumption DEF TypeOK, Fault

(* No attempt has raised before the first.                                 *)
LEMMA FirstAttempt == 0 \in 0 .. Attempts - 1
  BY FilesAssumption

LEMMA Typing ==
  ASSUME TypeOK, [Next]_vars
  PROVE  TypeOK'
  <1> USE FilesAssumption, FirstAttempt DEF TypeOK, PollTypeOK
  <1>1. ASSUME NEW f \in Files, Write(f)  PROVE TypeOK'
    <2>1. written[f] < MaxWrites
      BY <1>1, WriteBound DEF Write
    <2>2. written' \in [Files -> 0 .. MaxWrites]
      BY <1>1, <2>1 DEF Write
    <2>3. content' \in [Files -> {"absent", "unserved", "served"}]
      BY <1>1 DEF Write
    <2>4. queue' \in SUBSET Files /\ missed' \in SUBSET Files
      BY <1>1 DEF Write
    <2>5. faults' \in 0 .. MaxFaults
      BY <1>1, FaultBound DEF Write
    <2> QED  BY <1>1, <2>2, <2>3, <2>4, <2>5 DEF Write, pollVars
  <1>2. ASSUME NEW f \in Files, Delete(f)  PROVE TypeOK'
    BY <1>2 DEF Delete, pollVars, watchVars
  <1>3. CASE ObserverDies
    BY <1>3, FaultBound DEF ObserverDies, Unserved, pollVars
  <1>4. CASE StartPoll
    BY <1>4 DEF StartPoll, Present
  <1>5. CASE Remember
    BY <1>5 DEF Remember, watchVars
  <1>6. CASE RememberFails
    BY <1>6, FaultBound DEF RememberFails, Abort, Miss, watchVars
  <1>7. CASE EndPoll
    BY <1>7 DEF EndPoll, watchVars
  <1>8. ASSUME NEW f \in todo, Vanished(f)  PROVE TypeOK'
    BY <1>8, FaultBound DEF Vanished, IsNext, Done, Miss, watchVars
  <1>9. ASSUME NEW f \in todo, Announce(f)  PROVE TypeOK'
    BY <1>9 DEF Announce, IsNext, watchVars
  <1>10. ASSUME NEW f \in todo, Publish(f)  PROVE TypeOK'
    <2>1. events' \in [Files -> Nat]
      BY <1>10 DEF Publish, Copy
    <2>5. missed' \in SUBSET Files
      <3>1. missed \subseteq Files /\ f \in Files
        OBVIOUS
      <3> QED  BY <1>10, <3>1 DEF Publish
    <2>4. faults' \in 0 .. MaxFaults
      BY <1>10, FaultBound DEF Publish
    <2>2. content' \in [Files -> {"absent", "unserved", "served"}]
      BY <1>10 DEF Publish, Copy, Served
    <2>3. PollTypeOK'
      BY <1>10 DEF Publish, Done, IsNext
    <2> QED  BY <1>10, <2>1, <2>2, <2>3, <2>4, <2>5 DEF Publish, watchVars
  <1>11. ASSUME NEW f \in todo, PublishFails(f)  PROVE TypeOK'
    <2>1. events' \in [Files -> Nat]
      BY <1>11 DEF PublishFails, Copy
    <2>5. missed' \in SUBSET Files
      <3>1. missed \subseteq Files /\ f \in Files
        OBVIOUS
      <3>2. \/ missed' = missed \ {f}
            \/ missed' = missed
            \/ Miss({f})
        BY <1>11 DEF PublishFails
      <3> QED  BY <3>1, <3>2 DEF Miss
    <2>4. faults' \in 0 .. MaxFaults
      BY <1>11, FaultBound DEF PublishFails
    <2>2. content' \in [Files -> {"absent", "unserved", "served"}]
      BY <1>11 DEF PublishFails, Copy, Served
    <2>3. PollTypeOK'
      <3>1. attempt' \in 0 .. Attempts - 1
        <4>1. attempt' \in {0, attempt} \/ (attempt + 1 < Attempts /\ attempt' = attempt + 1)
          BY <1>11 DEF PublishFails, Done
        <4> QED  BY <4>1
      <3> QED  BY <1>11, <3>1 DEF PublishFails, Done, IsNext
    <2> QED  BY <1>11, <2>1, <2>2, <2>3, <2>4, <2>5 DEF PublishFails, watchVars
  <1>12. ASSUME NEW f \in todo, ConnectionLost(f) \/ Reconnect(f) \/ StatementRefused(f)
         PROVE  TypeOK'
    BY <1>12, FaultBound DEF ConnectionLost, Reconnect, StatementRefused, Abort, Miss, watchVars
  <1>13. CASE Restart
    BY <1>13, FaultBound DEF Restart, Unfound, Unserved
  <1>14. CASE UNCHANGED vars
    BY <1>14 DEF vars, pollVars, watchVars
  <1> QED
    BY <1>1, <1>2, <1>3, <1>4, <1>5, <1>6, <1>7, <1>8, <1>9, <1>10, <1>11, <1>12, <1>13, <1>14
    DEF Next, Poll

----------------------------------------------------------------------------
(* No changed file is out of sight.                                        *)

(* NoneForgotten, with what it needs besides: the path that is about to be *)
(* remembered is no longer in hand, and counts as known already.           *)
HandsApart == todo \cap remember = {}

Sought ==
  \A f \in Unserved \ (todo \cup missed) :
    IF alive THEN f \in queue ELSE f \notin known \cup remember

(* A step that ends the poll without writing or publishing a file.         *)
LEMMA AbortKeepsSought ==
  ASSUME TypeOK, HandsApart, Sought, Abort,
         UNCHANGED <<content, alive, queue>>,
         known \subseteq known', known' \subseteq known \cup remember
  PROVE  HandsApart' /\ Sought'
  BY DEF Abort, Miss, Unfound, HandsApart, Sought, Unserved

LEMMA SoughtKept ==
  ASSUME TypeOK, HandsApart, Sought, [Next]_vars
  PROVE  HandsApart' /\ Sought'
  <1> USE DEF HandsApart, Sought
  <1>1. ASSUME NEW f \in Files, Write(f)  PROVE HandsApart' /\ Sought'
    <2>1. Unserved' = Unserved \cup {f}
      BY <1>1 DEF Write, Unserved, TypeOK
    <2>2. UNCHANGED <<alive, known, todo, remember>>
      BY <1>1 DEF Write, pollVars
    <2>3. \/ queue' = queue \cup {f} /\ missed' = missed \ {f} /\ alive
          \/ queue' = queue /\ f \in missed' /\ missed' = missed \cup {f}
          \/ queue' = queue /\ f \in todo /\ missed' = missed \ {f}
          \/ queue' = queue /\ f \in queue /\ missed' = missed \ {f} /\ alive
          \/ queue' = queue /\ f \notin known \cup remember /\ missed' = missed \ {f} /\ ~ alive
      BY <1>1 DEF Write
    <2> QED  BY <2>1, <2>2, <2>3
  <1>2. ASSUME NEW f \in Files, Delete(f)  PROVE HandsApart' /\ Sought'
    <2>1. Unserved' = Unserved \ {f} /\ missed' = missed \ {f}
      BY <1>2 DEF Delete, Unserved, TypeOK
    <2> QED  BY <1>2, <2>1 DEF Delete, pollVars, watchVars
  <1>3. CASE ObserverDies
    BY <1>3 DEF ObserverDies, Unserved, pollVars
  <1>4. CASE StartPoll
    <2>1. todo = {} /\ remember = {}
      BY <1>4 DEF StartPoll, TypeOK, PollTypeOK
    <2> QED  BY <1>4, <2>1 DEF StartPoll, Present, Unserved
  <1>5. CASE Remember
    BY <1>5 DEF Remember, Unserved, watchVars
  <1>6. CASE RememberFails
    BY <1>6, AbortKeepsSought DEF RememberFails, watchVars
  <1>7. CASE EndPoll
    BY <1>7 DEF EndPoll, Unserved, watchVars
  <1>8. ASSUME NEW f \in todo, Vanished(f)  PROVE HandsApart' /\ Sought'
    BY <1>8 DEF Vanished, IsNext, Done, Miss, Unfound, Unserved, watchVars
  <1>9. ASSUME NEW f \in todo, Announce(f)  PROVE HandsApart' /\ Sought'
    BY <1>9 DEF Announce, Unserved, watchVars
  <1>10. ASSUME NEW f \in todo, Publish(f) \/ PublishFails(f)  PROVE HandsApart' /\ Sought'
    <2>1. /\ remember = {} /\ UNCHANGED <<alive, queue, known>>
          /\ \/ todo' = todo \ {f} /\ remember' \subseteq {f}
             \/ UNCHANGED <<todo, remember>>
      BY <1>10 DEF Publish, PublishFails, IsNext, Done, watchVars
    <2>2. Copy(f) => Unserved' = Unserved \ {f}
      BY DEF Copy, Served, Unserved, TypeOK
    <2>3. UNCHANGED content => Unserved' = Unserved
      BY DEF Unserved
    <2>4. \/ Unserved' = Unserved \ {f} /\ missed' = missed \ {f}
          \/ Unserved' = Unserved /\ missed' = missed \cup ({f} \cap Unserved)
          \/ Unserved' = Unserved /\ missed' = missed \cup ({f} \cap Unfound(alive, queue))
             /\ remember' = {}
          \/ Unserved' = Unserved /\ UNCHANGED <<missed, todo, remember>>
      BY <1>10, <2>1, <2>2, <2>3 DEF Publish, PublishFails, Miss
    <2> QED  BY <2>1, <2>4 DEF Unfound
  <1>11. ASSUME NEW f \in todo, ConnectionLost(f) \/ Reconnect(f) \/ StatementRefused(f)
         PROVE  HandsApart' /\ Sought'
    BY <1>11, AbortKeepsSought DEF ConnectionLost, Reconnect, StatementRefused, watchVars
  <1>12. CASE Restart
    BY <1>12 DEF Restart, Unfound, Unserved
  <1>13. CASE UNCHANGED vars
    BY <1>13 DEF vars, pollVars, watchVars, Unserved
  <1> QED
    BY <1>1, <1>2, <1>3, <1>4, <1>5, <1>6, <1>7, <1>8, <1>9, <1>10, <1>11, <1>12, <1>13
    DEF Next, Poll, TypeOK, PollTypeOK

----------------------------------------------------------------------------
(* No event without a cause.                                               *)

(* The events that a file may still get for what was written: one for its  *)
(* place in the queue and one for that in hand, or, when the tree is       *)
(* compared, one as long as it is not known.                               *)
Expected(f) ==
  IF alive
  THEN (IF f \in queue THEN 1 ELSE 0) + (IF f \in todo THEN 1 ELSE 0)
  ELSE IF f \in todo \cup (Present \ (known \cup remember)) THEN 1 ELSE 0

(* DuplicatesNeedFaults, of the events to come as well.                    *)
EventsPaid == \A f \in Files : events[f] + Expected(f) <= written[f] + faults

LEMMA ExpectedType ==
  ASSUME NEW f
  PROVE  Expected(f) \in 0 .. 2 /\ (~ alive => Expected(f) \in 0 .. 1)
  BY DEF Expected

(* A step adds to the events that were and may be no more than it adds to  *)
(* the writes and the faults.                                              *)
LEMMA PaidKept ==
  ASSUME TypeOK, HandsApart, EventsPaid, [Next]_vars
  PROVE  EventsPaid'
  <1> SUFFICES ASSUME NEW g \in Files
               PROVE  events'[g] + Expected(g)' <= written'[g] + faults'
    BY DEF EventsPaid
  <1>0. /\ events[g] \in Nat /\ written[g] \in Nat /\ faults \in Nat
        /\ Expected(g) \in Nat /\ Expected(g)' \in Nat
        /\ Expected(g)' \in 0 .. 2 /\ (~ alive' => Expected(g)' \in 0 .. 1)
        /\ events[g] + Expected(g) <= written[g] + faults
    BY FilesAssumption, ExpectedType DEF EventsPaid, TypeOK, Expected
  <1>1. ASSUME NEW f \in Files, Write(f)
        PROVE  events'[g] + Expected(g)' <= written'[g] + faults'
    <2>1. /\ UNCHANGED <<events, alive, known, todo, remember>>
          /\ \A h \in Files \ {f} : content'[h] = content[h]
          /\ queue' = queue \/ (queue' = queue \cup {f} /\ alive)
      BY <1>1 DEF Write, pollVars, TypeOK
    <2>2. faults' = faults \/ faults' = faults + 1
      BY <1>1 DEF Write, Fault
    <2>3. CASE g = f
      <3>1. written'[g] = written[g] + 1
        BY <1>1, <2>3 DEF Write, TypeOK
      <3>2. Expected(g)' <= Expected(g) + 1
        BY <2>1, <2>3 DEF Expected
      <3> QED  BY <1>0, <2>1, <2>2, <3>1, <3>2
    <2>4. CASE g # f
      <3>1. written'[g] = written[g]
        BY <1>1, <2>4 DEF Write, TypeOK
      <3>2. Expected(g)' = Expected(g)
        BY <2>1, <2>4 DEF Expected, Present
      <3> QED  BY <1>0, <2>1, <2>2, <3>1, <3>2
    <2> QED  BY <2>3, <2>4
  <1>2. ASSUME NEW f \in Files, Delete(f)
        PROVE  events'[g] + Expected(g)' <= written'[g] + faults'
    <2>1. Expected(g)' <= Expected(g)
      BY <1>2 DEF Delete, Expected, Present, pollVars, watchVars, TypeOK
    <2> QED  BY <1>0, <1>2, <2>1 DEF Delete
  <1>3. CASE ObserverDies
    <2>1. Expected(g)' <= Expected(g) + 1
      BY <1>3, <1>0, ExpectedType DEF ObserverDies
    <2> QED  BY <1>0, <1>3, <2>1 DEF ObserverDies, Fault
  <1>4. CASE StartPoll
    <2>1. todo = {} /\ remember = {}
      BY <1>4 DEF StartPoll, TypeOK, PollTypeOK
    <2>2. Expected(g)' = Expected(g)
      BY <1>4, <2>1 DEF StartPoll, Expected, Present
    <2> QED  BY <1>0, <1>4, <2>2 DEF StartPoll
  <1>5. CASE Remember
    <2>1. Expected(g)' = Expected(g)
      BY <1>5 DEF Remember, Expected, Present, watchVars
    <2> QED  BY <1>0, <1>5, <2>1 DEF Remember
  <1>6. CASE RememberFails
    <2>1. UNCHANGED <<alive, queue, events, written>> /\ todo' = {} /\ faults' = faults + 1
      BY <1>6 DEF RememberFails, Abort, Fault, watchVars
    <2>2. Expected(g)' <= Expected(g) + 1
      BY <2>1, <1>0, ExpectedType DEF Expected
    <2> QED  BY <1>0, <2>1, <2>2
  <1>7. CASE EndPoll
    <2>1. Expected(g)' = Expected(g)
      BY <1>7 DEF EndPoll, Expected, Present, watchVars
    <2> QED  BY <1>0, <1>7, <2>1 DEF EndPoll
  <1>8. ASSUME NEW f \in todo, Vanished(f)
        PROVE  events'[g] + Expected(g)' <= written'[g] + faults'
    <2>1. Expected(g)' <= Expected(g)
      BY <1>8 DEF Vanished, Done, Expected, Present, watchVars
    <2>2. faults' = faults \/ faults' = faults + 1
      BY <1>8 DEF Vanished, Fault
    <2> QED  BY <1>0, <1>8, <2>1, <2>2 DEF Vanished
  <1>9. ASSUME NEW f \in todo, Announce(f)
        PROVE  events'[g] + Expected(g)' <= written'[g] + faults'
    <2>1. Expected(g)' = Expected(g)
      BY <1>9 DEF Announce, Expected, Present, watchVars
    <2> QED  BY <1>0, <1>9, <2>1 DEF Announce
  <1>10. ASSUME NEW f \in todo, Publish(f)
         PROVE  events'[g] + Expected(g)' <= written'[g] + faults'
    <2>0. Present' = Present
      BY <1>10 DEF Publish, Copy, Present, Served, TypeOK
    <2>1. /\ remember = {} /\ remember' = {f} /\ todo' = todo \ {f}
          /\ UNCHANGED <<alive, queue, known, written>> /\ Present' = Present
      BY <1>10, <2>0 DEF Publish, IsNext, Done, watchVars
    <2>2. faults' = faults \/ faults' = faults + 1
      BY <1>10 DEF Publish, Fault
    <2>3. CASE g = f
      <3>1. Expected(g)' + 1 = Expected(g)
        BY <2>1, <2>3 DEF Expected
      <3>2. events'[g] <= events[g] + 1 /\ events'[g] \in Nat
        BY <1>10, <2>3 DEF Publish, Copy, TypeOK
      <3> QED  BY <1>0, <2>1, <2>2, <3>1, <3>2
    <2>4. CASE g # f
      <3>1. Expected(g)' = Expected(g)
        BY <2>1, <2>4 DEF Expected
      <3>2. events'[g] = events[g]
        BY <1>10, <2>4 DEF Publish, Copy, TypeOK
      <3> QED  BY <1>0, <2>1, <2>2, <3>1, <3>2
    <2> QED  BY <2>3, <2>4
  <1>11. ASSUME NEW f \in todo, PublishFails(f)
         PROVE  events'[g] + Expected(g)' <= written'[g] + faults'
    <2>0. Present' = Present
      BY <1>11 DEF PublishFails, Copy, Present, Served, TypeOK
    <2>1. /\ todo' \subseteq todo /\ faults' = faults + 1
          /\ UNCHANGED <<alive, queue, known, remember, written>> /\ Present' = Present
      BY <1>11, <2>0 DEF PublishFails, Done, Fault, watchVars
    <2>2. Expected(g)' <= Expected(g)
      BY <2>1 DEF Expected
    <2>3. events'[g] <= events[g] + 1 /\ events'[g] \in Nat
      BY <1>11 DEF PublishFails, Copy, TypeOK
    <2> QED  BY <1>0, <2>1, <2>2, <2>3
  <1>12. ASSUME NEW f \in todo, ConnectionLost(f) \/ Reconnect(f) \/ StatementRefused(f)
         PROVE  events'[g] + Expected(g)' <= written'[g] + faults'
    <2>1. /\ todo' = {} /\ remember = {} /\ remember' = {}
          /\ UNCHANGED <<content, alive, queue, known, written, events>>
      BY <1>12 DEF ConnectionLost, Reconnect, StatementRefused, Abort, Writes, IsNext, watchVars
    <2>2. faults' = faults \/ faults' = faults + 1
      BY <1>12 DEF ConnectionLost, Reconnect, StatementRefused, Fault
    <2>3. Expected(g)' <= Expected(g)
      BY <2>1 DEF Expected, Present
    <2> QED  BY <1>0, <2>1, <2>2, <2>3
  <1>13. CASE Restart
    <2>1. /\ queue' = {} /\ todo' = {} /\ faults' = faults + 1
          /\ UNCHANGED <<events, written>>
      BY <1>13 DEF Restart, Fault
    <2>2. Expected(g)' <= 1
      BY <2>1 DEF Expected
    <2> QED  BY <1>0, <2>1, <2>2
  <1>14. CASE UNCHANGED vars
    <2>1. Expected(g)' = Expected(g)
      BY <1>14 DEF vars, pollVars, watchVars, Expected, Present
    <2> QED  BY <1>0, <1>14, <2>1 DEF vars
  <1> QED
    BY <1>1, <1>2, <1>3, <1>4, <1>5, <1>6, <1>7, <1>8, <1>9, <1>10, <1>11, <1>12, <1>13, <1>14
    DEF Next, Poll

----------------------------------------------------------------------------
(* No event before its row.                                                *)

AnnouncedHasRow == announced => \A f \in todo : (\A g \in todo : f <= g) => f \in rows

LEMMA RowsKept ==
  ASSUME TypeOK, AnnouncedHasRow, PublishedAnnounced, [Next]_vars
  PROVE  AnnouncedHasRow' /\ PublishedAnnounced'
  <1> USE DEF AnnouncedHasRow, PublishedAnnounced
  <1>1. ASSUME NEW f \in todo, Announce(f)
        PROVE  AnnouncedHasRow' /\ PublishedAnnounced'
    <2>1. rows' = rows \cup {f} /\ UNCHANGED <<todo, events>>
      BY <1>1 DEF Announce
    <2>2. \A h \in todo : (\A g \in todo : h <= g) => h = f
      <3>1. todo \subseteq Nat
        BY FilesAssumption DEF TypeOK, PollTypeOK
      <3>2. f \in todo /\ \A g \in todo : f <= g
        BY <1>1 DEF Announce, IsNext
      <3> QED  BY <3>1, <3>2
    <2> QED  BY <2>1, <2>2
  <1>2. ASSUME NEW f \in todo, Publish(f) \/ PublishFails(f)
        PROVE  AnnouncedHasRow' /\ PublishedAnnounced'
    <2>1. f \in rows /\ rows' = rows /\ (announced' = FALSE \/ UNCHANGED todo)
      BY <1>2 DEF Publish, PublishFails, IsNext, Done
    <2>2. \A h \in Files \ {f} : events'[h] = events[h]
      BY <1>2 DEF Publish, PublishFails, Copy, TypeOK
    <2>3. announced
      BY <1>2 DEF Publish, PublishFails
    <2> QED  BY <2>1, <2>2, <2>3
  <1>3. CASE UNCHANGED <<rows, events>> /\ (announced' = FALSE \/ UNCHANGED <<announced, todo>>)
    BY <1>3
  <1>4. CASE Remember \/ EndPoll \/ RememberFails \/ StartPoll \/ ObserverDies \/ Restart
             \/ UNCHANGED vars
    BY <1>3, <1>4 DEF Remember, EndPoll, RememberFails, StartPoll, ObserverDies, Restart, Abort,
       vars, pollVars
  <1>5. ASSUME NEW f \in Files, Write(f) \/ Delete(f)
        PROVE  AnnouncedHasRow' /\ PublishedAnnounced'
    BY <1>3, <1>5 DEF Write, Delete, pollVars
  <1>6. ASSUME NEW f \in todo,
               Vanished(f) \/ ConnectionLost(f) \/ Reconnect(f) \/ StatementRefused(f)
        PROVE  AnnouncedHasRow' /\ PublishedAnnounced'
    BY <1>3, <1>6 DEF Vanished, ConnectionLost, Reconnect, StatementRefused, Abort, Done
  <1> QED
    BY <1>1, <1>2, <1>4, <1>5, <1>6 DEF Next, Poll

----------------------------------------------------------------------------
(* The inductive invariant.                                                *)

NFSInv ==
  TypeOK /\ HandsApart /\ Sought /\ EventsPaid /\ AnnouncedHasRow /\ PublishedAnnounced

LEMMA NFSInvInit == Init => NFSInv
  <1> SUFFICES ASSUME Init  PROVE NFSInv
    OBVIOUS
  <1> USE FilesAssumption, FaultAssumption DEF Init
  <1>1. TypeOK
    <2>1. PollTypeOK
      BY FirstAttempt DEF PollTypeOK
    <2>2. written \in [Files -> 0 .. MaxWrites] /\ faults \in 0 .. MaxFaults
      OBVIOUS
    <2>3. content \in [Files -> {"absent", "unserved", "served"}] /\ events \in [Files -> Nat]
      OBVIOUS
    <2> QED  BY <2>1, <2>2, <2>3 DEF TypeOK
  <1>2. HandsApart /\ Sought
    BY DEF HandsApart, Sought, Unserved
  <1>3. EventsPaid
    BY DEF EventsPaid, Expected, Present
  <1>4. AnnouncedHasRow /\ PublishedAnnounced
    BY DEF AnnouncedHasRow, PublishedAnnounced
  <1> QED  BY <1>1, <1>2, <1>3, <1>4 DEF NFSInv

LEMMA NFSInvariance == Spec => []NFSInv
  <1>1. NFSInv /\ [Next]_vars => NFSInv'
    BY Typing, SoughtKept, PaidKept, RowsKept DEF NFSInv
  <1> QED  BY NFSInvInit, <1>1, PTL DEF Spec

(* The mount, the queue, Redis, the poll and the table stay well typed.    *)
THEOREM NFSTypeCorrect == Spec => []TypeOK
  BY NFSInvariance, PTL DEF NFSInv

(* For any files, writes, faults and interleavings of watchdog's thread    *)
(* with the poll: a changed file is where the poll will look, or lost by a *)
(* failure that is known; an event has a write or a failure to answer for, *)
(* and comes after its row (connector.py:119, 124, 139).                   *)
THEOREM NFSEventsFollowFiles == Spec => []EventsFollowFiles
  <1>1. NFSInv => NoneForgotten
    BY DEF NFSInv, Sought, NoneForgotten
  <1>2. NFSInv => DuplicatesNeedFaults
    <2> SUFFICES ASSUME NFSInv, NEW f \in Files  PROVE events[f] <= written[f] + faults
      BY DEF DuplicatesNeedFaults
    <2>1. events[f] + Expected(f) <= written[f] + faults
      BY DEF NFSInv, EventsPaid
    <2>2. events[f] \in Nat /\ written[f] \in Nat /\ faults \in Nat /\ Expected(f) \in Nat
      BY FilesAssumption, ExpectedType DEF NFSInv, TypeOK
    <2> QED  BY <2>1, <2>2
  <1>3. NFSInv => EventsFollowFiles
    BY <1>1, <1>2 DEF NFSInv, EventsFollowFiles
  <1> QED  BY <1>3, NFSInvariance, PTL

=============================================================================
