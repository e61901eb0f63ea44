---------------------------- MODULE ControlPlaneProofs ----------------------------
(* Proofs about the control plane, for any resources, names, calls and     *)
(* faults: the operator's handlers of ConnectorOperator first, then the    *)
(* BFF's calls of UserSources, then both side by side.                     *)
EXTENDS ControlPlane, SequenceTheorems, TLAPS

----------------------------------------------------------------------------
(* The calls a handler has yet to make.                                    *)

Items(s) == {s[i] : i \in DOMAIN s}

Todo(c) == Items(handler[c].todo)

LEMMA ItemsTail ==
  ASSUME NEW S, NEW s \in Seq(S), s # <<>>
  PROVE  Items(s) = {Head(s)} \cup Items(Tail(s))
  <1>1. /\ Len(s) \in Nat /\ Len(s) > 0 /\ DOMAIN s = 1 .. Len(s)
        /\ Head(s) = s[1] /\ Len(Tail(s)) = Len(s) - 1 /\ Tail(s) \in Seq(S)
        /\ \A i \in 1 .. Len(Tail(s)) : Tail(s)[i] = s[i + 1]
    BY HeadTailProperties, EmptySeq, LenProperties
  <1>2. DOMAIN Tail(s) = 1 .. Len(s) - 1
    BY <1>1, LenProperties
  <1>3. \A i \in 1 .. Len(s) : i = 1 \/ (i - 1 \in 1 .. Len(s) - 1 /\ s[i] = Tail(s)[i - 1])
    BY <1>1
  <1>4. \A i \in 1 .. Len(s) - 1 : i + 1 \in 1 .. Len(s) /\ Tail(s)[i] = s[i + 1]
    BY <1>1
  <1>5. 1 \in 1 .. Len(s)
    BY <1>1
  <1>6. Items(s) \subseteq {Head(s)} \cup Items(Tail(s))
    <2> SUFFICES ASSUME NEW i \in 1 .. Len(s)  PROVE s[i] \in {Head(s)} \cup Items(Tail(s))
      BY <1>1 DEF Items
    <2> QED  BY <1>1, <1>2, <1>3 DEF Items
  <1>7. {Head(s)} \cup Items(Tail(s)) \subseteq Items(s)
    BY <1>1, <1>2, <1>4, <1>5 DEF Items
  <1> QED  BY <1>6, <1>7

LEMMA ItemsEmpty == Items(<< >>) = {}
  BY DEF Items

LEMMA ApplyItems ==
  ASSUME NEW c \in Resources, NEW w \in Plans
  PROVE  /\ ApplyOrder(c, w) \in Seq(Objects)
         /\ {Shared(c)} \cup Own(c, w) \subseteq Items(ApplyOrder(c, w))
         /\ Items(ApplyOrder(c, w)) \subseteq {Topic, Shared(c)} \cup Own(c, w)
  <1>1. {Topic, Shared(c), Role(c), Binding(c), Work(c, w)} \subseteq Objects
    BY OperatorAssumption DEF Objects, Resources, Shared, Role, Binding, Work, Plans, Workloads
  <1>2. CASE c \in Workspaces
    BY <1>1, <1>2 DEF ApplyOrder, Own, Items
  <1>3. CASE c \notin Workspaces
    <2>1. ApplyOrder(c, w) = <<Topic, Shared(c), Role(c), Binding(c), Work(c, w)>>
      BY <1>3 DEF ApplyOrder
    <2>2. Items(ApplyOrder(c, w)) = {Topic, Shared(c), Role(c), Binding(c), Work(c, w)}
      BY <2>1 DEF Items
    <2> QED  BY <1>1, <1>3, <2>1, <2>2 DEF Own
  <1> QED  BY <1>2, <1>3

LEMMA DeleteItems ==
  ASSUME NEW c \in Resources, NEW w \in Plans
  PROVE  /\ DeleteOrder(c, w) \in Seq(Objects)
         /\ Items(DeleteOrder(c, w)) = {Shared(c)} \cup Own(c, w)
  <1>1. {Shared(c), Role(c), Binding(c), Work(c, w)} \subseteq Objects
    BY OperatorAssumption DEF Objects, Resources, Shared, Role, Binding, Work, Plans, Workloads
  <1>2. CASE c \in Workspaces
    <2>1. DeleteOrder(c, w) = <<Shared(c)>>
      BY <1>2 DEF DeleteOrder
    <2> QED  BY <1>1, <1>2, <2>1 DEF Own, Items
  <1>3. CASE c \notin Workspaces
    <2> DEFINE own == <<Role(c), Binding(c), Work(c, w)>>
    <2>1. own \in Seq(Objects) /\ <<Shared(c)>> \in Seq(Objects)
      BY <1>1
    <2>2. /\ DeleteOrder(c, w) \in Seq(Objects) /\ DOMAIN DeleteOrder(c, w) = 1 .. 4
          /\ DeleteOrder(c, w)[1] = Role(c) /\ DeleteOrder(c, w)[2] = Binding(c)
          /\ DeleteOrder(c, w)[3] = Work(c, w) /\ DeleteOrder(c, w)[4] = Shared(c)
      BY <1>3, <2>1, ConcatProperties, LenProperties DEF DeleteOrder
    <2>3. Items(DeleteOrder(c, w)) = {Shared(c), Role(c), Binding(c), Work(c, w)}
      BY <2>2 DEF Items
    <2> QED  BY <1>3, <2>2, <2>3 DEF Own
  <1> QED  BY <1>2, <1>3

(* What a resource needs for itself is nobody else's; "none" included, as  *)
(* a resource that is gone has no workload.                                *)
LEMMA OwnApart ==
  ASSUME NEW c \in Resources, NEW d \in Resources,
         NEW v \in Plans \cup {"none"}, NEW w \in Plans \cup {"none"}
  PROVE  /\ Topic \notin Own(c, w) /\ Shared(d) \notin Own(c, w) /\ Shared(d) # Topic
         /\ c # d => Own(c, v) \cap Own(d, w) = {}
         /\ Own(c, v) \subseteq Own(c, w) \cup {Work(c, v)}
  <1>1. /\ Shared(d)[1] \in {"user", "watcher"} /\ Topic[1] = "topic"
        /\ \A x : Role(x)[1] = "role" /\ Binding(x)[1] = "binding"
        /\ \A x : Role(x)[2] = x /\ Binding(x)[2] = x
        /\ \A x, u : Work(x, u)[1] \in {"cronjob", u} /\ Work(x, u)[2] = x
    BY DEF Shared, Topic, Role, Binding, Work
  <1>2. Topic \notin Own(c, w) /\ Shared(d) \notin Own(c, w) /\ Shared(d) # Topic
    <2>1. w \notin {"user", "watcher", "topic"}
      BY DEF Plans, Workloads
    <2> QED  BY <1>1, <2>1 DEF Own
  <1>3. c # d => Own(c, v) \cap Own(d, w) = {}
    BY <1>1 DEF Own
  <1>4. Own(c, v) \subseteq Own(c, w) \cup {Work(c, v)}
    BY DEF Own
  <1> QED  BY <1>2, <1>3, <1>4

----------------------------------------------------------------------------
(* The steps of a handler.                                                 *)

LEMMA AtForm ==
  ASSUME TypeOK, NEW c \in Resources, NEW k \in {"apply", "delete"}
  PROVE  /\ At(c, k) <=> handler[c].does = k
         /\ At(c, k) => /\ handler[c] = [does |-> k, spec |-> handler[c].spec,
                                         todo |-> handler[c].todo]
                        /\ handler[c].spec \in Plans
                        /\ handler[c].todo \in Seq(Objects)
  BY DEF TypeOK, Handlers, At, Idle

LEMMA CallMoves ==
  ASSUME TypeOK, NEW c \in Resources, NEW k \in {"apply", "delete"}, NEW todo,
         Call(c, k, todo)
  PROVE  /\ handler'[c] = [does |-> k, spec |-> resource[c], todo |-> todo]
         /\ \A d \in Resources \ {c} : handler'[d] = handler[d]
  BY DEF TypeOK, Call

LEMMA AdvanceMoves ==
  ASSUME TypeOK, NEW c \in Resources, NEW k \in {"apply", "delete"},
         At(c, k), handler[c].todo # << >>, Advance(c)
  PROVE  /\ handler'[c] = [does |-> k, spec |-> handler[c].spec, todo |-> Tail(handler[c].todo)]
         /\ \A d \in Resources \ {c} : handler'[d] = handler[d]
         /\ Head(handler[c].todo) \in Objects /\ Tail(handler[c].todo) \in Seq(Objects)
         /\ Todo(c) = {Head(handler[c].todo)} \cup Items(Tail(handler[c].todo))
  <1>1. /\ handler[c] = [does |-> k, spec |-> handler[c].spec, todo |-> handler[c].todo]
        /\ handler[c].todo \in Seq(Objects)
    BY AtForm
  <1>2. handler'[c] = [handler[c] EXCEPT !.todo = Tail(@)]
    BY DEF TypeOK, Advance
  <1>3. \A d \in Resources \ {c} : handler'[d] = handler[d]
    BY DEF TypeOK, Advance
  <1>4. handler'[c] = [does |-> k, spec |-> handler[c].spec, todo |-> Tail(handler[c].todo)]
    <2> DEFINE h    == handler[c]
               spec == handler[c].spec
               todo == handler[c].todo
    <2>1. h = [does |-> k, spec |-> spec, todo |-> todo] /\ handler'[c] = [h EXCEPT !.todo = Tail(todo)]
      BY <1>1, <1>2
    <2> HIDE DEF h, spec, todo
    <2>2. handler'[c] = [does |-> k, spec |-> spec, todo |-> Tail(todo)]
      BY <2>1
    <2> QED  BY <2>2 DEF spec, todo
  <1> DEFINE todo == handler[c].todo
  <1> HIDE DEF todo
  <1>5. todo \in Seq(Objects) /\ todo # << >>
    BY <1>1 DEF todo
  <1>6. Head(todo) \in Objects /\ Tail(todo) \in Seq(Objects)
    BY <1>5, HeadTailProperties
  <1>7. Todo(c) = {Head(todo)} \cup Items(Tail(todo))
    BY <1>5, ItemsTail DEF Todo, todo
  <1> QED  BY <1>3, <1>4, <1>6, <1>7 DEF todo

LEMMA OperatorTyping ==
  ASSUME TypeOK, [Next]_vars
  PROVE  TypeOK'
  <1> USE OperatorAssumption, FaultAssumption
  <1>0. Idle \in Handlers /\ \A k \in {"apply", "delete"}, w \in Plans, todo \in Seq(Objects) :
          [does |-> k, spec |-> w, todo |-> todo] \in Handlers
    BY DEF Handlers
  <1>1. ASSUME NEW c \in Resources, NEW w \in Plans, Create(c, w)  PROVE TypeOK'
    BY <1>1 DEF Create, Edits, TypeOK
  <1>2. ASSUME NEW c \in Resources, NEW w \in Plans, Change(c, w)  PROVE TypeOK'
    <2>1. Work(c, resource[c]) \in Objects
      BY <1>2 DEF Change, TypeOK, Work, Objects, Plans, Workloads
    <2>2. resource' \in [Resources -> Plans \cup {"none"}]
      BY <1>2 DEF Change, TypeOK
    <2>3. deleting' \subseteq {d \in Resources : resource'[d] # "none"}
      BY <1>2 DEF Change, TypeOK, Plans, Workloads
    <2>4. edits' \in 0 .. MaxEdits
      BY <1>2 DEF Change, Edits, TypeOK
    <2> QED  BY <1>2, <2>1, <2>2, <2>3, <2>4 DEF Change, TypeOK
  <1>3. ASSUME NEW c \in Resources, Delete(c)  PROVE TypeOK'
    BY <1>3 DEF Delete, Edits, TypeOK
  <1>4. ASSUME NEW c \in Resources, Reconcile(c)  PROVE TypeOK'
    <2>1. resource[c] \in Plans
      BY <1>4 DEF Reconcile, TypeOK
    <2>2. handler' \in [Resources -> Handlers]
      BY <1>0, <1>4, <2>1, ApplyItems DEF Reconcile, Call, TypeOK
    <2> QED  BY <1>4, <2>2 DEF Reconcile, Call, TypeOK
  <1>5. ASSUME NEW c \in Resources, Finalize(c)  PROVE TypeOK'
    <2>1. resource[c] \in Plans
      BY <1>5 DEF Finalize, TypeOK
    <2>2. handler' \in [Resources -> Handlers]
      BY <1>0, <1>5, <2>1, DeleteItems DEF Finalize, Call, TypeOK
    <2> QED  BY <1>5, <2>2 DEF Finalize, Call, TypeOK
  <1>6. ASSUME NEW c \in Resources, Apply(c) \/ Erase(c)  PROVE TypeOK'
    <2>1. PICK k \in {"apply", "delete"} : At(c, k)
      BY <1>6 DEF Apply, Erase
    <2>2. Advance(c) /\ handler[c].todo # << >>
      BY <1>6 DEF Apply, Erase
    <2>3. handler'[c] \in Handlers /\ Head(handler[c].todo) \in Objects
      <3>1. /\ handler'[c] = [does |-> k, spec |-> handler[c].spec, todo |-> Tail(handler[c].todo)]
            /\ Head(handler[c].todo) \in Objects /\ Tail(handler[c].todo) \in Seq(Objects)
        BY <2>1, <2>2, AdvanceMoves
      <3>2. handler[c].spec \in Plans
        BY <2>1, AtForm
      <3> QED  BY <1>0, <3>1, <3>2
    <2>4. handler' \in [Resources -> Handlers]
      BY <2>2, <2>3 DEF Advance, TypeOK
    <2>5. objects' \subseteq Objects
      BY <1>6, <2>3 DEF Apply, Erase, TypeOK
    <2> QED  BY <1>6, <2>4, <2>5 DEF Apply, Erase, TypeOK
  <1>7. ASSUME NEW c \in Resources, HandlerFails(c) \/ ScheduleRefused(c)  PROVE TypeOK'
    BY <1>0, <1>7 DEF HandlerFails, ScheduleRefused, Fault, TypeOK
  <1>8. ASSUME NEW c \in Resources, Applied(c)  PROVE TypeOK'
    BY <1>0, <1>8, AtForm DEF Applied, TypeOK
  <1>9. ASSUME NEW c \in Resources, Removed(c)  PROVE TypeOK'
    BY <1>0, <1>9 DEF Removed, TypeOK
  <1>10. CASE UNCHANGED vars
    BY <1>10 DEF vars, TypeOK
  <1> QED
    BY <1>1, <1>2, <1>3, <1>4, <1>5, <1>6, <1>7, <1>8, <1>9, <1>10 DEF Next, Step, Handle

----------------------------------------------------------------------------
(* What a resource has for itself.                                         *)

(* A handler that applies: what it has yet to do, and what it has done.    *)
ApplySound(c) ==
  At(c, "apply") =>
    /\ resource[c] # "none"
    /\ Todo(c) \subseteq {Topic, Shared(c)} \cup Own(c, handler[c].spec)
    /\ Own(c, handler[c].spec) \subseteq Todo(c) \cup objects
    /\ handler[c].spec = resource[c] \/ Work(c, handler[c].spec) \in abandoned

(* A handler that deletes.                                                 *)
DeleteSound(c) ==
  At(c, "delete") =>
    /\ c \in deleting
    /\ handler[c].spec = resource[c]
    /\ Todo(c) \subseteq {Shared(c)} \cup Own(c, resource[c])
    /\ Own(c, resource[c]) \cap objects \subseteq Todo(c)

(* What there is of it is of its spec or of one that was replaced, and     *)
(* once it is handled nothing of that is missing.                          *)
ObjectsSound(c) ==
  /\ resource[c] = "none" => handled[c] = "none"
  /\ \A w \in Plans : Own(c, w) \cap objects \subseteq
       abandoned \cup (IF resource[c] = "none" THEN {} ELSE Own(c, resource[c]))
  /\ handled[c] # "none" /\ c \notin deleting => Own(c, handled[c]) \subseteq objects

OwnSound(c) == ApplySound(c) /\ DeleteSound(c) /\ ObjectsSound(c)

(* The object that a handler is about to apply or to delete.               *)
LEMMA NextObject ==
  ASSUME TypeOK, NEW d \in Resources, OwnSound(d), Apply(d) \/ Erase(d)
  PROVE  \E x \in Todo(d) :
           /\ x \in {Topic, Shared(d)} \cup Own(d, handler[d].spec)
           /\ handler[d].spec \in Plans
           /\ objects' = objects \cup {x} \/ objects' = objects \ {x}
  <1>1. PICK k \in {"apply", "delete"} : At(d, k)
    BY DEF Apply, Erase
  <1>2. Advance(d) /\ handler[d].todo # << >>
    BY DEF Apply, Erase
  <1>3. Head(handler[d].todo) \in Todo(d)
    BY <1>1, <1>2, AdvanceMoves
  <1>4. Todo(d) \subseteq {Topic, Shared(d)} \cup Own(d, handler[d].spec)
    BY <1>1 DEF OwnSound, ApplySound, DeleteSound
  <1>5. handler[d].spec \in Plans
    BY <1>1, AtForm
  <1>6. objects' = objects \cup {Head(handler[d].todo)} \/ objects' = objects \ {Head(handler[d].todo)}
    BY DEF Apply, Erase
  <1> QED  BY <1>3, <1>4, <1>5, <1>6

(* A step for one resource leaves alone what is of another.                *)
LEMMA OthersKeep ==
  ASSUME TypeOK, NEW c \in Resources, NEW d \in Resources \ {c}, OwnSound(d), Step(d)
  PROVE  /\ handler'[c] = handler[c] /\ resource'[c] = resource[c] /\ handled'[c] = handled[c]
         /\ c \in deleting' <=> c \in deleting
         /\ abandoned \subseteq abandoned'
         /\ \A w \in Plans \cup {"none"} : Own(c, w) \cap objects' = Own(c, w) \cap objects
  <1>1. ASSUME NEW w \in Plans, Create(d, w) \/ Change(d, w)
        PROVE  /\ UNCHANGED <<handler, handled, deleting, objects>> /\ resource'[c] = resource[c]
               /\ abandoned \subseteq abandoned'
    BY <1>1 DEF Create, Change, TypeOK
  <1>2. CASE Delete(d)
    BY <1>2 DEF Delete
  <1>3. CASE Reconcile(d) \/ Finalize(d)
    BY <1>3 DEF Reconcile, Finalize, Call, TypeOK
  <1>4. CASE Apply(d) \/ Erase(d)
    <2>1. UNCHANGED <<resource, deleting, handled, abandoned>> /\ handler'[c] = handler[c]
      BY <1>4 DEF Apply, Erase, Advance, TypeOK
    <2>2. PICK x : /\ x \in {Topic, Shared(d)} \cup Own(d, handler[d].spec)
                   /\ handler[d].spec \in Plans
                   /\ objects' = objects \cup {x} \/ objects' = objects \ {x}
      BY <1>4, NextObject
    <2>3. ASSUME NEW w \in Plans \cup {"none"}
          PROVE  x \notin Own(c, w)
      BY <2>2, OwnApart
    <2> QED  BY <2>1, <2>2, <2>3
  <1>5. CASE HandlerFails(d) \/ ScheduleRefused(d)
    BY <1>5 DEF HandlerFails, ScheduleRefused, TypeOK
  <1>6. CASE Applied(d) \/ Removed(d)
    BY <1>6 DEF Applied, Removed, TypeOK
  <1> QED
    BY <1>1, <1>2, <1>3, <1>4, <1>5, <1>6 DEF Step, Handle

LEMMA OwnOfOthers ==
  ASSUME TypeOK, NEW c \in Resources, NEW d \in Resources \ {c}, OwnSound(c), OwnSound(d), Step(d)
  PROVE  OwnSound(c)'
  <1>1. /\ handler'[c] = handler[c] /\ resource'[c] = resource[c] /\ handled'[c] = handled[c]
        /\ c \in deleting' <=> c \in deleting
        /\ abandoned \subseteq abandoned'
        /\ \A w \in Plans \cup {"none"} : Own(c, w) \cap objects' = Own(c, w) \cap objects
    BY OthersKeep
  <1>2. Todo(c)' = Todo(c) /\ \A k \in {"apply", "delete"} : At(c, k)' <=> At(c, k)
    BY <1>1 DEF Todo, At
  <1>3. ApplySound(c)'
    <2>1. At(c, "apply") => handler[c].spec \in Plans
      BY AtForm
    <2> QED  BY <1>1, <1>2, <2>1 DEF OwnSound, ApplySound
  <1>4. resource[c] \in Plans \cup {"none"} /\ handled[c] \in Plans \cup {"none"}
    BY DEF TypeOK
  <1>5. DeleteSound(c)'
    BY <1>1, <1>2, <1>4 DEF OwnSound, DeleteSound
  <1>6. ObjectsSound(c)'
    BY <1>1, <1>4 DEF OwnSound, ObjectsSound
  <1> QED  BY <1>3, <1>5, <1>6 DEF OwnSound

LEMMA OwnOfItself ==
  ASSUME TypeOK, NEW c \in Resources, OwnSound(c), Step(c)
  PROVE  OwnSound(c)'
  <1> USE DEF OwnSound
  <1>0. /\ resource[c] \in Plans \cup {"none"} /\ handled[c] \in Plans \cup {"none"}
        /\ c \in deleting => resource[c] # "none"
        /\ \A w \in Plans : w # "none"
    BY DEF TypeOK, Plans, Workloads
  <1>1. ASSUME NEW w \in Plans, Create(c, w)  PROVE OwnSound(c)'
    <2>1. /\ resource[c] = "none" /\ resource'[c] = w
          /\ UNCHANGED <<deleting, handled, handler, objects, abandoned>>
      BY <1>1 DEF Create, TypeOK
    <2>2. ~ At(c, "apply") /\ ~ At(c, "delete")
      BY <1>0, <2>1 DEF ApplySound, DeleteSound
    <2>3. ApplySound(c)' /\ DeleteSound(c)'
      BY <2>1, <2>2 DEF ApplySound, DeleteSound, At
    <2>4. ObjectsSound(c)'
      BY <1>0, <2>1 DEF ObjectsSound
    <2> QED  BY <2>3, <2>4
  <1>2. ASSUME NEW w \in Plans, Change(c, w)  PROVE OwnSound(c)'
    <2>1. /\ resource[c] # "none" /\ resource'[c] = w /\ c \notin deleting
          /\ abandoned' = abandoned \cup {Work(c, resource[c])}
          /\ UNCHANGED <<deleting, handled, handler, objects>>
      BY <1>2 DEF Change, TypeOK
    <2>2. ApplySound(c)' /\ DeleteSound(c)'
      BY <1>0, <2>1 DEF ApplySound, DeleteSound, At, Todo
    <2>3. Own(c, resource[c]) \subseteq Own(c, w) \cup {Work(c, resource[c])}
      BY <1>0, OwnApart
    <2>4. ObjectsSound(c)'
      BY <1>0, <2>1, <2>3 DEF ObjectsSound
    <2> QED  BY <2>2, <2>4
  <1>3. CASE Delete(c)
    <2>1. /\ deleting' = deleting \cup {c}
          /\ UNCHANGED <<resource, handled, handler, objects, abandoned>>
      BY <1>3 DEF Delete
    <2> QED  BY <2>1 DEF ApplySound, DeleteSound, ObjectsSound, At, Todo
  <1>4. ASSUME UNCHANGED <<resource, deleting, handled, objects, abandoned>>
        PROVE  ObjectsSound(c)'
    BY <1>4 DEF ObjectsSound
  <1>5. CASE Reconcile(c)
    <2>1. /\ resource[c] \in Plans
          /\ UNCHANGED <<resource, deleting, handled, objects, abandoned>>
      BY <1>0, <1>5 DEF Reconcile, Call
    <2>2. handler'[c] = [does |-> "apply", spec |-> resource[c], todo |-> ApplyOrder(c, resource[c])]
      BY <1>5, CallMoves DEF Reconcile
    <2>3. Todo(c)' = Items(ApplyOrder(c, resource[c])) /\ ~ At(c, "delete")'
      BY <2>2 DEF Todo, At
    <2>4. ApplySound(c)'
      BY <1>0, <2>1, <2>2, <2>3, ApplyItems DEF ApplySound
    <2> QED  BY <1>4, <2>1, <2>3, <2>4 DEF DeleteSound
  <1>6. CASE Finalize(c)
    <2>1. /\ c \in deleting /\ resource[c] \in Plans
          /\ UNCHANGED <<resource, deleting, handled, objects, abandoned>>
      BY <1>0, <1>6 DEF Finalize, Call
    <2>2. handler'[c] = [does |-> "delete", spec |-> resource[c], todo |-> DeleteOrder(c, resource[c])]
      BY <1>6, CallMoves DEF Finalize
    <2>3. Todo(c)' = Items(DeleteOrder(c, resource[c])) /\ ~ At(c, "apply")'
      BY <2>2 DEF Todo, At
    <2>4. DeleteSound(c)'
      BY <2>1, <2>2, <2>3, DeleteItems DEF DeleteSound
    <2> QED  BY <1>4, <2>1, <2>3, <2>4 DEF ApplySound
  <1>7. CASE Apply(c)
    <2> DEFINE x == Head(handler[c].todo)
    <2>1. /\ At(c, "apply") /\ handler[c].todo # << >> /\ Advance(c)
          /\ objects' = objects \cup {x}
          /\ UNCHANGED <<resource, deleting, handled, abandoned>>
      BY <1>7 DEF Apply
    <2>2. /\ handler'[c] = [does |-> "apply", spec |-> handler[c].spec, todo |-> Tail(handler[c].todo)]
          /\ Todo(c) = {x} \cup Items(Tail(handler[c].todo))
      BY <2>1, AdvanceMoves
    <2>3. Todo(c) = {x} \cup Todo(c)' /\ ~ At(c, "delete")'
      BY <2>2 DEF Todo, At
    <2>4. handler[c].spec \in Plans
      BY <2>1, AtForm
    <2> HIDE DEF x
    <2>5. ApplySound(c)' /\ DeleteSound(c)'
      BY <2>1, <2>2, <2>3 DEF ApplySound, DeleteSound
    <2>6. x \in {Topic, Shared(c)} \cup Own(c, handler[c].spec)
      BY <2>1, <2>3 DEF ApplySound
    <2>7. ASSUME NEW w \in Plans, x \in Own(c, w)
          PROVE  x \in abandoned \cup Own(c, resource[c])
      <3>1. x \in Own(c, handler[c].spec)
        BY <2>4, <2>6, <2>7, OwnApart
      <3>2. x \in Own(c, resource[c]) \/ x = Work(c, handler[c].spec)
        BY <1>0, <2>4, <3>1, OwnApart
      <3> QED  BY <2>1, <3>1, <3>2 DEF ApplySound
    <2>8. ObjectsSound(c)'
      BY <2>1, <2>7 DEF ObjectsSound, ApplySound
    <2> QED  BY <2>5, <2>8
  <1>8. CASE Erase(c)
    <2> DEFINE x == Head(handler[c].todo)
    <2>1. /\ At(c, "delete") /\ handler[c].todo # << >> /\ Advance(c)
          /\ objects' = objects \ {x}
          /\ UNCHANGED <<resource, deleting, handled, abandoned>>
      BY <1>8 DEF Erase
    <2>2. /\ handler'[c] = [does |-> "delete", spec |-> handler[c].spec, todo |-> Tail(handler[c].todo)]
          /\ Todo(c) = {x} \cup Items(Tail(handler[c].todo))
      BY <2>1, AdvanceMoves
    <2>3. Todo(c) = {x} \cup Todo(c)' /\ ~ At(c, "apply")'
      BY <2>2 DEF Todo, At
    <2> HIDE DEF x
    <2>4. ApplySound(c)' /\ DeleteSound(c)'
      BY <2>1, <2>2, <2>3 DEF ApplySound, DeleteSound
    <2>5. ObjectsSound(c)'
      BY <2>1 DEF ObjectsSound, DeleteSound
    <2> QED  BY <2>4, <2>5
  <1>9. ASSUME handler'[c] = Idle
        PROVE  ApplySound(c)' /\ DeleteSound(c)'
    BY <1>9 DEF ApplySound, DeleteSound, At
  <1>10. CASE HandlerFails(c) \/ ScheduleRefused(c)
    BY <1>4, <1>9, <1>10 DEF HandlerFails, ScheduleRefused, TypeOK
  <1>11. CASE Applied(c)
    <2>1. /\ At(c, "apply") /\ handler[c].todo = << >> /\ handler'[c] = Idle
          /\ handled'[c] = handler[c].spec
          /\ UNCHANGED <<resource, deleting, objects, abandoned>>
      BY <1>11 DEF Applied, TypeOK
    <2>2. Todo(c) = {}
      BY <2>1, ItemsEmpty DEF Todo
    <2>3. ObjectsSound(c)'
      BY <2>1, <2>2 DEF ObjectsSound, ApplySound
    <2> QED  BY <1>9, <2>1, <2>3
  <1>12. CASE Removed(c)
    <2>1. /\ At(c, "delete") /\ handler[c].todo = << >> /\ handler'[c] = Idle
          /\ resource'[c] = "none" /\ handled'[c] = "none"
          /\ UNCHANGED <<objects, abandoned>>
      BY <1>12 DEF Removed, TypeOK
    <2>2. Todo(c) = {}
      BY <2>1, ItemsEmpty DEF Todo
    <2>3. ObjectsSound(c)'
      BY <2>1, <2>2 DEF ObjectsSound, DeleteSound
    <2> QED  BY <1>9, <2>1, <2>3
  <1> QED
    BY <1>1, <1>2, <1>3, <1>5, <1>6, <1>7, <1>8, <1>10, <1>11, <1>12 DEF Step, Handle

LEMMA OwnKept ==
  ASSUME TypeOK, \A c \in Resources : OwnSound(c), [Next]_vars
  PROVE  \A c \in Resources : OwnSound(c)'
  <1>1. ASSUME NEW d \in Resources, Step(d), NEW c \in Resources  PROVE OwnSound(c)'
    BY <1>1, OwnOfItself, OwnOfOthers
  <1>2. CASE UNCHANGED vars
    BY <1>2 DEF vars, OwnSound, ApplySound, DeleteSound, ObjectsSound, At, Todo
  <1> QED  BY <1>1, <1>2 DEF Next

----------------------------------------------------------------------------
(* The object a resource shares with others.                               *)

(* A resource that does not need it: about to be deleted or not handled.   *)
Gone(c) == c \in deleting \/ handled[c] = "none"

(* A handler that has applied it.                                          *)
Past(c) == At(c, "apply") /\ Shared(c) \notin Todo(c)

(* If it is not there, though a resource that shares it is handled or has  *)
(* a handler that applied it, then somebody who shares it erased it, and   *)
(* has not applied it since.                                               *)
SharedSound ==
  \A c \in Resources : Shared(c) \notin objects /\ (~ Gone(c) \/ Past(c)) =>
    \E d \in Resources : Shared(d) = Shared(c) /\ Gone(d) /\ ~ Past(d)

LEMMA SharedKept ==
  ASSUME TypeOK, \A c \in Resources : OwnSound(c), SharedSound, [Next]_vars
  PROVE  SharedSound'
  <1> USE DEF SharedSound
  <1>1. ASSUME UNCHANGED objects,
               \A c \in Resources : ~ Gone(c)' => ~ Gone(c) \/ Past(c),
               \A c \in Resources : Past(c)' => Past(c)
        PROVE  SharedSound'
    BY <1>1
  <1>2. ASSUME NEW d \in Resources, NEW w \in Plans, Create(d, w) \/ Change(d, w)
        PROVE  SharedSound'
    BY <1>1, <1>2 DEF Create, Change, Gone, Past, At, Todo
  <1>3. ASSUME NEW d \in Resources, Delete(d)  PROVE SharedSound'
    BY <1>1, <1>3 DEF Delete, Gone, Past, At, Todo
  <1>4. ASSUME NEW d \in Resources, Reconcile(d) \/ Finalize(d)  PROVE SharedSound'
    <2>1. UNCHANGED <<resource, deleting, handled, objects>> /\ \A c \in Resources : Gone(c)' = Gone(c)
      BY <1>4 DEF Reconcile, Finalize, Call, Gone
    <2>2. \A c \in Resources \ {d} : handler'[c] = handler[c]
      BY <1>4, CallMoves DEF Reconcile, Finalize
    <2>3. ~ Past(d)'
      <3>1. CASE Reconcile(d)
        <4>1. handler'[d] =
                 [does |-> "apply", spec |-> resource[d], todo |-> ApplyOrder(d, resource[d])]
          BY <3>1, CallMoves DEF Reconcile
        <4>2. resource[d] \in Plans
          BY <3>1 DEF Reconcile, TypeOK
        <4> QED  BY <4>1, <4>2, ApplyItems DEF Past, Todo
      <3>2. CASE Finalize(d)
        <4>1. handler'[d] =
                 [does |-> "delete", spec |-> resource[d], todo |-> DeleteOrder(d, resource[d])]
          BY <3>2, CallMoves DEF Finalize
        <4> QED  BY <4>1 DEF Past, At
      <3> QED  BY <1>4, <3>1, <3>2
    <2> QED  BY <1>1, <2>1, <2>2, <2>3 DEF Past, At, Todo
  <1>5. ASSUME NEW d \in Resources, Apply(d)  PROVE SharedSound'
    <2> DEFINE x == Head(handler[d].todo)
    <2>1. /\ At(d, "apply") /\ handler[d].todo # << >> /\ Advance(d)
          /\ objects' = objects \cup {x} /\ UNCHANGED <<deleting, handled>>
      BY <1>5 DEF Apply
    <2>2. /\ \A c \in Resources \ {d} : handler'[c] = handler[c]
          /\ handler'[d] = [does |-> "apply", spec |-> handler[d].spec, todo |-> Tail(handler[d].todo)]
          /\ Todo(d) = {x} \cup Items(Tail(handler[d].todo))
      BY <2>1, AdvanceMoves
    <2>3. Todo(d) = {x} \cup Todo(d)'
      BY <2>2 DEF Todo
    <2>4. \A c \in Resources : Gone(c)' = Gone(c)
      BY <2>1 DEF Gone
    <2>5. \A c \in Resources \ {d} : Past(c)' = Past(c)
      BY <2>2 DEF Past, At, Todo
    <2> HIDE DEF x
    <2>6. x = Shared(d) \/ (Past(d)' => Past(d))
      BY <2>1, <2>3 DEF Past
    <2> QED  BY <2>1, <2>4, <2>5, <2>6
  <1>6. ASSUME NEW d \in Resources, Erase(d)  PROVE SharedSound'
    <2>1. /\ At(d, "delete") /\ handler[d].todo # << >> /\ Advance(d)
          /\ UNCHANGED <<deleting, handled>>
      BY <1>6 DEF Erase
    <2>2. /\ \A c \in Resources \ {d} : handler'[c] = handler[c]
          /\ handler'[d] = [does |-> "delete", spec |-> handler[d].spec, todo |-> Tail(handler[d].todo)]
      BY <2>1, AdvanceMoves
    <2>3. ~ Past(d) /\ ~ Past(d)' /\ Gone(d)
      BY <2>1, <2>2, AtForm DEF Past, At, OwnSound, DeleteSound, Gone
    <2>4. \A c \in Resources : Gone(c)' = Gone(c) /\ Past(c)' = Past(c)
      BY <2>1, <2>2, <2>3 DEF Gone, Past, At, Todo
    <2>5. PICK x : /\ x \in {Topic, Shared(d)} \cup Own(d, handler[d].spec)
                   /\ handler[d].spec \in Plans
                   /\ objects' = objects \cup {x} \/ objects' = objects \ {x}
      BY <1>6, NextObject
    <2>6. ASSUME NEW c \in Resources  PROVE Shared(c) = x => Shared(c) = Shared(d)
      BY <2>5, OwnApart
    <2> QED  BY <2>3, <2>4, <2>5, <2>6
  <1>7. ASSUME NEW d \in Resources, HandlerFails(d) \/ ScheduleRefused(d)  PROVE SharedSound'
    <2>1. UNCHANGED objects /\ \A c \in Resources : Gone(c)' = Gone(c)
      BY <1>7 DEF HandlerFails, ScheduleRefused, Gone
    <2>2. \A c \in Resources : handler'[c] = handler[c] \/ handler'[c] = Idle
      BY <1>7 DEF HandlerFails, ScheduleRefused, TypeOK
    <2> QED  BY <1>1, <2>1, <2>2 DEF Past, At, Todo
  <1>8. ASSUME NEW d \in Resources, Applied(d) \/ Removed(d)  PROVE SharedSound'
    <2>1. /\ handler[d].todo = << >> /\ UNCHANGED objects
          /\ \A c \in Resources \ {d} :
               /\ handler'[c] = handler[c] /\ handled'[c] = handled[c]
               /\ c \in deleting' <=> c \in deleting
          /\ handler'[d] = Idle
      BY <1>8 DEF Applied, Removed, TypeOK
    <2>2. Todo(d) = {}
      BY <2>1, ItemsEmpty DEF Todo
    <2>3. Past(d) \/ Gone(d)'
      BY <1>8, <2>2 DEF Applied, Removed, Past, Gone, TypeOK
    <2>4. ~ Past(d)' /\ \A c \in Resources \ {d} : Gone(c)' = Gone(c) /\ Past(c)' = Past(c)
      BY <2>1 DEF Gone, Past, At, Todo
    <2> QED  BY <1>1, <2>1, <2>3, <2>4
  <1>9. CASE UNCHANGED vars
    BY <1>1, <1>9 DEF vars, Gone, Past, At, Todo
  <1> QED
    BY <1>2, <1>3, <1>4, <1>5, <1>6, <1>7, <1>8, <1>9 DEF Next, Step, Handle

----------------------------------------------------------------------------
(* The operator's inductive invariant.                                     *)

OperatorInv == TypeOK /\ (\A c \in Resources : OwnSound(c)) /\ SharedSound

LEMMA OperatorInvariance == Spec => []OperatorInv
  <1>1. Init => OperatorInv
    <2> SUFFICES ASSUME Init  PROVE OperatorInv
      OBVIOUS
    <2>1. TypeOK
      BY OperatorAssumption, FaultAssumption DEF Init, TypeOK, Handlers
    <2>2. \A c \in Resources : ~ At(c, "apply") /\ ~ At(c, "delete") /\ handled[c] = "none"
      BY DEF Init, At
    <2>3. ASSUME NEW c \in Resources  PROVE OwnSound(c)
      BY <2>2 DEF Init, OwnSound, ApplySound, DeleteSound, ObjectsSound
    <2>4. SharedSound
      BY <2>2 DEF SharedSound, Gone, Past
    <2> QED  BY <2>1, <2>3, <2>4 DEF OperatorInv
  <1>2. OperatorInv /\ [Next]_vars => OperatorInv'
    BY OperatorTyping, OwnKept, SharedKept DEF OperatorInv
  <1> QED  BY <1>1, <1>2, PTL DEF Spec

(* Resources, handlers and objects stay well typed.                        *)
THEOREM OperatorTypeCorrect == Spec => []TypeOK
  BY OperatorInvariance, PTL DEF OperatorInv

(* Whatever handlers run at once, fail and are called again: a handled     *)
(* resource has what is its own, and what it shares unless another that    *)
(* shared it was deleted; a deleted one leaves nothing but workloads that  *)
(* were replaced (handlers.py:115, 120, 126, 162).                         *)
THEOREM OperatorObjectsFollow == Spec => []ObjectsFollow
  <1>1. ASSUME OperatorInv, NEW c \in Resources, Settled(c), resource[c] = "none"
        PROVE  (UNION {Own(c, w) : w \in Plans}) \cap objects \subseteq abandoned
    <2> DEFINE all == {Own(c, w) : w \in Plans}
    <2> SUFFICES ASSUME NEW own \in all, NEW x \in own, x \in objects  PROVE x \in abandoned
      OBVIOUS
    <2>1. PICK w \in Plans : own = Own(c, w)
      OBVIOUS
    <2> QED  BY <1>1, <2>1 DEF OperatorInv, OwnSound, ObjectsSound
  <1>2. ASSUME OperatorInv, NEW c \in Resources, Settled(c), resource[c] # "none",
               resource[c] = handled[c]
        PROVE  Complete(c)
    <2>1. ~ Gone(c)
      BY <1>2 DEF Gone, Settled
    <2>2. Own(c, resource[c]) \subseteq objects
      BY <1>2 DEF OperatorInv, OwnSound, ObjectsSound, Settled
    <2>3. ASSUME Shared(c) \notin objects
          PROVE  \E d \in Resources \ {c} : Shared(d) = Shared(c) /\ Gone(d)
      BY <1>2, <2>1, <2>3 DEF OperatorInv, SharedSound
    <2> QED  BY <2>2, <2>3 DEF Complete, Gone
  <1>3. OperatorInv => ObjectsFollow
    BY <1>1, <1>2 DEF ObjectsFollow
  <1> QED  BY <1>3, OperatorInvariance, PTL

----------------------------------------------------------------------------
(* The calls of the BFF.                                                   *)

LEMMA NewIsData == Bff!New \in Bff!Data
  BY TitlesAssumption DEF Bff!New, Bff!Data

LEMMA EditedIsData ==
  ASSUME NEW d \in Bff!Data,
         NEW f \in Bff!Fields, NEW v, f = "name" => v \in Titles, f = "paused" => v \in BOOLEAN
  PROVE  Bff!Edited(d, f, v) \in Bff!Data /\ \A g \in Bff!Fields \ {f} : Bff!Edited(d, f, v)[g] = d[g]
  BY DEF Bff!Data, Bff!Fields, Bff!Edited

(* What a call holds.                                                      *)
LEMMA RequestForm ==
  ASSUME Bff!TypeOK, NEW k \in Callers
  PROVE  /\ request[k].at \in {"create", "delete", "unlink", "patch"} => Bff!Source(k) \in Sources
         /\ Bff!At(k, "patch") => request[k].field \in Bff!Fields /\ request[k].data \in Bff!Data
  BY DEF Bff!TypeOK, Bff!Steps, Bff!Idle, Bff!Source, Bff!At

(* Where a call is after one of another.                                   *)
LEMMA GotoMoves ==
  ASSUME Bff!TypeOK, NEW k \in Callers, NEW r, Bff!Goto(k, r)
  PROVE  request'[k] = r /\ \A q \in Callers \ {k} : request'[q] = request[q]
  BY DEF Bff!TypeOK, Bff!Goto

(* A call that goes elsewhere leaves what the others hold to write.        *)
LEMMA GotoElsewhere ==
  ASSUME Bff!TypeOK, NEW k \in Callers, NEW r, Bff!Goto(k, r), r.at # "patch"
  PROVE  \A q \in Callers : Bff!At(q, "patch")' => Bff!At(q, "patch") /\ request'[q] = request[q]
  BY GotoMoves DEF Bff!At

LEMMA GotoTyped ==
  ASSUME Bff!TypeOK, NEW k \in Callers, NEW r \in Bff!Steps, Bff!Goto(k, r)
  PROVE  request' \in [Callers -> Bff!Steps]
  BY DEF Bff!TypeOK, Bff!Goto

LEMMA GetMoves ==
  ASSUME Bff!TypeOK, NEW k \in Callers, NEW s \in Sources, NEW f \in Bff!Fields, NEW v,
         f = "name" => v \in Titles, f = "paused" => v \in BOOLEAN, Bff!Get(k, s, f, v)
  PROVE  \E d \in config[s], e \in Bff!Data :
           /\ d \in Bff!Data
           /\ Bff!Goto(k, [at |-> "patch", source |-> s, field |-> f, data |-> e])
           /\ \A g \in Bff!Fields \ {f} : e[g] = d[g]
  <1>1. PICK d \in config[s] :
          Bff!Goto(k, [at |-> "patch", source |-> s, field |-> f, data |-> Bff!Edited(d, f, v)])
    BY DEF Bff!Get
  <1>2. d \in Bff!Data
    BY DEF Bff!TypeOK
  <1> QED  BY <1>1, <1>2, EditedIsData

(* The two kinds of edits together.                                        *)
Gets(k, s) == Bff!At(k, "idle") /\ \E f \in Bff!Fields, e \in Bff!Data : \E d \in config[s] :
  /\ d \in Bff!Data
  /\ Bff!Goto(k, [at |-> "patch", source |-> s, field |-> f, data |-> e])
  /\ \A g \in Bff!Fields \ {f} : e[g] = d[g]
  /\ UNCHANGED <<Bff!objectVars, used, Bff!historyVars>>

LEMMA GetsAll ==
  ASSUME Bff!TypeOK, NEW k \in Callers, NEW s \in Sources,
         \/ \E n \in Titles : Bff!Get(k, s, "name", n)
         \/ \E b \in BOOLEAN : Bff!Get(k, s, "paused", b)
  PROVE  Gets(k, s)
  <1>1. ASSUME NEW n \in Titles, Bff!Get(k, s, "name", n)  PROVE Gets(k, s)
    <2>1. /\ "name" \in Bff!Fields /\ Bff!At(k, "idle")
          /\ UNCHANGED <<Bff!objectVars, used, Bff!historyVars>>
      BY <1>1 DEF Bff!Fields, Bff!Get
    <2>2. PICK d \in config[s], e \in Bff!Data :
            /\ d \in Bff!Data
            /\ Bff!Goto(k, [at |-> "patch", source |-> s, field |-> "name", data |-> e])
            /\ \A g \in Bff!Fields \ {"name"} : e[g] = d[g]
      <3>1. "name" # "paused"
        OBVIOUS
      <3> QED  BY <1>1, <2>1, <3>1, GetMoves
    <2> QED  BY <2>1, <2>2 DEF Gets
  <1>2. ASSUME NEW b \in BOOLEAN, Bff!Get(k, s, "paused", b)  PROVE Gets(k, s)
    <2>1. /\ "paused" \in Bff!Fields /\ Bff!At(k, "idle")
          /\ UNCHANGED <<Bff!objectVars, used, Bff!historyVars>>
      BY <1>2 DEF Bff!Fields, Bff!Get
    <2>2. PICK d \in config[s], e \in Bff!Data :
            /\ d \in Bff!Data
            /\ Bff!Goto(k, [at |-> "patch", source |-> s, field |-> "paused", data |-> e])
            /\ \A g \in Bff!Fields \ {"paused"} : e[g] = d[g]
      <3>1. "paused" # "name"
        OBVIOUS
      <3> QED  BY <1>2, <2>1, <3>1, GetMoves
    <2> QED  BY <2>1, <2>2 DEF Gets
  <1> QED  BY <1>1, <1>2

LEMMA BffTyping ==
  ASSUME Bff!TypeOK, [Bff!Next]_(Bff!vars)
  PROVE  Bff!TypeOK'
  <1> USE DEF Bff!objectVars, Bff!historyVars
  <1>0. Bff!Idle \in Bff!Steps /\ \A s \in Sources, a \in {"create", "delete", "unlink"} :
          [at |-> a, source |-> s] \in Bff!Steps
    BY DEF Bff!Steps
  <1>1. ASSUME NEW k \in Callers, NEW s \in Sources, Bff!Create(k, s)  PROVE Bff!TypeOK'
    BY <1>0, <1>1, GotoTyped, NewIsData DEF Bff!Create, Bff!TypeOK
  <1>2. ASSUME NEW k \in Callers, NEW s \in Sources, Gets(k, s)  PROVE Bff!TypeOK'
    <2>1. request' \in [Callers -> Bff!Steps]
      BY <1>2, GotoTyped DEF Gets, Bff!Steps
    <2> QED  BY <1>2, <2>1 DEF Gets, Bff!TypeOK
  <1>3. ASSUME NEW k \in Callers, NEW s \in Sources, Bff!Find(k, s)  PROVE Bff!TypeOK'
    BY <1>0, <1>3, GotoTyped DEF Bff!Find, Bff!TypeOK
  <1>4. ASSUME NEW k \in Callers, Bff!CreateResource(k) \/ Bff!ResourceRefused(k)  PROVE Bff!TypeOK'
    BY <1>0, <1>4, GotoTyped, RequestForm
    DEF Bff!CreateResource, Bff!ResourceRefused, Bff!At, Bff!TypeOK
  <1>5. ASSUME NEW k \in Callers, Bff!Patch(k)  PROVE Bff!TypeOK'
    <2>1. Bff!Source(k) \in Sources /\ request[k].data \in Bff!Data /\ request[k].field \in Bff!Fields
      BY <1>5, RequestForm DEF Bff!Patch, Bff!At
    <2>2. [wanted[Bff!Source(k)] EXCEPT ![request[k].field] = request[k].data[request[k].field]]
            \in Bff!Data
      BY <2>1 DEF Bff!TypeOK, Bff!Data, Bff!Fields
    <2>3. wanted' = [wanted EXCEPT ![Bff!Source(k)] =
            [wanted[Bff!Source(k)] EXCEPT ![request[k].field] = request[k].data[request[k].field]]]
      BY <1>5 DEF Bff!Patch
    <2>4. wanted' \in [Sources -> Bff!Data]
      BY <2>1, <2>2, <2>3 DEF Bff!TypeOK
    <2> QED  BY <1>0, <1>5, <2>1, <2>4, GotoTyped DEF Bff!Patch, Bff!TypeOK
  <1>6. ASSUME NEW k \in Callers, Bff!PatchFails(k)  PROVE Bff!TypeOK'
    BY <1>0, <1>6, GotoTyped DEF Bff!PatchFails, Bff!TypeOK
  <1>7. ASSUME NEW k \in Callers, Bff!DeleteConfig(k) \/ Bff!DeleteConfigLost(k)
        PROVE  Bff!TypeOK'
    <2>1. Bff!Source(k) \in Sources
      BY <1>7, RequestForm DEF Bff!DeleteConfig, Bff!DeleteConfigLost, Bff!At
    <2> QED
      BY <1>0, <1>7, <2>1, GotoTyped DEF Bff!DeleteConfig, Bff!DeleteConfigLost, Bff!TypeOK
  <1>8. ASSUME NEW k \in Callers, Bff!DeleteResource(k) \/ Bff!DeleteResourceFails(k)  PROVE Bff!TypeOK'
    BY <1>0, <1>8, GotoTyped, RequestForm
    DEF Bff!DeleteResource, Bff!DeleteResourceFails, Bff!At, Bff!TypeOK
  <1>9. CASE UNCHANGED Bff!vars
    BY <1>9 DEF Bff!vars, Bff!TypeOK
  <1> QED
    BY <1>1, <1>2, <1>3, <1>4, <1>5, <1>6, <1>7, <1>8, <1>9, GetsAll DEF Bff!Next

(* Every variable of the BFF's calls keeps its type.                       *)
THEOREM SourcesTypeCorrect == Bff!Spec => []Bff!TypeOK
  <1>1. Bff!Init => Bff!TypeOK
    BY NewIsData DEF Bff!Init, Bff!TypeOK, Bff!Steps
  <1>2. Bff!TypeOK /\ [Bff!Next]_(Bff!vars) => Bff!TypeOK'
    BY BffTyping
  <1> QED  BY <1>1, <1>2, PTL DEF Bff!Spec

----------------------------------------------------------------------------
(* Edits.                                                                  *)

(* A source that nobody has created yet is as it will be; what is written  *)
(* to it, and what waits to be written, is of a source that was created.   *)
FreshSources ==
  /\ \A s \in Sources \ used : config[s] = {} /\ wanted[s] = Bff!New
  /\ \A k \in Callers : Bff!At(k, "patch") => Bff!Source(k) \in used

(* The data that waits to be written to an uncontended source differs from *)
(* what is there in the field that is edited only.                         *)
Pending ==
  \A k \in Callers : Bff!At(k, "patch") /\ Bff!Source(k) \notin contended =>
    \A d \in config[Bff!Source(k)] :
      \A g \in Bff!Fields \ {request[k].field} : request[k].data[g] = d[g]

EditsInv == FreshSources /\ Pending /\ EditsKept

LEMMA EditsStep ==
  ASSUME Bff!TypeOK, EditsInv, [Bff!Next]_(Bff!vars)
  PROVE  EditsInv'
  <1> USE DEF Bff!objectVars, Bff!historyVars, EditsInv
  <1>1. ASSUME NEW k \in Callers, NEW s \in Sources, Bff!Create(k, s)  PROVE EditsInv'
    <2>1. /\ UNCHANGED <<wanted, contended>> /\ used' = used \cup {s} /\ s \notin used
          /\ \A j \in Sources : config'[j] = IF j = s THEN {Bff!New} ELSE config[j]
      BY <1>1 DEF Bff!Create, Bff!TypeOK
    <2>2. \A q \in Callers : Bff!At(q, "patch")' => Bff!At(q, "patch") /\ request'[q] = request[q]
      BY <1>1, GotoMoves DEF Bff!Create, Bff!At
    <2>3. \A q \in Callers : Bff!At(q, "patch") => Bff!Source(q) \in Sources /\ Bff!Source(q) # s
      BY <2>1, RequestForm DEF FreshSources, Bff!At
    <2> QED  BY <2>1, <2>2, <2>3 DEF FreshSources, Pending, EditsKept, Bff!EditsKept, Bff!Source
  <1>2. ASSUME NEW k \in Callers, NEW s \in Sources, Gets(k, s)  PROVE EditsInv'
    <2>1. PICK f \in Bff!Fields, e \in Bff!Data : \E d \in config[s] :
            /\ d \in Bff!Data
            /\ Bff!Goto(k, [at |-> "patch", source |-> s, field |-> f, data |-> e])
            /\ \A g \in Bff!Fields \ {f} : e[g] = d[g]
            /\ UNCHANGED <<Bff!objectVars, used, Bff!historyVars>>
      BY <1>2 DEF Gets
    <2>2. UNCHANGED <<config, used, wanted, contended>>
      BY <2>1
    <2>3. /\ request'[k] = [at |-> "patch", source |-> s, field |-> f, data |-> e]
          /\ \A q \in Callers \ {k} : request'[q] = request[q]
      BY <2>1, GotoMoves
    <2>4. s \in used
      BY <2>1 DEF FreshSources
    <2>5. \A d \in config[s] : \A g \in Bff!Fields \ {f} : e[g] = d[g]
      BY <2>1 DEF Bff!TypeOK
    <2>6. FreshSources'
      BY <2>2, <2>3, <2>4 DEF FreshSources, Bff!At, Bff!Source
    <2>7. Pending'
      BY <2>2, <2>3, <2>5 DEF Pending, Bff!At, Bff!Source
    <2>8. EditsKept'
      BY <2>2 DEF EditsKept, Bff!EditsKept
    <2> QED  BY <2>6, <2>7, <2>8
  <1>3. ASSUME NEW k \in Callers, Bff!Patch(k)  PROVE EditsInv'
    <2> DEFINE s == Bff!Source(k)
    <2> DEFINE f == request[k].field
    <2>1. s \in Sources /\ f \in Bff!Fields /\ request[k].data \in Bff!Data /\ s \in used
          /\ Bff!At(k, "patch") /\ UNCHANGED used
      BY <1>3, RequestForm DEF Bff!Patch, Bff!At, FreshSources
    <2>2. \A j \in Sources \ {s} : config'[j] = config[j] /\ wanted'[j] = wanted[j]
      BY <1>3 DEF Bff!Patch, Bff!TypeOK
    <2>3. /\ config'[s] = {request[k].data}
          /\ wanted'[s] = [wanted[s] EXCEPT ![f] = request[k].data[f]]
      BY <1>3, <2>1 DEF Bff!Patch, Bff!TypeOK
    <2>4. /\ contended \subseteq contended' /\ contended' \subseteq contended \cup {s}
          /\ s \notin contended' =>
               \A q \in Callers \ {k} : ~ (Bff!At(q, "patch") /\ Bff!Source(q) = s)
      BY <1>3 DEF Bff!Patch
    <2>5. \A q \in Callers : Bff!At(q, "patch")' =>
            q # k /\ Bff!At(q, "patch") /\ request'[q] = request[q]
      BY <1>3, GotoMoves DEF Bff!Patch, Bff!At, Bff!Idle
    <2>6. FreshSources'
      BY <2>1, <2>2, <2>5 DEF FreshSources, Bff!Source
    <2>7. Pending'
      BY <2>2, <2>4, <2>5, RequestForm DEF Pending, Bff!Source, Bff!At
    <2>8. s \notin contended' => request[k].data = wanted'[s]
      <3> SUFFICES ASSUME s \notin contended'  PROVE request[k].data = wanted'[s]
        OBVIOUS
      <3>1. PICK d \in config[s] : TRUE
        BY <1>3 DEF Bff!Patch
      <3>2. d = wanted[s] /\ d \in Bff!Data
        BY <2>1, <2>4, <3>1 DEF EditsKept, Bff!EditsKept, Bff!TypeOK
      <3>3. \A g \in Bff!Fields \ {f} : request[k].data[g] = wanted[s][g]
        BY <2>1, <2>4, <3>1, <3>2 DEF Pending
      <3>4. wanted'[s] \in Bff!Data /\ \A g \in Bff!Fields : request[k].data[g] = wanted'[s][g]
        BY <2>1, <2>3, <3>2, <3>3 DEF Bff!Data, Bff!Fields
      <3> QED  BY <2>1, <3>4 DEF Bff!Data, Bff!Fields
    <2>9. EditsKept'
      BY <2>2, <2>3, <2>4, <2>8 DEF EditsKept, Bff!EditsKept
    <2> QED  BY <2>6, <2>7, <2>9
  <1>4. ASSUME NEW k \in Callers, Bff!DeleteConfig(k) \/ Bff!DeleteConfigLost(k)
        PROVE  EditsInv'
    <2>1. /\ UNCHANGED <<used, wanted, contended>>
          /\ \A j \in Sources : config'[j] = config[j] \/ config'[j] = {}
      BY <1>4 DEF Bff!DeleteConfig, Bff!DeleteConfigLost, Bff!TypeOK
    <2>2. \A q \in Callers : Bff!At(q, "patch")' => Bff!At(q, "patch") /\ request'[q] = request[q]
      BY <1>4, GotoMoves DEF Bff!DeleteConfig, Bff!DeleteConfigLost, Bff!At, Bff!Idle
    <2>3. FreshSources'
      BY <2>1, <2>2 DEF FreshSources, Bff!Source
    <2>4. Pending'
      BY <2>1, <2>2, RequestForm DEF Pending, Bff!Source, Bff!At
    <2>5. EditsKept'
      BY <2>1 DEF EditsKept, Bff!EditsKept
    <2> QED  BY <2>3, <2>4, <2>5
  <1>5. ASSUME UNCHANGED <<config, used, wanted, contended>>,
               \A q \in Callers : Bff!At(q, "patch")' => Bff!At(q, "patch") /\ request'[q] = request[q]
        PROVE  EditsInv'
    BY <1>5 DEF FreshSources, Pending, EditsKept, Bff!EditsKept, Bff!Source
  <1>6. ASSUME NEW k \in Callers,
               \/ \E s \in Sources : Bff!Find(k, s)
               \/ Bff!CreateResource(k) \/ Bff!ResourceRefused(k) \/ Bff!PatchFails(k)
               \/ Bff!DeleteResource(k) \/ Bff!DeleteResourceFails(k)
        PROVE  EditsInv'
    <2>1. UNCHANGED <<config, used, wanted, contended>>
      BY <1>6 DEF Bff!Find, Bff!CreateResource, Bff!ResourceRefused, Bff!PatchFails, Bff!DeleteResource,
         Bff!DeleteResourceFails
    <2>2. \A q \in Callers : Bff!At(q, "patch")' => Bff!At(q, "patch") /\ request'[q] = request[q]
      <3>1. Bff!Idle.at # "patch" /\ \A j \in Sources : [at |-> "delete", source |-> j].at # "patch"
        BY DEF Bff!Idle
      <3>2. CASE \E j \in Sources : Bff!Find(k, j)
        BY <3>1, <3>2, GotoElsewhere DEF Bff!Find
      <3>3. CASE Bff!Goto(k, Bff!Idle)
        BY <3>1, <3>3, GotoElsewhere
      <3> QED
        BY <1>6, <3>2, <3>3
        DEF Bff!CreateResource, Bff!ResourceRefused, Bff!PatchFails, Bff!DeleteResource,
           Bff!DeleteResourceFails
    <2> QED  BY <1>5, <2>1, <2>2
  <1>7. CASE UNCHANGED Bff!vars
    BY <1>5, <1>7 DEF Bff!vars, Bff!At
  <1> QED
    BY <1>1, <1>2, <1>3, <1>4, <1>6, <1>7, GetsAll DEF Bff!Next

(* Acknowledged edits of a source are kept unless calls on it overlap      *)
(* (user_sources.py:185).                                                  *)
THEOREM EditsCorrect == Bff!Spec => []EditsKept
  <1>1. Bff!Init => EditsInv
    BY DEF Bff!Init, EditsInv, FreshSources, Pending, EditsKept, Bff!EditsKept, Bff!At, Bff!Idle
  <1>2. Bff!TypeOK /\ EditsInv /\ [Bff!Next]_(Bff!vars) => EditsInv'
    BY EditsStep
  <1>3. EditsInv => EditsKept
    BY DEF EditsInv
  <1>4. Bff!Spec => []Bff!TypeOK
    BY SourcesTypeCorrect
  <1> QED  BY <1>1, <1>2, <1>3, <1>4, PTL DEF Bff!Spec

----------------------------------------------------------------------------
(* Orphans.                                                                *)
LEMMA OrphansStep ==
  ASSUME Bff!TypeOK, OrphansExplained, [Bff!Next]_(Bff!vars)
  PROVE  OrphansExplained'
  <1> USE DEF Bff!objectVars, Bff!historyVars
  <1>1. ASSUME UNCHANGED connector, orphaned \subseteq orphaned',
               \A s \in Sources : config'[s] = {} => config[s] = {},
               \A q \in Callers : Bff!At(q, "unlink") => request'[q] = request[q]
        PROVE  OrphansExplained'
    BY <1>1 DEF OrphansExplained, Bff!OrphansExplained, Bff!TypeOK, Bff!At, Bff!Source
  <1>2. ASSUME NEW k \in Callers, NEW s \in Sources, Bff!Create(k, s) \/ Gets(k, s) \/ Bff!Find(k, s)
        PROVE  OrphansExplained'
    <2>1. /\ UNCHANGED <<connector, orphaned>>
          /\ \A j \in Sources : config'[j] = {} => config[j] = {}
      BY <1>2 DEF Bff!Create, Gets, Bff!Find, Bff!TypeOK
    <2>2. PICK r : Bff!Goto(k, r)
      BY <1>2 DEF Bff!Create, Gets, Bff!Find
    <2>3. Bff!At(k, "idle")
      BY <1>2 DEF Bff!Create, Gets, Bff!Find
    <2>4. \A q \in Callers : Bff!At(q, "unlink") => request'[q] = request[q]
      BY <2>2, <2>3, GotoMoves DEF Bff!At
    <2> QED  BY <1>1, <2>1, <2>4
  <1>3. ASSUME NEW k \in Callers, Bff!CreateResource(k)  PROVE OrphansExplained'
    <2>1. /\ connector' = connector \cup {Bff!Source(k)}
          /\ orphaned' = orphaned \cup {s \in {Bff!Source(k)} : config[s] = {}}
          /\ UNCHANGED config
      BY <1>3 DEF Bff!CreateResource
    <2>2. \A q \in Callers : Bff!At(q, "unlink") => request'[q] = request[q]
      BY <1>3, GotoMoves DEF Bff!CreateResource, Bff!At
    <2> QED  BY <2>1, <2>2 DEF OrphansExplained, Bff!OrphansExplained, Bff!At, Bff!Source
  <1>4. ASSUME NEW k \in Callers, Bff!ResourceRefused(k) \/ Bff!PatchFails(k)
        PROVE  OrphansExplained'
    <2>1. UNCHANGED <<config, connector, orphaned>>
      BY <1>4 DEF Bff!ResourceRefused, Bff!PatchFails
    <2>2. \A q \in Callers : Bff!At(q, "unlink") => request'[q] = request[q]
      BY <1>4, GotoMoves DEF Bff!ResourceRefused, Bff!PatchFails, Bff!At
    <2> QED  BY <1>1, <2>1, <2>2
  <1>5. ASSUME NEW k \in Callers, Bff!Patch(k)  PROVE OrphansExplained'
    <2>1. UNCHANGED <<connector, orphaned>>
      BY <1>5 DEF Bff!Patch
    <2>2. \A j \in Sources : config'[j] = {} => config[j] = {}
      BY <1>5 DEF Bff!Patch, Bff!TypeOK
    <2>3. \A q \in Callers : Bff!At(q, "unlink") => request'[q] = request[q]
      BY <1>5, GotoMoves DEF Bff!Patch, Bff!At
    <2> QED  BY <1>1, <2>1, <2>2, <2>3
  <1>6. ASSUME NEW k \in Callers, Bff!DeleteConfig(k)  PROVE OrphansExplained'
    <2>1. /\ UNCHANGED <<connector, orphaned>>
          /\ \A j \in Sources \ {Bff!Source(k)} : config'[j] = config[j]
      BY <1>6 DEF Bff!DeleteConfig, Bff!TypeOK
    <2>2. \A q \in Callers : Bff!At(q, "unlink") => q # k /\ request'[q] = request[q]
      BY <1>6, GotoMoves DEF Bff!DeleteConfig, Bff!At
    <2>3. CASE config[Bff!Source(k)] = {}
      <3>1. \A j \in Sources : config'[j] = {} => config[j] = {}
        BY <2>1, <2>3
      <3> QED  BY <1>1, <2>1, <2>2, <3>1
    <2>4. CASE config[Bff!Source(k)] # {}
      <3>1. request'[k] = [at |-> "unlink", source |-> Bff!Source(k)]
        BY <1>6, <2>4, GotoMoves DEF Bff!DeleteConfig
      <3>2. Bff!At(k, "unlink")' /\ Bff!Source(k)' = Bff!Source(k)
        BY <3>1 DEF Bff!At, Bff!Source
      <3> QED
        BY <2>1, <2>2, <3>2 DEF OrphansExplained, Bff!OrphansExplained, Bff!TypeOK, Bff!At, Bff!Source
    <2> QED  BY <2>3, <2>4
  <1>7. ASSUME NEW k \in Callers, Bff!DeleteResource(k) \/ Bff!DeleteResourceFails(k)
        PROVE  OrphansExplained'
    <2>1. \A q \in Callers \ {k} : request'[q] = request[q]
      BY <1>7, GotoMoves DEF Bff!DeleteResource, Bff!DeleteResourceFails
    <2>2. /\ UNCHANGED config
          /\ \/ connector' = connector \ {Bff!Source(k)} /\ UNCHANGED orphaned
             \/ UNCHANGED connector /\ orphaned' = orphaned \cup {Bff!Source(k)}
      BY <1>7 DEF Bff!DeleteResource, Bff!DeleteResourceFails
    <2> QED  BY <2>1, <2>2 DEF OrphansExplained, Bff!OrphansExplained, Bff!At, Bff!Source
  <1>8. ASSUME NEW k \in Callers, Bff!DeleteConfigLost(k)  PROVE OrphansExplained'
    <2>1. /\ UNCHANGED connector /\ orphaned' = orphaned \cup {Bff!Source(k)}
          /\ \A j \in Sources \ {Bff!Source(k)} : config'[j] = config[j]
      BY <1>8 DEF Bff!DeleteConfigLost, Bff!TypeOK
    <2>2. \A q \in Callers : Bff!At(q, "unlink") => request'[q] = request[q]
      BY <1>8, GotoMoves DEF Bff!DeleteConfigLost, Bff!At
    <2> QED
      BY <2>1, <2>2 DEF OrphansExplained, Bff!OrphansExplained, Bff!TypeOK, Bff!At, Bff!Source
  <1>9. CASE UNCHANGED Bff!vars
    BY <1>1, <1>9 DEF Bff!vars
  <1> QED
    BY <1>2, <1>3, <1>4, <1>5, <1>6, <1>7, <1>8, <1>9, GetsAll DEF Bff!Next

(* A connector without its ConfigMap is one whose deletion failed halfway, *)
(* or came between the two writes of its creation                          *)
(* (user_sources.py:122, 205).                                             *)
THEOREM OrphansCorrect == Bff!Spec => []OrphansExplained
  <1>1. Bff!Init => OrphansExplained
    BY DEF Bff!Init, OrphansExplained, Bff!OrphansExplained
  <1>2. Bff!TypeOK /\ OrphansExplained /\ [Bff!Next]_(Bff!vars) => OrphansExplained'
    BY OrphansStep
  <1>3. Bff!Spec => []Bff!TypeOK
    BY SourcesTypeCorrect
  <1> QED  BY <1>1, <1>2, <1>3, PTL DEF Bff!Spec

----------------------------------------------------------------------------
(* Side by side.                                                           *)

(* The control plane takes the steps of the one or of the other.           *)
THEOREM PlaneRefinesOperator == PlaneSpec => Spec
  <1>1. PlaneInit => Init
    BY DEF PlaneInit
  <1>2. [PlaneNext]_planeVars => [Next]_vars
    BY DEF PlaneNext, planeVars
  <1> QED  BY <1>1, <1>2, PTL DEF PlaneSpec, Spec

THEOREM PlaneRefinesBff == PlaneSpec => Bff!Spec
  <1>1. PlaneInit => Bff!Init
    BY DEF PlaneInit
  <1>2. [PlaneNext]_planeVars => [Bff!Next]_(Bff!vars)
    BY DEF PlaneNext, planeVars, bffVars, Bff!vars, Bff!objectVars, Bff!historyVars
  <1> QED  BY <1>1, <1>2, PTL DEF PlaneSpec, Bff!Spec

(* All of it stays well typed.                                             *)
THEOREM PlaneTypeCorrect == PlaneSpec => []ControlTypeOK
  BY PlaneRefinesOperator, PlaneRefinesBff, OperatorTypeCorrect, SourcesTypeCorrect, PTL
  DEF ControlTypeOK

(* And what holds of the operator and of the BFF's calls alone holds of    *)
(* them in every interleaving (handlers.py:162, user_sources.py:185, 205). *)
THEOREM PlaneCorrect == PlaneSpec => [](ObjectsFollow /\ EditsKept /\ OrphansExplained)
  BY PlaneRefinesOperator, PlaneRefinesBff, OperatorObjectsFollow, EditsCorrect, OrphansCorrect, PTL

=============================================================================
