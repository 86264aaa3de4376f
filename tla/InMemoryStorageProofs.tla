------------------------- MODULE InMemoryStorageProofs -------------------------
(* Proofs about InMemoryStorage for any number of requests, objects, watchers  *)
(* and any channel size.                                                       *)
EXTENDS InMemoryStorage, SolutionsProofs, SequenceTheorems, TLAPS

--------------------------------------------------------------------------------
(* A pointer of the map leads to an allocated cell that holds the object of its*)
(* key, so two keys never share a cell.                                        *)
PointersSound ==
    \A k \in Keys : objects[k] # Nil =>
        heap[objects[k]] # Nil /\ heap[objects[k]].key = k

(* The cell of a request that has not begun is free.                           *)
IdleOwnsNothing ==
    \A r \in Requests :
        pc[r] = "idle" => \A k \in Keys : objects[k] # r

(* A request is answered when it takes effect, not before.                     *)
OpenUntilEffect ==
    \A r \in Requests : pc[r] \in {"idle", "collect"} => result[r] = Nil

(* A list that is about to be deleted lies in one namespace.                   *)
ListInNamespace ==
    \A r \in Requests : pc[r] = "collect" =>
        \E ns \in Namespaces : \A o \in items[r] : NamespaceOf(o.key) = ns

(* A write that succeeded has a cell to announce and to answer from.           *)
Writes == {"Create", "Update", "UpdateStatus"}

CellAllocated ==
    \A r \in Requests :
        /\ pc[r] = "respond" => heap[r] # Nil
        /\ pc[r] \in {"locked", "broadcast"} => result[r] \in Results
        /\ pc[r] = "broadcast" => result[r].out = "ok"
        /\ (pc[r] \in {"locked", "broadcast"} /\ result[r].out = "ok"
              /\ result[r].op \in Writes) => heap[r] # Nil

IInv ==
    /\ TypeOK
    /\ PointersSound
    /\ IdleOwnsNothing
    /\ OpenUntilEffect
    /\ ListInNamespace
    /\ CellAllocated

--------------------------------------------------------------------------------
LEMMA InitIInv == Init => IInv
<1> SUFFICES ASSUME Init PROVE IInv
  OBVIOUS
<1>1. TypeOK
  <2>1. sent \in [Watches -> Seq(Event)] /\ taken \in [Watches -> Nat]
    BY DEF Init
  <2>2. effect \in [Requests -> [at: Nat, objs: SUBSET Solution,
                                after: SUBSET Requests, watched: SUBSET Watches]]
    BY DEF Init, NoEffect
  <2>3. response \in [Requests -> [rv: Nat, phase: Phases \cup {Nil}]]
    BY DEF Init, NoFields
  <2>4. pc \in [Requests -> PCs] /\ clock \in Nat
    BY DEF Init, PCs
  <2> QED
    BY <2>1, <2>2, <2>3, <2>4 DEF TypeOK, Init
<1>2. PointersSound /\ IdleOwnsNothing /\ OpenUntilEffect
  BY NilIsNoSolution DEF Init, PointersSound, IdleOwnsNothing, OpenUntilEffect
<1>3. ListInNamespace /\ CellAllocated
  BY DEF Init, ListInNamespace, CellAllocated
<1> QED
  BY <1>1, <1>2, <1>3 DEF IInv

--------------------------------------------------------------------------------
(* The parts the actions share keep the types.                                 *)

LEMMA TakeEffectType ==
  ASSUME TypeOK, NEW r \in Requests, NEW objs \in SUBSET Solution, TakeEffect(r, objs)
  PROVE  /\ effect' \in [Requests -> [at: Nat, objs: SUBSET Solution,
                                      after: SUBSET Requests, watched: SUBSET Watches]]
         /\ clock' \in Nat
  BY DEF TypeOK, TakeEffect, Returned

LEMMA AnswerType ==
  ASSUME TypeOK, NEW r \in Requests, NEW op \in Operations, NEW out \in Outcomes,
         Answer(r, op, out)
  PROVE  /\ result' \in [Requests -> Results \cup {Nil}]
         /\ result'[r] = Reply(op, out)
         /\ \A s \in Requests : s # r => result'[s] = result[s]
  BY DEF TypeOK, Answer, Reply, Results

LEMMA GotoType ==
  ASSUME TypeOK, NEW r \in Requests, NEW label \in PCs, Goto(r, label)
  PROVE  /\ pc' \in [Requests -> PCs]
         /\ pc'[r] = label
         /\ \A s \in Requests : s # r => pc'[s] = pc[s]
  BY DEF TypeOK, Goto

LEMMA ExistingType ==
  ASSUME IInv, NEW k \in Keys, objects[k] # Nil
  PROVE  /\ objects[k] \in Requests
         /\ Existing(k) \in Solution
         /\ Existing(k).key = k
  BY DEF IInv, TypeOK, PointersSound, Existing

LEMMA BroadcastType ==
  ASSUME TypeOK, NEW r \in Requests, NEW type \in EventTypes, NEW obj \in Solution,
         broadcast(r, type, obj)
  PROVE  /\ watchers' \subseteq Watches
         /\ sent' \in [Watches -> Seq(Event)]
         /\ missed' \in [Watches -> SUBSET (Requests \X Keys)]
<1> DEFINE event == [type |-> type, by |-> r, obj |-> obj]
<1>1. event \in Event
  BY DEF Event
<1>2. <<r, obj.key>> \in Requests \X Keys
  BY DEF Solution
<1>3. \A w \in Watches : sent[w] \in Seq(Event) /\ Append(sent[w], event) \in Seq(Event)
  BY <1>1 DEF TypeOK
<1>4. watchers' \subseteq Watches
  BY DEF TypeOK, broadcast
<1>5. sent' \in [Watches -> Seq(Event)]
  <2> HIDE DEF event
  <2>1. sent' = [w \in Watches |->
                   IF w \in {v \in watchers \ stopped : Matches(v, obj)}
                            \ {v \in {u \in watchers \ stopped : Matches(u, obj)} : Full(v)}
                   THEN Append(sent[w], event) ELSE sent[w]]
    BY DEF broadcast, event
  <2> QED
    BY <1>3, <2>1
<1>6. missed' \in [Watches -> SUBSET (Requests \X Keys)]
  BY <1>2 DEF TypeOK, broadcast
<1> QED
  BY <1>4, <1>5, <1>6

--------------------------------------------------------------------------------
(* Each action preserves the invariant.                                        *)

LEMMA FailIInv ==
  ASSUME IInv, NEW r \in Requests, NEW op \in Operations,
         NEW out \in Outcomes \ {"ok"}, Fail(r, op, out)
  PROVE  IInv'
<1> USE DEF Fail, Lock
<1>1. /\ pc[r] = "idle"
      /\ pc' \in [Requests -> PCs] /\ pc'[r] = "locked"
      /\ \A s \in Requests : s # r => pc'[s] = pc[s]
  BY GotoType DEF IInv, PCs
<1>2. /\ result' \in [Requests -> Results \cup {Nil}]
      /\ result'[r] = Reply(op, out)
      /\ \A s \in Requests : s # r => result'[s] = result[s]
  BY AnswerType DEF IInv
<1>3. UNCHANGED <<objects, heap, watchers, filter, stopped, sent, taken, items,
                  response, effect, clock, since, missed>>
  BY DEF objectVars, watchVars, effectVars
<1>4. TypeOK'
  BY <1>1, <1>2, <1>3 DEF IInv, TypeOK
<1>5. PointersSound' /\ IdleOwnsNothing'
  BY <1>1, <1>3 DEF IInv, PointersSound, IdleOwnsNothing
<1>6. OpenUntilEffect' /\ ListInNamespace'
  BY <1>1, <1>2, <1>3 DEF IInv, OpenUntilEffect, ListInNamespace
<1>7. CellAllocated'
  BY <1>1, <1>2, <1>3 DEF IInv, CellAllocated, Results, Reply
<1> QED
  BY <1>4, <1>5, <1>6, <1>7 DEF IInv

(* A write that stores cp in its own cell, after having left every other cell  *)
(* allocated and under its key.                                                *)
LEMMA StoreIInv ==
  ASSUME IInv, NEW r \in Requests, NEW k \in Keys, NEW op \in Writes,
         NEW cp \in Solution, cp.key = k,
         heap' \in [Requests -> Solution \cup {Nil}],
         heap'[r] = cp,
         \A s \in Requests : s # r /\ heap[s] # Nil =>
             heap'[s] # Nil /\ heap'[s].key = heap[s].key,
         Store(r, k, cp, op)
  PROVE  IInv'
<1> USE DEF Store, Lock
<1>1. /\ pc[r] = "idle" /\ mu' = r
      /\ pc' \in [Requests -> PCs] /\ pc'[r] = "locked"
      /\ \A s \in Requests : s # r => pc'[s] = pc[s]
  BY GotoType DEF IInv, PCs
<1>2. op \in Operations /\ "ok" \in Outcomes
  BY DEF Writes, Operations, Outcomes
<1>3. /\ result' \in [Requests -> Results \cup {Nil}]
      /\ result'[r] = Reply(op, "ok")
      /\ \A s \in Requests : s # r => result'[s] = result[s]
  BY <1>2, AnswerType DEF IInv
<1>4. /\ effect' \in [Requests -> [at: Nat, objs: SUBSET Solution,
                                   after: SUBSET Requests, watched: SUBSET Watches]]
      /\ clock' \in Nat
  <2>1. {cp} \in SUBSET Solution /\ TakeEffect(r, {cp})
    OBVIOUS
  <2> QED
    BY <2>1, TakeEffectType DEF IInv
<1>5. /\ objects' = [objects EXCEPT ![k] = r]
      /\ UNCHANGED <<watchers, filter, stopped, sent, taken, items, response,
                     since, missed>>
  BY DEF watchVars
<1>6. TypeOK'
  BY <1>1, <1>3, <1>4, <1>5 DEF IInv, TypeOK
<1>7. PointersSound'
  <2> SUFFICES ASSUME NEW j \in Keys, objects'[j] # Nil
               PROVE  heap'[objects'[j]] # Nil /\ heap'[objects'[j]].key = j
    BY DEF PointersSound
  <2>1. CASE j = k
    BY <1>5, <2>1, NilIsNoSolution DEF IInv, TypeOK
  <2>2. CASE j # k
    <3>1. objects'[j] = objects[j] /\ objects[j] \in Requests /\ objects[j] # r
      BY <1>1, <1>5, <2>2 DEF IInv, TypeOK, IdleOwnsNothing
    <3> QED
      BY <3>1 DEF IInv, PointersSound
  <2> QED
    BY <2>1, <2>2
<1>8. IdleOwnsNothing'
  BY <1>1, <1>5 DEF IInv, TypeOK, IdleOwnsNothing
<1>9. OpenUntilEffect' /\ ListInNamespace'
  BY <1>1, <1>3, <1>5 DEF IInv, OpenUntilEffect, ListInNamespace
<1>10. CellAllocated'
  <2> SUFFICES ASSUME NEW s \in Requests
               PROVE  /\ pc'[s] = "respond" => heap'[s] # Nil
                      /\ pc'[s] \in {"locked", "broadcast"} => result'[s] \in Results
                      /\ pc'[s] = "broadcast" => result'[s].out = "ok"
                      /\ (pc'[s] \in {"locked", "broadcast"} /\ result'[s].out = "ok"
                            /\ result'[s].op \in Writes) => heap'[s] # Nil
    BY DEF CellAllocated
  <2>1. CASE s = r
    BY <1>1, <1>2, <1>3, <2>1, NilIsNoSolution DEF Results, Reply
  <2>2. CASE s # r
    BY <1>1, <1>3, <2>2 DEF IInv, CellAllocated
  <2> QED
    BY <2>1, <2>2
<1> QED
  BY <1>6, <1>7, <1>8, <1>9, <1>10 DEF IInv

LEMMA CreateIInv ==
  ASSUME IInv, NEW r \in Requests, NEW k \in Keys, NEW spec \in SolutionNames,
         NEW phase \in Phases, Create(r, k, spec, phase)
  PROVE  IInv'
<1>1. CASE Fail(r, "Create", "AlreadyExists")
  BY <1>1, FailIInv DEF Operations, Outcomes
<1>2. CASE /\ heap' = [heap EXCEPT ![r] = Created(r, k, spec, phase)]
           /\ Store(r, k, Created(r, k, spec, phase), "Create")
  <2>1. /\ Created(r, k, spec, phase) \in Solution
        /\ Created(r, k, spec, phase).key = k
    BY CreatedType
  <2>2. /\ heap' \in [Requests -> Solution \cup {Nil}]
        /\ heap'[r] = Created(r, k, spec, phase)
        /\ \A s \in Requests : s # r => heap'[s] = heap[s]
    BY <1>2, <2>1 DEF IInv, TypeOK
  <2>3. "Create" \in Writes
    BY DEF Writes
  <2> QED
    BY <1>2, <2>1, <2>2, <2>3, StoreIInv
<1> QED
  BY <1>1, <1>2 DEF Create

LEMMA UpdateIInv ==
  ASSUME IInv, NEW r \in Requests, NEW k \in Keys, NEW spec \in SolutionNames,
         NEW phase \in Phases, Update(r, k, spec, phase)
  PROVE  IInv'
<1>1. CASE \E out \in {"NotFound", "Invalid"} : Fail(r, "Update", out)
  BY <1>1, FailIInv DEF Operations, Outcomes
<1>2. CASE /\ objects[k] # Nil
           /\ heap' = [heap EXCEPT ![r] = Updated(Existing(k), spec, phase)]
           /\ Store(r, k, Updated(Existing(k), spec, phase), "Update")
  <2>1. /\ Updated(Existing(k), spec, phase) \in Solution
        /\ Updated(Existing(k), spec, phase).key = k
    BY <1>2, ExistingType, UpdatedType
  <2>2. /\ heap' \in [Requests -> Solution \cup {Nil}]
        /\ heap'[r] = Updated(Existing(k), spec, phase)
        /\ \A s \in Requests : s # r => heap'[s] = heap[s]
    BY <1>2, <2>1 DEF IInv, TypeOK
  <2>3. "Update" \in Writes
    BY DEF Writes
  <2> QED
    BY <1>2, <2>1, <2>2, <2>3, StoreIInv
<1> QED
  BY <1>1, <1>2 DEF Update

LEMMA UpdateStatusIInv ==
  ASSUME IInv, NEW r \in Requests, NEW k \in Keys, NEW phase \in Phases,
         UpdateStatus(r, k, phase)
  PROVE  IInv'
<1>1. CASE \E out \in {"NotFound", "Invalid"} : Fail(r, "UpdateStatus", out)
  BY <1>1, FailIInv DEF Operations, Outcomes
<1>2. CASE /\ objects[k] # Nil
           /\ heap' = [heap EXCEPT ![objects[k]] = StatusUpdated(Existing(k), phase),
                                   ![r] = StatusUpdated(Existing(k), phase)]
           /\ Store(r, k, StatusUpdated(Existing(k), phase), "UpdateStatus")
  <2> DEFINE cp == StatusUpdated(Existing(k), phase)
  <2>1. cp \in Solution /\ cp.key = k
    BY <1>2, ExistingType, StatusUpdatedType
  <2>2. objects[k] \in Requests /\ heap[objects[k]].key = k
    BY <1>2, ExistingType DEF Existing
  <2> HIDE DEF cp
  <2>3. heap' = [heap EXCEPT ![objects[k]] = cp, ![r] = cp]
    BY <1>2 DEF cp
  <2>4. /\ heap' \in [Requests -> Solution \cup {Nil}]
        /\ heap'[r] = cp
        /\ heap'[objects[k]] = cp
        /\ \A s \in Requests : s # r /\ s # objects[k] => heap'[s] = heap[s]
    BY <2>1, <2>2, <2>3 DEF IInv, TypeOK
  <2>5. \A s \in Requests : s # r /\ heap[s] # Nil =>
            heap'[s] # Nil /\ heap'[s].key = heap[s].key
    BY <2>1, <2>2, <2>4, NilIsNoSolution
  <2>6. "UpdateStatus" \in Writes /\ Store(r, k, cp, "UpdateStatus")
    BY <1>2 DEF Writes, cp
  <2> QED
    BY <2>1, <2>4, <2>5, <2>6, StoreIInv
<1> QED
  BY <1>1, <1>2 DEF UpdateStatus

LEMMA DeleteIInv ==
  ASSUME IInv, NEW r \in Requests, NEW k \in Keys, Delete(r, k)
  PROVE  IInv'
<1>1. CASE \E out \in {"NotFound", "Invalid"} : Fail(r, "Delete", out)
  BY <1>1, FailIInv DEF Operations, Outcomes
<1>2. CASE /\ objects[k] # Nil
           /\ Lock(r)
           /\ objects' = [objects EXCEPT ![k] = Nil]
           /\ items' = [items EXCEPT ![r] = {Existing(k)}]
           /\ Answer(r, "Delete", "ok")
           /\ TakeEffect(r, {Existing(k)})
           /\ UNCHANGED <<heap, watchVars, response>>
  <2>1. Existing(k) \in Solution
    BY <1>2, ExistingType
  <2>2. /\ pc[r] = "idle" /\ mu' = r
        /\ pc' \in [Requests -> PCs] /\ pc'[r] = "locked"
        /\ \A s \in Requests : s # r => pc'[s] = pc[s]
    BY <1>2, GotoType DEF IInv, PCs, Lock
  <2>3. "Delete" \in Operations /\ "ok" \in Outcomes
    BY DEF Operations, Outcomes
  <2>4. /\ result' \in [Requests -> Results \cup {Nil}]
        /\ result'[r] = Reply("Delete", "ok")
        /\ \A s \in Requests : s # r => result'[s] = result[s]
    BY <1>2, <2>3, AnswerType DEF IInv
  <2>5. /\ effect' \in [Requests -> [at: Nat, objs: SUBSET Solution,
                                     after: SUBSET Requests, watched: SUBSET Watches]]
        /\ clock' \in Nat
    <3>1. {Existing(k)} \in SUBSET Solution
      BY <2>1
    <3> QED
      BY <1>2, <3>1, TakeEffectType DEF IInv
  <2>6. UNCHANGED <<heap, watchers, filter, stopped, sent, taken, response, since, missed>>
    BY <1>2 DEF watchVars
  <2>7. /\ objects' \in [Keys -> Requests \cup {Nil}]
        /\ \A j \in Keys : objects'[j] # Nil => objects'[j] = objects[j]
        /\ items' \in [Requests -> SUBSET Solution]
        /\ \A s \in Requests : s # r => items'[s] = items[s]
    BY <1>2, <2>1 DEF IInv, TypeOK
  <2>8. TypeOK'
    BY <2>2, <2>4, <2>5, <2>6, <2>7 DEF IInv, TypeOK
  <2>9. PointersSound' /\ IdleOwnsNothing'
    BY <2>2, <2>6, <2>7, NilIsNoSolution DEF IInv, PointersSound, IdleOwnsNothing
  <2>10. OpenUntilEffect' /\ ListInNamespace'
    BY <2>2, <2>4, <2>7 DEF IInv, OpenUntilEffect, ListInNamespace
  <2>11. CellAllocated'
    BY <2>2, <2>3, <2>4, <2>6 DEF IInv, CellAllocated, Results, Reply, Writes
  <2> QED
    BY <2>8, <2>9, <2>10, <2>11 DEF IInv
<1> QED
  BY <1>1, <1>2 DEF Delete

(* A request that moves on, with no effect on objects, cells and items.        *)
LEMMA MoveIInv ==
  ASSUME IInv, NEW r \in Requests, NEW label \in PCs \ {"idle", "locked", "collect"},
         Goto(r, label),
         mu' \in Requests \cup {Nil},
         result' \in [Requests -> Results \cup {Nil}],
         \A s \in Requests : s # r => result'[s] = result[s],
         label = "broadcast" => result' = result /\ pc[r] = "locked" /\ result[r].out = "ok",
         label = "respond" => heap[r] # Nil,
         sent' \in [Watches -> Seq(Event)],
         watchers' \subseteq Watches,
         missed' \in [Watches -> SUBSET (Requests \X Keys)],
         UNCHANGED <<objects, heap, filter, stopped, taken, since, items, response,
                     effect, clock>>
  PROVE  IInv'
<1>1. /\ pc' \in [Requests -> PCs] /\ pc'[r] = label
      /\ \A s \in Requests : s # r => pc'[s] = pc[s]
  BY GotoType DEF IInv
<1>2. TypeOK'
  BY <1>1 DEF IInv, TypeOK
<1>3. PointersSound' /\ IdleOwnsNothing'
  BY <1>1 DEF IInv, PointersSound, IdleOwnsNothing
<1>4. OpenUntilEffect' /\ ListInNamespace'
  BY <1>1 DEF IInv, OpenUntilEffect, ListInNamespace
<1>5. CellAllocated'
  BY <1>1 DEF IInv, CellAllocated
<1> QED
  BY <1>2, <1>3, <1>4, <1>5 DEF IInv

LEMMA GetIInv ==
  ASSUME IInv, NEW r \in Requests, NEW k \in Keys, Get(r, k)
  PROVE  IInv'
<1>1. PICK out \in {"NotFound", "ok"} : Answer(r, "Get", out)
  BY DEF Get
<1>2. "Get" \in Operations /\ out \in Outcomes
  BY DEF Operations, Outcomes
<1>3. /\ result' \in [Requests -> Results \cup {Nil}]
      /\ \A s \in Requests : s # r => result'[s] = result[s]
  BY <1>1, <1>2, AnswerType DEF IInv
<1>4. /\ Goto(r, "done")
      /\ UNCHANGED <<mu, objects, heap, watchers, filter, stopped, sent, taken,
                     since, missed, items, response, effect, clock>>
  BY DEF Get, objectVars, watchVars, effectVars
<1> QED
  BY <1>3, <1>4, MoveIInv DEF PCs, IInv, TypeOK

LEMMA CreateInvalidIInv ==
  ASSUME IInv, NEW r \in Requests, CreateInvalid(r)
  PROVE  IInv'
<1>1. "Create" \in Operations /\ "Invalid" \in Outcomes
  BY DEF Operations, Outcomes
<1>2. /\ result' \in [Requests -> Results \cup {Nil}]
      /\ \A s \in Requests : s # r => result'[s] = result[s]
  BY <1>1, AnswerType DEF IInv, CreateInvalid
<1>3. /\ Goto(r, "done")
      /\ UNCHANGED <<mu, objects, heap, watchers, filter, stopped, sent, taken,
                     since, missed, items, response, effect, clock>>
  BY DEF CreateInvalid, objectVars, watchVars, effectVars
<1> QED
  BY <1>2, <1>3, MoveIInv DEF PCs, IInv, TypeOK

LEMMA UnlockIInv ==
  ASSUME IInv, NEW r \in Requests, Unlock(r)
  PROVE  IInv'
<1>1. /\ pc[r] = "locked" /\ mu' = Nil
      /\ UNCHANGED <<objects, heap, watchers, filter, stopped, sent, taken,
                     since, missed, result, items, response, effect, clock>>
  BY DEF Unlock, objectVars, watchVars, effectVars
<1>2. CASE result[r].out = "ok"
  <2>1. Goto(r, "broadcast")
    BY <1>2 DEF Unlock
  <2> QED
    BY <1>1, <1>2, <2>1, MoveIInv DEF PCs, IInv, TypeOK
<1>3. CASE result[r].out # "ok"
  <2>1. Goto(r, "done")
    BY <1>3 DEF Unlock
  <2> QED
    BY <1>1, <2>1, MoveIInv DEF PCs, IInv, TypeOK
<1> QED
  BY <1>2, <1>3

LEMMA RespondIInv ==
  ASSUME IInv, NEW r \in Requests, Respond(r) \/ RespondDeleted(r)
  PROVE  IInv'
<1>1. /\ Goto(r, "done")
      /\ UNCHANGED <<mu, objects, heap, watchers, filter, stopped, sent, taken,
                     since, missed, result, items, response, effect, clock>>
  BY DEF Respond, RespondDeleted, objectVars, watchVars, effectVars
<1> QED
  BY <1>1, MoveIInv DEF PCs, IInv, TypeOK

LEMMA AnnounceIInv ==
  ASSUME IInv, NEW r \in Requests, Announce(r)
  PROVE  IInv'
<1>1. PICK type \in {"ADDED", "MODIFIED"} : broadcast(r, type, heap[r])
  BY DEF Announce
<1>2. heap[r] # Nil /\ heap[r] \in Solution
  BY DEF Announce, IInv, CellAllocated, TypeOK, Writes
<1>3. /\ watchers' \subseteq Watches
      /\ sent' \in [Watches -> Seq(Event)]
      /\ missed' \in [Watches -> SUBSET (Requests \X Keys)]
  BY <1>1, <1>2, BroadcastType DEF IInv, EventTypes
<1>4. UNCHANGED <<mu, objects, heap, filter, stopped, taken, since, result, items,
                  response, effect, clock>>
  BY <1>1 DEF Announce, broadcast, objectVars, effectVars
<1>5. Goto(r, "respond")
  BY DEF Announce
<1> QED
  BY <1>2, <1>3, <1>4, <1>5, MoveIInv DEF PCs, IInv, TypeOK

(* A request that stays where it is, or nobody at all, changes what it has     *)
(* left to announce, what it has copied, or a watcher.                         *)
LEMMA StayIInv ==
  ASSUME IInv,
         items' \in [Requests -> SUBSET Solution],
         \A r \in Requests : pc[r] = "collect" => items'[r] = items[r],
         response' \in [Requests -> [rv: Nat, phase: Phases \cup {Nil}]],
         watchers' \subseteq Watches,
         filter' \in [Watches -> Filters \cup {Nil}],
         stopped' \subseteq Watches,
         sent' \in [Watches -> Seq(Event)],
         taken' \in [Watches -> Nat],
         since' \in [Watches -> SUBSET Requests],
         missed' \in [Watches -> SUBSET (Requests \X Keys)],
         UNCHANGED <<mu, objects, heap, pc, result, effect, clock>>
  PROVE  IInv'
<1>1. TypeOK'
  BY DEF IInv, TypeOK
<1>2. PointersSound' /\ IdleOwnsNothing'
  BY DEF IInv, PointersSound, IdleOwnsNothing
<1>3. OpenUntilEffect' /\ ListInNamespace'
  BY DEF IInv, OpenUntilEffect, ListInNamespace
<1>4. CellAllocated'
  BY DEF IInv, CellAllocated
<1> QED
  BY <1>1, <1>2, <1>3, <1>4 DEF IInv

LEMMA AnnounceDeletedIInv ==
  ASSUME IInv, NEW r \in Requests, AnnounceDeleted(r)
  PROVE  IInv'
<1>1. PICK obj \in items[r] : /\ broadcast(r, "DELETED", obj)
                              /\ items' = [items EXCEPT ![r] = @ \ {obj}]
  BY DEF AnnounceDeleted
<1>2. obj \in Solution /\ "DELETED" \in EventTypes
  BY DEF IInv, TypeOK, EventTypes
<1>3. /\ watchers' \subseteq Watches
      /\ sent' \in [Watches -> Seq(Event)]
      /\ missed' \in [Watches -> SUBSET (Requests \X Keys)]
  BY <1>1, <1>2, BroadcastType DEF IInv
<1>4. /\ pc[r] = "broadcast"
      /\ UNCHANGED <<mu, objects, heap, filter, stopped, taken, since, pc, result,
                     response, effect, clock>>
  BY <1>1 DEF AnnounceDeleted, broadcast, objectVars, effectVars
<1>5. /\ items' \in [Requests -> SUBSET Solution]
      /\ \A s \in Requests : pc[s] = "collect" => items'[s] = items[s]
  BY <1>1, <1>4 DEF IInv, TypeOK
<1> QED
  BY <1>3, <1>4, <1>5, StayIInv DEF IInv, TypeOK

LEMMA CopyIInv ==
  ASSUME IInv, NEW r \in Requests, CopyVersion(r) \/ CopyStatus(r)
  PROVE  IInv'
<1>1. heap[r] \in Solution
  BY DEF CopyVersion, CopyStatus, IInv, CellAllocated, TypeOK
<1>2. heap[r].rv \in Nat /\ heap[r].phase \in Phases
  BY <1>1 DEF Solution, Version
<1>3. response' \in [Requests -> [rv: Nat, phase: Phases \cup {Nil}]]
  <2> DEFINE ResponseCopy == [rv: Nat, phase: Phases \cup {Nil}]
  <2>1. response \in [Requests -> ResponseCopy]
    BY DEF IInv, TypeOK
  <2>2. [response[r] EXCEPT !.rv = heap[r].rv] \in ResponseCopy
    BY <1>2, <2>1
  <2>3. [response[r] EXCEPT !.phase = heap[r].phase] \in ResponseCopy
    BY <1>2, <2>1
  <2>4. \E copy \in ResponseCopy : response' = [response EXCEPT ![r] = copy]
    <3>1. CASE CopyVersion(r)
      BY <2>2, <3>1 DEF CopyVersion
    <3>2. CASE CopyStatus(r)
      BY <2>3, <3>2 DEF CopyStatus
    <3> QED
      BY <3>1, <3>2
  <2> QED
    BY <2>1, <2>4
<1>4. UNCHANGED <<mu, objects, heap, watchers, filter, stopped, sent, taken, since,
                  missed, pc, result, items, effect, clock>>
  BY DEF CopyVersion, CopyStatus, objectVars, watchVars, effectVars
<1> QED
  BY <1>3, <1>4, StayIInv DEF IInv, TypeOK

LEMMA WatcherIInv ==
  ASSUME IInv, NEW w \in Watches,
         Stop(w) \/ Receive(w) \/ \E f \in Filters : Watch(w, f)
  PROVE  IInv'
<1>1. UNCHANGED <<mu, objects, heap, pc, result, items, response, effect, clock>>
  BY DEF Stop, Receive, Watch, objectVars, requestVars, effectVars
<1>2. CASE Stop(w)
  BY <1>1, <1>2, StayIInv DEF Stop, IInv, TypeOK
<1>3. CASE Receive(w)
  <2>1. taken' \in [Watches -> Nat]
    BY <1>3 DEF Receive, IInv, TypeOK
  <2> QED
    BY <1>1, <1>3, <2>1, StayIInv DEF Receive, IInv, TypeOK
<1>4. CASE \E f \in Filters : Watch(w, f)
  BY <1>1, <1>4, StayIInv DEF Watch, Returned, IInv, TypeOK
<1> QED
  BY <1>2, <1>3, <1>4

(* Whatever the selector, a list of one namespace holds objects of that        *)
(* namespace, and the map points to each of them.                              *)
LEMMA ListedFacts ==
  ASSUME IInv, NEW ns \in Namespaces, NEW sel, NEW o \in MemoryList(Stored, ns, sel)
  PROVE  /\ o \in Solution
         /\ NamespaceOf(o.key) = ns
         /\ \E k \in Keys : objects[k] # Nil /\ o = Existing(k)
<1>1. PICK k \in Keys : Stored[k] # Nil /\ ns \in {All, NamespaceOf(k)} /\ o = Stored[k]
  BY DEF MemoryList, Objects
<1>2. objects[k] # Nil /\ o = Existing(k)
  BY <1>1 DEF Stored
<1>3. NamespaceOf(k) = ns
  BY <1>1, AllNamespacesAssumption DEF AllNamespacesAssumption
<1> QED
  BY <1>2, <1>3, ExistingType

LEMMA DeleteCollectionIInv ==
  ASSUME IInv, NEW r \in Requests, NEW ns \in Namespaces, NEW sel,
         DeleteCollection(r, ns, sel)
  PROVE  IInv'
<1>1. MemoryList(Stored, ns, sel) \in SUBSET Solution
  BY ListedFacts
<1>2. \A o \in MemoryList(Stored, ns, sel) : NamespaceOf(o.key) = ns
  BY ListedFacts
<1>3. /\ pc[r] = "idle"
      /\ pc' \in [Requests -> PCs] /\ pc'[r] = "collect"
      /\ \A s \in Requests : s # r => pc'[s] = pc[s]
  BY GotoType DEF DeleteCollection, IInv, PCs
<1>4. /\ items' \in [Requests -> SUBSET Solution]
      /\ items'[r] = MemoryList(Stored, ns, sel)
      /\ \A s \in Requests : s # r => items'[s] = items[s]
  BY <1>1 DEF DeleteCollection, IInv, TypeOK
<1>5. UNCHANGED <<mu, objects, heap, watchers, filter, stopped, sent, taken, since,
                  missed, result, response, effect, clock>>
  BY DEF DeleteCollection, objectVars, watchVars, effectVars
<1>6. TypeOK'
  BY <1>3, <1>4, <1>5 DEF IInv, TypeOK
<1>7. PointersSound' /\ IdleOwnsNothing' /\ CellAllocated'
  BY <1>3, <1>5 DEF IInv, PointersSound, IdleOwnsNothing, CellAllocated
<1>8. OpenUntilEffect'
  BY <1>3, <1>5 DEF IInv, OpenUntilEffect
<1>9. ListInNamespace'
  BY <1>2, <1>3, <1>4 DEF IInv, ListInNamespace
<1> QED
  BY <1>6, <1>7, <1>8, <1>9 DEF IInv

LEMMA DeleteListedIInv ==
  ASSUME IInv, NEW r \in Requests, DeleteListed(r)
  PROVE  IInv'
<1>1. PICK valid \in SUBSET items[r] :
        LET gone == {o.key : o \in valid} IN
        /\ objects' = [k \in Keys |-> IF k \in gone THEN Nil ELSE objects[k]]
        /\ TakeEffect(r, {Existing(k) : k \in {k \in gone : objects[k] # Nil}})
        /\ \/ Answer(r, "DeleteCollection", "ok") /\ UNCHANGED items
           \/ /\ Answer(r, "DeleteCollection", "Invalid")
              /\ items' = [items EXCEPT ![r] = {}]
  BY DEF DeleteListed
<1> DEFINE gone == {o.key : o \in valid}
<1>2. gone \subseteq Keys
  BY DEF IInv, TypeOK, Solution
<1>3. {Existing(k) : k \in {k \in gone : objects[k] # Nil}} \in SUBSET Solution
  BY <1>2, ExistingType
<1>4. /\ effect' \in [Requests -> [at: Nat, objs: SUBSET Solution,
                                   after: SUBSET Requests, watched: SUBSET Watches]]
      /\ clock' \in Nat
  BY <1>1, <1>3, TakeEffectType DEF IInv
<1>5. PICK out \in {"ok", "Invalid"} : Answer(r, "DeleteCollection", out)
  BY <1>1
<1>6. "DeleteCollection" \in Operations /\ out \in Outcomes
  BY DEF Operations, Outcomes
<1>7. /\ result' \in [Requests -> Results \cup {Nil}]
      /\ result'[r] = Reply("DeleteCollection", out)
      /\ \A s \in Requests : s # r => result'[s] = result[s]
  BY <1>5, <1>6, AnswerType DEF IInv
<1>8. /\ pc[r] = "collect" /\ mu' = r
      /\ pc' \in [Requests -> PCs] /\ pc'[r] = "locked"
      /\ \A s \in Requests : s # r => pc'[s] = pc[s]
  BY GotoType DEF DeleteListed, IInv, PCs
<1>9. /\ items' \in [Requests -> SUBSET Solution]
      /\ \A s \in Requests : s # r => items'[s] = items[s]
  BY <1>1 DEF IInv, TypeOK
<1>10. UNCHANGED <<heap, watchers, filter, stopped, sent, taken, since, missed, response>>
  BY DEF DeleteListed, watchVars
<1>11. /\ objects' \in [Keys -> Requests \cup {Nil}]
       /\ \A k \in Keys : objects'[k] # Nil => objects'[k] = objects[k]
  BY <1>1 DEF IInv, TypeOK
<1>12. TypeOK'
  BY <1>4, <1>7, <1>8, <1>9, <1>10, <1>11 DEF IInv, TypeOK
<1>13. PointersSound' /\ IdleOwnsNothing'
  BY <1>8, <1>10, <1>11, NilIsNoSolution DEF IInv, PointersSound, IdleOwnsNothing
<1>14. OpenUntilEffect' /\ ListInNamespace'
  BY <1>7, <1>8, <1>9 DEF IInv, OpenUntilEffect, ListInNamespace
<1>15. CellAllocated'
  BY <1>6, <1>7, <1>8, <1>10 DEF IInv, CellAllocated, Results, Reply, Writes
<1> QED
  BY <1>12, <1>13, <1>14, <1>15 DEF IInv

LEMMA NextIInv == IInv /\ [Next]_vars => IInv'
<1> SUFFICES ASSUME IInv, [Next]_vars PROVE IInv'
  OBVIOUS
<1>1. ASSUME NEW r \in Requests, Start(r) PROVE IInv'
  BY <1>1, CreateInvalidIInv, GetIInv, DeleteIInv, UpdateStatusIInv, CreateIInv,
     UpdateIInv, DeleteCollectionIInv DEF Start
<1>2. ASSUME NEW r \in Requests, Continue(r) PROVE IInv'
  BY <1>2, UnlockIInv, DeleteListedIInv, AnnounceIInv, AnnounceDeletedIInv,
     CopyIInv, RespondIInv DEF Continue
<1>3. CASE UNCHANGED vars
  BY <1>3, StayIInv
     DEF vars, objectVars, watchVars, requestVars, effectVars, IInv, TypeOK
<1> QED
  BY <1>1, <1>2, <1>3, WatcherIInv DEF Next, AllServed

LEMMA Invariance == Spec => []IInv
  BY InitIInv, NextIInv, PTL DEF Spec

--------------------------------------------------------------------------------
(* Every variable keeps its type: in particular the map never points to a cell *)
(* that was not allocated, and no response or event is built from one.         *)
THEOREM TypeCorrect == Spec => []TypeOK
<1>1. IInv => TypeOK
  BY DEF IInv
<1> QED
  BY <1>1, Invariance, PTL

--------------------------------------------------------------------------------
(* Implementing the abstract store: what each request does to the map of       *)
(* values.                                                                     *)

LEMMA StoredValue ==
  ASSUME IInv, NEW k \in Keys
  PROVE  /\ objects[k] = Nil <=> Stored[k] = Nil
         /\ objects[k] # Nil => Stored[k] = Existing(k)
  BY ExistingType, NilIsNoSolution DEF Stored

(* Nothing but a step on objects or cells changes the map.                     *)
LEMMA StoredUnchanged ==
  ASSUME UNCHANGED <<objects, heap>>
  PROVE  UNCHANGED Stored
  BY DEF Stored, Existing

(* r points k to its own cell, which now holds cp, and writes to no other cell *)
(* but possibly the one found under k.                                         *)
PointsTo(r, k, cp) ==
    /\ pc[r] = "idle"
    /\ objects' = [objects EXCEPT ![k] = r]
    /\ heap'[r] = cp
    /\ \A s \in Requests : s # r /\ s # objects[k] => heap'[s] = heap[s]

(* A write through the pointer found under k shows under no other key.         *)
LEMMA StoredPut ==
  ASSUME IInv, NEW r \in Requests, NEW k \in Keys, NEW cp \in Solution,
         PointsTo(r, k, cp)
  PROVE  Backend!Put(k, cp)
<1> USE DEF PointsTo
<1>1. ASSUME NEW j \in Keys
      PROVE  Stored'[j] = IF j = k THEN cp ELSE Stored[j]
  <2>1. CASE j = k
    <3>1. objects'[j] = r /\ r # Nil
      BY <2>1, NilIsNoSolution DEF IInv, TypeOK
    <3> QED
      BY <2>1, <3>1 DEF Stored, Existing
  <2>2. CASE j # k
    <3>1. objects'[j] = objects[j] /\ objects[j] # r
      BY <2>2 DEF IInv, TypeOK, IdleOwnsNothing
    <3>2. CASE objects[j] = Nil
      BY <2>2, <3>1, <3>2 DEF Stored
    <3>3. CASE objects[j] # Nil
      <4>1. objects[j] \in Requests /\ objects[j] # objects[k]
        <5>1. heap[objects[j]].key = j /\ (objects[k] # Nil => heap[objects[k]].key = k)
          BY <3>3 DEF IInv, PointersSound
        <5> QED
          BY <2>2, <3>3, <5>1 DEF IInv, TypeOK
      <4>2. heap'[objects[j]] = heap[objects[j]]
        BY <3>1, <4>1
      <4> QED
        BY <2>2, <3>1, <3>3, <4>2 DEF Stored, Existing
    <3> QED
      BY <3>2, <3>3
  <2> QED
    BY <2>1, <2>2
<1>2. Stored' = [j \in Keys |-> Stored'[j]] /\ Stored = [j \in Keys |-> Stored[j]]
  BY DEF Stored
<1> QED
  BY <1>1, <1>2 DEF Backend!Put

LEMMA StoredRemoved ==
  ASSUME IInv, NEW gone \in SUBSET Keys,
         objects' = [k \in Keys |-> IF k \in gone THEN Nil ELSE objects[k]],
         UNCHANGED heap
  PROVE  Stored' = [k \in Keys |-> IF k \in gone THEN Nil ELSE Stored[k]]
  BY DEF Stored, Existing

LEMMA RequestOpen ==
  ASSUME IInv, NEW r \in Requests, pc[r] \in {"idle", "collect"},
         NEW op, NEW out, Answer(r, op, out)
  PROVE  Backend!Answer(r, op, out)
  BY DEF IInv, OpenUntilEffect, Answer, Reply, Backend!Answer, Backend!Reply

LEMMA FailStep ==
  ASSUME IInv, NEW r \in Requests, NEW op, NEW out, Fail(r, op, out)
  PROVE  Backend!Answer(r, op, out) /\ UNCHANGED Stored
  BY RequestOpen, StoredUnchanged DEF Fail, Lock, objectVars

LEMMA CreateStep ==
  ASSUME IInv, NEW r \in Requests, NEW k \in Keys, NEW spec \in SolutionNames,
         NEW phase \in Phases, Create(r, k, spec, phase)
  PROVE  Backend!Create(r, k) \/ Backend!Conflict(r, k)
<1>1. CASE objects[k] # Nil /\ Fail(r, "Create", "AlreadyExists")
  BY <1>1, FailStep, StoredValue DEF Backend!Conflict
<1>2. CASE /\ objects[k] = Nil
           /\ heap' = [heap EXCEPT ![r] = Created(r, k, spec, phase)]
           /\ Store(r, k, Created(r, k, spec, phase), "Create")
  <2> DEFINE cp == Created(r, k, spec, phase)
  <2>1. cp \in Solution
    BY CreatedType
  <2>2. pc[r] = "idle" /\ objects' = [objects EXCEPT ![k] = r]
    BY <1>2 DEF Store, Lock
  <2>3. PointsTo(r, k, cp)
    BY <1>2, <2>2 DEF PointsTo, IInv, TypeOK
  <2>4. Backend!Put(k, cp)
    BY <2>1, <2>3, StoredPut
  <2>5. Backend!Answer(r, "Create", "ok")
    BY <1>2, <2>2, RequestOpen DEF Store
  <2>6. cp = [key |-> k, born |-> r, rv |-> 1, spec |-> spec, phase |-> phase]
    BY DEF Created
  <2> QED
    BY <1>2, <2>4, <2>5, <2>6, StoredValue DEF Backend!Create
<1> QED
  BY <1>1, <1>2 DEF Create

LEMMA UpdateStep ==
  ASSUME IInv, NEW r \in Requests, NEW k \in Keys, NEW spec \in SolutionNames,
         NEW phase \in Phases, Update(r, k, spec, phase)
  PROVE  Backend!Update(r, k) \/ Backend!Miss(r, k) \/ Backend!Refuse(r)
<1>1. CASE objects[k] = Nil /\ Fail(r, "Update", "NotFound")
  BY <1>1, FailStep, StoredValue DEF Backend!Miss
<1>2. CASE Fail(r, "Update", "Invalid")
  BY <1>2, FailStep DEF Backend!Refuse
<1>3. CASE /\ objects[k] # Nil
           /\ heap' = [heap EXCEPT ![r] = Updated(Existing(k), spec, phase)]
           /\ Store(r, k, Updated(Existing(k), spec, phase), "Update")
  <2> DEFINE cp == Updated(Existing(k), spec, phase)
  <2>1. Existing(k) \in Solution /\ cp \in Solution
    BY <1>3, ExistingType, UpdatedType
  <2>2. pc[r] = "idle" /\ objects' = [objects EXCEPT ![k] = r]
    BY <1>3 DEF Store, Lock
  <2>3. PointsTo(r, k, cp)
    BY <1>3, <2>2 DEF PointsTo, IInv, TypeOK
  <2>4. Backend!Put(k, cp)
    BY <2>1, <2>3, StoredPut
  <2>5. Backend!Answer(r, "Update", "ok")
    BY <1>3, <2>2, RequestOpen DEF Store
  <2>6. cp = [Existing(k) EXCEPT !.rv = @ + 1, !.spec = spec, !.phase = phase]
    BY DEF Updated, NextVersion
  <2>7. Stored[k] # Nil /\ Stored[k] = Existing(k)
    BY <1>3, StoredValue
  <2>8. Backend!Put(k, [Stored[k] EXCEPT !.rv = @ + 1, !.spec = spec, !.phase = phase])
    BY <2>4, <2>6, <2>7, Zenon
  <2> QED
    BY <2>5, <2>7, <2>8, Zenon DEF Backend!Update
<1> QED
  BY <1>1, <1>2, <1>3 DEF Update

LEMMA UpdateStatusStep ==
  ASSUME IInv, NEW r \in Requests, NEW k \in Keys, NEW phase \in Phases,
         UpdateStatus(r, k, phase)
  PROVE  Backend!UpdateStatus(r, k) \/ Backend!Miss(r, k) \/ Backend!Refuse(r)
<1>1. CASE objects[k] = Nil /\ Fail(r, "UpdateStatus", "NotFound")
  BY <1>1, FailStep, StoredValue DEF Backend!Miss
<1>2. CASE Fail(r, "UpdateStatus", "Invalid")
  BY <1>2, FailStep DEF Backend!Refuse
<1>3. CASE /\ objects[k] # Nil
           /\ heap' = [heap EXCEPT ![objects[k]] = StatusUpdated(Existing(k), phase),
                                   ![r] = StatusUpdated(Existing(k), phase)]
           /\ Store(r, k, StatusUpdated(Existing(k), phase), "UpdateStatus")
  <2> DEFINE cp == StatusUpdated(Existing(k), phase)
  <2>1. Existing(k) \in Solution /\ cp \in Solution
    BY <1>3, ExistingType, StatusUpdatedType
  <2>2. pc[r] = "idle" /\ objects' = [objects EXCEPT ![k] = r]
    BY <1>3 DEF Store, Lock
  <2>3. PointsTo(r, k, cp)
    BY <1>3, <2>2 DEF PointsTo, IInv, TypeOK
  <2>4. Backend!Put(k, cp)
    BY <2>1, <2>3, StoredPut
  <2>5. Backend!Answer(r, "UpdateStatus", "ok")
    BY <1>3, <2>2, RequestOpen DEF Store
  <2>6. cp = [Existing(k) EXCEPT !.rv = @ + 1, !.phase = phase]
    BY DEF StatusUpdated, NextVersion
  <2>7. Stored[k] # Nil /\ Stored[k] = Existing(k)
    BY <1>3, StoredValue
  <2>8. Backend!Put(k, [Stored[k] EXCEPT !.rv = @ + 1, !.phase = phase])
    BY <2>4, <2>6, <2>7, Zenon
  <2> QED
    BY <2>5, <2>7, <2>8, Zenon DEF Backend!UpdateStatus
<1> QED
  BY <1>1, <1>2, <1>3 DEF UpdateStatus

LEMMA DeleteStep ==
  ASSUME IInv, NEW r \in Requests, NEW k \in Keys, Delete(r, k)
  PROVE  Backend!Delete(r, k) \/ Backend!Miss(r, k) \/ Backend!Refuse(r)
<1>1. CASE objects[k] = Nil /\ Fail(r, "Delete", "NotFound")
  BY <1>1, FailStep, StoredValue DEF Backend!Miss
<1>2. CASE Fail(r, "Delete", "Invalid")
  BY <1>2, FailStep DEF Backend!Refuse
<1>3. CASE /\ objects[k] # Nil
           /\ Lock(r)
           /\ objects' = [objects EXCEPT ![k] = Nil]
           /\ Answer(r, "Delete", "ok")
           /\ UNCHANGED heap
  <2>1. objects' = [j \in Keys |-> IF j \in {k} THEN Nil ELSE objects[j]]
    BY <1>3 DEF IInv, TypeOK
  <2>2. Stored' = [j \in Keys |-> IF j \in {k} THEN Nil ELSE Stored[j]]
    <3> DEFINE gone == {k}
    <3>1. gone \in SUBSET Keys
      OBVIOUS
    <3>2. objects' = [j \in Keys |-> IF j \in gone THEN Nil ELSE objects[j]]
      BY <2>1
    <3> HIDE DEF gone
    <3>3. Stored' = [j \in Keys |-> IF j \in gone THEN Nil ELSE Stored[j]]
      BY <1>3, <3>1, <3>2, StoredRemoved
    <3> QED
      BY <3>3 DEF gone
  <2>3. Stored' = [Stored EXCEPT ![k] = Nil]
    BY <2>2 DEF Stored
  <2>4. Backend!Answer(r, "Delete", "ok")
    BY <1>3, RequestOpen DEF Lock
  <2> QED
    BY <1>3, <2>3, <2>4, StoredValue DEF Backend!Delete, Backend!Put
<1> QED
  BY <1>1, <1>2, <1>3 DEF Delete

LEMMA DeleteListedStep ==
  ASSUME IInv, NEW r \in Requests, DeleteListed(r)
  PROVE  \E ns \in Namespaces : Backend!DeleteCollection(r, ns)
<1>1. PICK ns \in Namespaces : \A o \in items[r] : NamespaceOf(o.key) = ns
  BY DEF DeleteListed, IInv, ListInNamespace
<1>2. PICK gone : /\ \E valid \in SUBSET items[r] : gone = {o.key : o \in valid}
                  /\ objects' = [k \in Keys |-> IF k \in gone THEN Nil ELSE objects[k]]
  BY DEF DeleteListed
<1>3. PICK out \in {"ok", "Invalid"} : Answer(r, "DeleteCollection", out)
  BY DEF DeleteListed
<1>4. gone \in SUBSET Keys /\ \A k \in gone : NamespaceOf(k) = ns
  BY <1>1, <1>2 DEF IInv, TypeOK, Solution
<1>5. Stored' = [k \in Keys |-> IF k \in gone THEN Nil ELSE Stored[k]]
  BY <1>2, <1>4, StoredRemoved DEF DeleteListed
<1>6. Backend!Answer(r, "DeleteCollection", out)
  BY <1>3, RequestOpen DEF DeleteListed
<1>7. gone \in SUBSET {k \in Backend!Keys : Backend!NamespaceOf(k) = ns}
  BY <1>4 DEF Keys, NamespaceOf, Backend!Keys, Backend!NamespaceOf
<1>8. Stored' = [k \in Backend!Keys |-> IF k \in gone THEN Nil ELSE Stored[k]]
  BY <1>5 DEF Keys, Backend!Keys
<1> QED
  BY <1>6, <1>7, <1>8 DEF Backend!DeleteCollection

LEMMA GetStep ==
  ASSUME IInv, NEW r \in Requests, NEW k \in Keys, Get(r, k)
  PROVE  Backend!Get(r, k) \/ Backend!Miss(r, k)
<1>1. UNCHANGED Stored
  BY StoredUnchanged DEF Get, objectVars
<1>2. CASE objects[k] = Nil
  BY <1>1, <1>2, RequestOpen, StoredValue DEF Get, Backend!Miss
<1>3. CASE objects[k] # Nil
  BY <1>1, <1>3, RequestOpen, StoredValue DEF Get, Backend!Get
<1> QED
  BY <1>2, <1>3

(* The map of pointers implements the atomic map of values: no interleaving of *)
(* requests, in-place status updates and late copies can show a client a       *)
(* history the abstract store does not have.                                   *)
THEOREM StoreImplemented == Spec => ImplementsStore
<1>1. Init => Backend!Init
  BY DEF Init, Stored, Backend!Init, Keys, Backend!Keys
<1>2. ASSUME IInv, [Next]_vars PROVE [Backend!Next]_Backend!vars
  <2>1. ASSUME NEW r \in Requests, Start(r) PROVE [Backend!Next]_Backend!vars
    <3>1. CASE CreateInvalid(r)
      <4>1. UNCHANGED Stored
        BY <3>1, StoredUnchanged DEF CreateInvalid, objectVars
      <4> QED
        BY <1>2, <3>1, <4>1, RequestOpen DEF CreateInvalid, Backend!Refuse, Backend!Next
    <3>2. ASSUME NEW k \in Keys,
                 \/ Get(r, k) \/ Delete(r, k)
                 \/ \E phase \in Phases : UpdateStatus(r, k, phase)
                 \/ \E spec \in SolutionNames, phase \in Phases :
                       Create(r, k, spec, phase) \/ Update(r, k, spec, phase)
          PROVE  Backend!Next
      <4>1. k \in Backend!Keys
        BY DEF Keys, Backend!Keys
      <4> QED
        BY <1>2, <3>2, <4>1, GetStep, DeleteStep, UpdateStatusStep, CreateStep,
           UpdateStep DEF Backend!Next
    <3>3. CASE \E ns \in Namespaces, sel \in Selectors : DeleteCollection(r, ns, sel)
      BY <3>3, StoredUnchanged DEF DeleteCollection, objectVars, Backend!vars
    <3> QED
      BY <2>1, <3>1, <3>2, <3>3 DEF Start
  <2>2. ASSUME NEW r \in Requests, Continue(r) PROVE [Backend!Next]_Backend!vars
    <3>1. CASE DeleteListed(r)
      BY <1>2, <3>1, DeleteListedStep DEF Backend!Next
    <3>2. CASE ~DeleteListed(r)
      <4>1. UNCHANGED <<objects, heap, result>>
        BY <2>2, <3>2
           DEF Continue, Unlock, Announce, AnnounceDeleted, RespondDeleted, CopyVersion,
               CopyStatus, Respond, broadcast, objectVars
      <4> QED
        BY <4>1, StoredUnchanged DEF Backend!vars
    <3> QED
      BY <3>1, <3>2
  <2>3. ASSUME NEW w \in Watches,
               Stop(w) \/ Receive(w) \/ \E f \in Filters : Watch(w, f)
        PROVE  UNCHANGED Backend!vars
    BY <2>3, StoredUnchanged DEF Stop, Receive, Watch, objectVars, requestVars, Backend!vars
  <2>4. CASE UNCHANGED vars
    BY <2>4, StoredUnchanged DEF vars, objectVars, requestVars, Backend!vars
  <2> QED
    BY <1>2, <2>1, <2>2, <2>3, <2>4 DEF Next, AllServed
<1> QED
  BY <1>1, <1>2, Invariance, PTL DEF Spec, Backend!Spec, ImplementsStore

--------------------------------------------------------------------------------
(* The order of events.  Returned, announced: a request that has come so far   *)
(* never goes back.                                                            *)
Announcing == {"broadcast", "respond", "done"}

EventsAnnounced ==
    \A w \in Watches : \A i \in DOMAIN sent[w] : pc[sent[w][i].by] \in Announcing

HistoryReturned ==
    /\ \A r \in Requests : effect[r].after \subseteq Returned
    /\ \A w \in Watches : since[w] \subseteq Returned

UnwatchedSentNothing ==
    \A w \in Watches : /\ filter[w] = Nil => sent[w] = <<>>
                       /\ w \in watchers => filter[w] # Nil

OrderInv ==
    EventsAnnounced /\ HistoryReturned /\ UnwatchedSentNothing /\ NoReplay /\ RealTimeOrder

(* What a step may do to the variables the order of events depends on.         *)
Forward ==
    /\ Returned \subseteq Returned'
    /\ \A r \in Requests : pc[r] \in Announcing => pc'[r] \in Announcing

(* An event is new, and then by a request that is announcing right now.        *)
NewEvent(w, i) ==
    /\ i \notin DOMAIN sent[w]
    /\ i = Len(sent[w]) + 1
    /\ w \in watchers
    /\ pc[sent'[w][i].by] = "broadcast"
    /\ pc'[sent'[w][i].by] \in Announcing

EventsAppended ==
    \A w \in Watches : \A i \in DOMAIN sent'[w] :
        \/ i \in DOMAIN sent[w] /\ sent'[w][i] = sent[w][i]
        \/ NewEvent(w, i)

EffectsOnce ==
    \A r \in Requests :
        \/ effect'[r] = effect[r]
        \/ pc[r] \in {"idle", "collect"} /\ effect'[r].after = Returned

WatchOnce ==
    \A w \in Watches :
        \/ since'[w] = since[w] /\ filter'[w] = filter[w]
        \/ /\ filter[w] = Nil /\ filter'[w] # Nil
           /\ since'[w] = Returned /\ sent'[w] = sent[w]

RegisteredOnce ==
    \A w \in watchers' : w \in watchers \/ filter'[w] # Nil

LEMMA BroadcastAppends ==
  ASSUME IInv, NEW r \in Requests, NEW type \in EventTypes, NEW obj \in Solution,
         pc[r] = "broadcast", pc'[r] \in Announcing, broadcast(r, type, obj)
  PROVE  EventsAppended
<1> DEFINE event == [type |-> type, by |-> r, obj |-> obj]
<1>1. event \in Event /\ event.by = r
  BY DEF Event
<1> HIDE DEF event
<1> SUFFICES ASSUME NEW w \in Watches, NEW i \in DOMAIN sent'[w]
             PROVE  \/ i \in DOMAIN sent[w] /\ sent'[w][i] = sent[w][i]
                    \/ NewEvent(w, i)
  BY DEF EventsAppended
<1>2. sent[w] \in Seq(Event)
  BY DEF IInv, TypeOK
<1>3. sent'[w] = sent[w] \/ (w \in watchers /\ sent'[w] = Append(sent[w], event))
  BY DEF broadcast, event
<1>4. CASE sent'[w] = sent[w]
  BY <1>4
<1>5. CASE w \in watchers /\ sent'[w] = Append(sent[w], event)
  <2>1. DOMAIN sent[w] = 1 .. Len(sent[w]) /\ Len(sent[w]) \in Nat
    BY <1>2
  <2>2. CASE i \in 1 .. Len(sent[w])
    BY <1>1, <1>2, <1>5, <2>1, <2>2
  <2>3. CASE i = Len(sent[w]) + 1
    <3>1. sent'[w][i] = event
      BY <1>1, <1>2, <1>5, <2>3
    <3>2. i \notin DOMAIN sent[w]
      BY <2>1, <2>3
    <3> QED
      BY <1>1, <1>5, <2>3, <3>1, <3>2 DEF NewEvent
  <2> QED
    BY <1>1, <1>2, <1>5, <2>2, <2>3
<1> QED
  BY <1>3, <1>4, <1>5

LEMMA OrderStep ==
  ASSUME IInv, [Next]_vars
  PROVE  Forward /\ EventsAppended /\ EffectsOnce /\ WatchOnce /\ RegisteredOnce
<1> USE DEF Forward, EffectsOnce, WatchOnce, RegisteredOnce, Announcing, Returned
<1>1. CASE UNCHANGED vars
  BY <1>1 DEF vars, objectVars, watchVars, requestVars, effectVars, EventsAppended
<1>2. ASSUME NEW w \in Watches,
             Stop(w) \/ Receive(w) \/ \E f \in Filters : Watch(w, f)
      PROVE  Forward /\ EventsAppended /\ EffectsOnce /\ WatchOnce /\ RegisteredOnce
  <2>1. UNCHANGED <<pc, effect, sent>>
    BY <1>2 DEF Stop, Receive, Watch, requestVars, effectVars
  <2>2. Forward /\ EventsAppended /\ EffectsOnce
    BY <2>1 DEF EventsAppended
  <2>3. WatchOnce /\ RegisteredOnce
    BY <1>2, <2>1, FiltersAssumption DEF FiltersAssumption, Stop, Receive, Watch, IInv, TypeOK
  <2> QED
    BY <2>2, <2>3
<1>3. ASSUME NEW r \in Requests, Start(r) \/ Continue(r)
      PROVE  Forward /\ EventsAppended /\ EffectsOnce /\ WatchOnce /\ RegisteredOnce
  <2>1. UNCHANGED <<filter, since>> /\ watchers' \subseteq watchers
    BY <1>3 DEF Start, Continue, CreateInvalid, Get, Delete, UpdateStatus, Create, Update,
       DeleteCollection, Unlock, DeleteListed, Announce, AnnounceDeleted, RespondDeleted,
       CopyVersion, CopyStatus, Respond, Fail, Store, broadcast, watchVars
  <2>2. WatchOnce /\ RegisteredOnce
    BY <2>1
  <2>3. CASE Start(r)
    <3>1. pc[r] = "idle" /\ \A s \in Requests : s # r => pc'[s] = pc[s]
      BY <2>3 DEF Start, CreateInvalid, Get, Delete, UpdateStatus, Create, Update,
         DeleteCollection, Fail, Store, Lock, Goto, IInv, TypeOK
    <3>2. UNCHANGED sent
      BY <2>3 DEF Start, CreateInvalid, Get, Delete, UpdateStatus, Create, Update,
         DeleteCollection, Fail, Store, watchVars
    <3>3. effect' = effect \/ \E objs : TakeEffect(r, objs)
      BY <2>3 DEF Start, CreateInvalid, Get, Delete, UpdateStatus, Create, Update,
         DeleteCollection, Fail, Store, effectVars
    <3>4. EffectsOnce
      BY <3>1, <3>3 DEF TakeEffect, IInv, TypeOK
    <3>5. Forward
      BY <3>1
    <3>6. EventsAppended
      BY <3>2 DEF EventsAppended
    <3> QED
      BY <2>2, <3>4, <3>5, <3>6
  <2>4. CASE DeleteListed(r)
    <3>1. pc[r] = "collect" /\ \A s \in Requests : s # r => pc'[s] = pc[s]
      BY <2>4 DEF DeleteListed, Goto, IInv, TypeOK
    <3>2. UNCHANGED sent /\ \E objs : TakeEffect(r, objs)
      BY <2>4 DEF DeleteListed, watchVars
    <3>3. EffectsOnce
      BY <3>1, <3>2 DEF TakeEffect, IInv, TypeOK
    <3> QED
      BY <2>2, <3>1, <3>2, <3>3 DEF EventsAppended
  <2>5. CASE Unlock(r) \/ RespondDeleted(r) \/ CopyVersion(r) \/ CopyStatus(r) \/ Respond(r)
    <3>1. UNCHANGED <<sent, effect>>
      BY <2>5 DEF Unlock, RespondDeleted, CopyVersion, CopyStatus, Respond,
         watchVars, effectVars
    <3>2. /\ pc[r] # "done"
          /\ pc'[r] \in Announcing
          /\ \A s \in Requests : s # r => pc'[s] = pc[s]
      BY <2>5 DEF Unlock, RespondDeleted, CopyVersion, CopyStatus, Respond, Goto, IInv, TypeOK
    <3> QED
      BY <2>2, <3>1, <3>2 DEF EventsAppended
  <2>6. CASE Announce(r) \/ AnnounceDeleted(r)
    <3>1. UNCHANGED effect
      BY <2>6 DEF Announce, AnnounceDeleted, broadcast, effectVars
    <3>2. /\ pc[r] = "broadcast"
          /\ pc'[r] \in Announcing
          /\ \A s \in Requests : s # r => pc'[s] = pc[s]
      BY <2>6 DEF Announce, AnnounceDeleted, Goto, IInv, TypeOK
    <3>3. PICK type \in EventTypes, obj \in Solution : broadcast(r, type, obj)
      <4>1. CASE Announce(r)
        <5>1. heap[r] \in Solution
          BY <4>1 DEF Announce, IInv, CellAllocated, TypeOK, Writes
        <5> QED
          BY <4>1, <5>1 DEF Announce, EventTypes
      <4>2. CASE AnnounceDeleted(r)
        BY <4>2 DEF AnnounceDeleted, EventTypes, IInv, TypeOK
      <4> QED
        BY <2>6, <4>1, <4>2
    <3>4. EventsAppended
      BY <3>2, <3>3, BroadcastAppends
    <3> QED
      BY <2>2, <3>1, <3>2, <3>4
  <2> QED
    BY <1>3, <2>3, <2>4, <2>5, <2>6 DEF Continue
<1> QED
  BY <1>1, <1>2, <1>3 DEF Next, AllServed

LEMMA InitOrderInv == Init => OrderInv
  BY DEF Init, NoEffect, OrderInv, EventsAnnounced, HistoryReturned,
         UnwatchedSentNothing, NoReplay, RealTimeOrder

LEMMA EventRequest ==
  ASSUME TypeOK, NEW w \in Watches, NEW i \in DOMAIN sent[w]
  PROVE  sent[w][i].by \in Requests
<1>1. sent[w] \in Seq(Event)
  BY DEF TypeOK
<1>2. sent[w][i] \in Event
  BY <1>1, ElementOfSeq
<1> QED
  BY <1>2 DEF Event

LEMMA NextOrderInv ==
  ASSUME IInv, IInv', OrderInv, [Next]_vars
  PROVE  OrderInv'
<1>1. Forward /\ EventsAppended /\ EffectsOnce /\ WatchOnce /\ RegisteredOnce
  BY OrderStep
<1>2. \A w \in Watches : \A i \in DOMAIN sent'[w] : sent'[w][i].by \in Requests
  <2> SUFFICES ASSUME NEW w \in Watches, NEW i \in DOMAIN sent'[w]
               PROVE  sent'[w][i].by \in Requests
    OBVIOUS
  <2>1. sent'[w] \in Seq(Event)
    BY DEF IInv, TypeOK
  <2>2. sent'[w][i] \in Event
    BY <2>1, ElementOfSeq
  <2> QED
    BY <2>2 DEF Event
<1>3. EventsAnnounced'
  <2> SUFFICES ASSUME NEW w \in Watches, NEW i \in DOMAIN sent'[w]
               PROVE  pc'[sent'[w][i].by] \in Announcing
    BY DEF EventsAnnounced
  <2>1. CASE i \in DOMAIN sent[w] /\ sent'[w][i] = sent[w][i]
    BY <1>1, <1>2, <2>1 DEF OrderInv, EventsAnnounced, Forward
  <2>2. CASE NewEvent(w, i)
    BY <2>2 DEF NewEvent
  <2> QED
    BY <1>1, <2>1, <2>2 DEF EventsAppended
<1>4. HistoryReturned'
  <2>1. \A r \in Requests : effect'[r].after \subseteq Returned'
    BY <1>1 DEF OrderInv, HistoryReturned, EffectsOnce, Forward
  <2>2. \A w \in Watches : since'[w] \subseteq Returned'
    BY <1>1 DEF OrderInv, HistoryReturned, WatchOnce, Forward
  <2> QED
    BY <2>1, <2>2 DEF HistoryReturned
<1>5. UnwatchedSentNothing'
  <2>1. ASSUME NEW w \in Watches, filter'[w] = Nil PROVE sent'[w] = <<>>
    <3>1. filter[w] = Nil /\ w \notin watchers /\ sent[w] = <<>>
      BY <1>1, <2>1 DEF WatchOnce, OrderInv, UnwatchedSentNothing
    <3>2. \A i \in DOMAIN sent'[w] : i \in DOMAIN sent[w]
      BY <1>1, <3>1 DEF EventsAppended, NewEvent
    <3>3. DOMAIN sent'[w] = {}
      BY <3>1, <3>2
    <3>4. sent'[w] \in Seq(Event)
      BY DEF IInv, TypeOK
    <3>5. Len(sent'[w]) = 0
      <4>1. Len(sent'[w]) \in Nat /\ 1 .. Len(sent'[w]) = {}
        BY <3>3, <3>4, LenProperties
      <4>2. 1 \notin 1 .. Len(sent'[w])
        BY <4>1
      <4> QED
        BY <4>1, <4>2
    <3> QED
      BY <3>4, <3>5, EmptySeq
  <2>2. ASSUME NEW w \in Watches, w \in watchers' PROVE filter'[w] # Nil
    BY <1>1, <2>2 DEF RegisteredOnce, WatchOnce, OrderInv, UnwatchedSentNothing
  <2> QED
    BY <2>1, <2>2 DEF UnwatchedSentNothing
<1>6. NoReplay'
  <2> SUFFICES ASSUME NEW w \in Watches, NEW i \in DOMAIN sent'[w]
               PROVE  sent'[w][i].by \notin since'[w]
    BY DEF NoReplay
  <2>1. CASE since'[w] # since[w]
    <3>1. filter[w] = Nil /\ sent'[w] = sent[w]
      BY <1>1, <2>1 DEF WatchOnce
    <3>2. sent[w] = <<>>
      BY <3>1 DEF OrderInv, UnwatchedSentNothing
    <3> QED
      BY <3>1, <3>2
  <2>2. CASE since'[w] = since[w]
    <3>1. CASE i \in DOMAIN sent[w] /\ sent'[w][i] = sent[w][i]
      BY <2>2, <3>1 DEF OrderInv, NoReplay
    <3>2. CASE NewEvent(w, i)
      BY <2>2, <3>2 DEF NewEvent, OrderInv, HistoryReturned, Returned
    <3> QED
      BY <1>1, <3>1, <3>2 DEF EventsAppended
  <2> QED
    BY <2>1, <2>2
<1>7. RealTimeOrder'
  <2> SUFFICES ASSUME NEW w \in Watches, NEW i \in DOMAIN sent'[w],
                      NEW j \in DOMAIN sent'[w], i < j
               PROVE  sent'[w][j].by \notin effect'[sent'[w][i].by].after
    BY DEF RealTimeOrder
  <2>1. DOMAIN sent[w] = 1 .. Len(sent[w]) /\ Len(sent[w]) \in Nat
    BY DEF IInv, TypeOK
  <2>2. i \in DOMAIN sent[w] /\ sent'[w][i] = sent[w][i]
    <3>1. CASE NewEvent(w, i)
      <4>1. j \in DOMAIN sent[w] \/ j = i
        BY <1>1, <3>1 DEF EventsAppended, NewEvent
      <4> QED
        BY <2>1, <3>1, <4>1 DEF NewEvent
    <3> QED
      BY <1>1, <3>1 DEF EventsAppended
  <2>3. effect'[sent[w][i].by] = effect[sent[w][i].by]
    BY <1>1, <2>2, EventRequest
       DEF EffectsOnce, OrderInv, EventsAnnounced, Announcing, IInv
  <2>4. CASE j \in DOMAIN sent[w] /\ sent'[w][j] = sent[w][j]
    BY <2>2, <2>3, <2>4 DEF OrderInv, RealTimeOrder
  <2>5. CASE NewEvent(w, j)
    <3>1. sent'[w][j].by \notin Returned
      BY <2>5 DEF NewEvent, Returned
    <3>2. effect[sent[w][i].by].after \subseteq Returned
      BY <2>2, EventRequest DEF OrderInv, HistoryReturned, IInv
    <3> QED
      BY <2>2, <2>3, <3>1, <3>2
  <2> QED
    BY <1>1, <2>4, <2>5 DEF EventsAppended
<1> QED
  BY <1>3, <1>4, <1>5, <1>6, <1>7 DEF OrderInv

LEMMA OrderInvariance == Spec => []OrderInv
<1>1. IInv /\ IInv' /\ OrderInv /\ [Next]_vars => OrderInv'
  BY NextOrderInv
<1> QED
  BY <1>1, InitOrderInv, Invariance, PTL DEF Spec

(* No event overtakes that of a request which had returned before its own      *)
(* request took effect.                                                        *)
THEOREM EventsInRealTimeOrder == Spec => []RealTimeOrder
<1>1. OrderInv => RealTimeOrder
  BY DEF OrderInv
<1> QED
  BY <1>1, OrderInvariance, PTL

(* A watch is not sent events of requests that had returned when it began.     *)
THEOREM NothingReplayed == Spec => []NoReplay
<1>1. OrderInv => NoReplay
  BY DEF OrderInv
<1> QED
  BY <1>1, OrderInvariance, PTL
================================================================================
