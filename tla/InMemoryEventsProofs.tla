-------------------------- MODULE InMemoryEventsProofs -------------------------
(* Proofs about InMemoryStorage, continued: the versions a request hands out,  *)
(* and the events that tell of them.                                           *)
EXTENDS InMemoryStorageProofs

--------------------------------------------------------------------------------
(* Versions.                                                                   *)

(* A request that has not taken effect has written and removed nothing.        *)
NoEffectYet ==
    \A r \in Requests :
        /\ pc[r] \in {"idle", "collect"} =>
              effect[r].objs = {} /\ effect[r].watched = {}
        /\ pc[r] = "idle" => items[r] = {}

(* What a cell holds, and what has been listed or removed, was once stored.    *)
CellsCommitted ==
    \A r \in Requests : /\ heap[r] # Nil => heap[r] \in Committed
                        /\ items[r] \subseteq Committed

(* An incarnation stays under its key, and its stored state is the last one.   *)
StoredIsLatest ==
    \A k \in Keys : objects[k] # Nil =>
        \A o \in Committed : o.born = Existing(k).born =>
            o.key = k /\ o.rv <= Existing(k).rv

(* An incarnation is named after a request that has begun.                     *)
BornBegan == \A o \in Committed : pc[o.born] # "idle"

VersionInv ==
    /\ NoEffectYet
    /\ CellsCommitted
    /\ StoredIsLatest
    /\ BornBegan
    /\ VersionNamesContent

--------------------------------------------------------------------------------
(* Events.                                                                     *)

(* No object of this incarnation is stored.                                    *)
Dead(o) == \A k \in Keys : objects[k] # Nil => Existing(k).born # o.born

(* What has been removed, and is still to be announced, does not come back.    *)
RemovedIsDead ==
    \A r \in Requests : pc[r] # "collect" => \A o \in items[r] : Dead(o)

DeletedIsDead ==
    \A w \in Watches : \A i \in DOMAIN sent[w] :
        sent[w][i].type = "DELETED" => Dead(sent[w][i].obj)

EventInv == EventsCommitted /\ RemovedIsDead /\ DeletedIsDead

(* sol is what r wrote, or one status update further.                          *)
Near(r, sol) ==
    \E o \in effect[r].objs :
        sol.key = o.key /\ sol.spec = o.spec /\ sol.rv \in {o.rv, o.rv + 1}

(* The cell the map points to still holds what its request wrote.              *)
PointedIsOwn ==
    \A k \in Keys : objects[k] # Nil => heap[objects[k]] \in effect[objects[k]].objs

CellNear == \A r \in Requests : heap[r] # Nil => Near(r, heap[r])

NearInv == PointedIsOwn /\ CellNear /\ AtMostOneAhead

--------------------------------------------------------------------------------
(* Who has been told.                                                          *)

(* r has succeeded in a write of one object.                                   *)
Tells(r) == result[r].out = "ok" /\ result[r].op \in Writes \cup {"Delete"}

(* Its broadcast is over.                                                      *)
Told(r) ==
    \/ pc[r] \in {"respond", "done"}
    \/ pc[r] = "broadcast" /\ result[r].op = "Delete" /\ items[r] = {}

Silent(r) == \A w \in Watches : Copies(w, r) = {}

Informed(r, w, o) ==
    IF Matches(w, o)
    THEN \/ w \in stopped
         \/ \E i \in DOMAIN sent[w] : Copies(w, r) = {i}
         \/ Copies(w, r) = {} /\ <<r, o.key>> \in missed[w] /\ Len(sent[w]) >= ChanSize
    ELSE Copies(w, r) = {}

(* A watcher a request has to tell is registered until it has been stopped.    *)
WatchedIsRegistered ==
    \A r \in Requests : \A w \in effect[r].watched :
        filter[w] # Nil /\ (w \in watchers \/ w \in stopped)

Open(r) == pc[r] \in {"idle", "collect"}

(* Such a request has one object to tell of; a Delete still has it as its item.*)
OneEffect ==
    \A r \in Requests : ~Open(r) =>
        /\ result[r] # Nil
        /\ Tells(r) => \E o \in effect[r].objs :
              /\ effect[r].objs = {o}
              /\ result[r].op = "Delete" =>
                    /\ pc[r] # "respond"
                    /\ items[r] = {o} \/ (items[r] = {} /\ Told(r))
        /\ ~Tells(r) /\ result[r].op # "DeleteCollection" => effect[r].watched = {}

SilentBefore == \A r \in Requests : ~Open(r) /\ Tells(r) /\ ~Told(r) => Silent(r)

ToldIsInformed ==
    \A r \in Requests : ~Open(r) /\ Tells(r) /\ Told(r) =>
        \A w \in effect[r].watched : \A o \in effect[r].objs : Informed(r, w, o)

OnceInv == WatchedIsRegistered /\ OneEffect /\ SilentBefore /\ ToldIsInformed

--------------------------------------------------------------------------------
(* The kinds of steps, as far as objects, cells and events go.                 *)

(* r stores cp under k: the first version of an object, or the next one.  Only *)
(* the cell found under k may be written to as well, and it gets no other spec.*)
WriteStep(r, k, cp, op) ==
    /\ k \in Keys /\ cp \in Solution /\ op \in Writes
    /\ cp.key = k
    /\ IF objects[k] = Nil
       THEN cp.born = r
       ELSE cp.born = Existing(k).born /\ cp.rv = Existing(k).rv + 1
    /\ heap' \in [Requests -> Solution \cup {Nil}]
    /\ heap'[r] = cp
    /\ \A s \in Requests \ {r} :
          \/ heap'[s] = heap[s]
          \/ objects[k] = s /\ heap'[s] = cp /\ cp.spec = heap[s].spec
    /\ Store(r, k, cp, op)

(* r removes what lies under the keys of gone.                                 *)
RemoveStep(r, gone) ==
    /\ gone \in SUBSET Keys
    /\ Goto(r, "locked")
    /\ objects' = [k \in Keys |-> IF k \in gone THEN Nil ELSE objects[k]]
    /\ TakeEffect(r, {Existing(k) : k \in {k \in gone : objects[k] # Nil}})
    /\ \A s \in Requests : s # r => items'[s] = items[s]
    /\ UNCHANGED <<heap, watchVars, response>>
    /\ \/ /\ pc[r] = "idle"
          /\ Answer(r, "Delete", "ok")
          /\ \E k \in Keys : /\ gone = {k} /\ objects[k] # Nil
                             /\ items'[r] = {Existing(k)}
       \/ /\ pc[r] = "collect"
          /\ \E out \in Outcomes : Answer(r, "DeleteCollection", out)
          /\ items'[r] \subseteq items[r]
          /\ \A o \in items'[r] : o.key \in gone

ListStep(r) ==
    \E ns \in Namespaces, sel \in Selectors : DeleteCollection(r, ns, sel)

(* r changes nothing but its own place, answer and response.                   *)
MoveStep(r) ==
    /\ UNCHANGED <<objectVars, watchVars, items, effectVars>>
    /\ \/ /\ pc[r] = "idle"
          /\ pc' \in {[pc EXCEPT ![r] = "locked"], [pc EXCEPT ![r] = "done"]}
          /\ \E op \in Operations, out \in Outcomes :
                Answer(r, op, out) /\ (out = "ok" => op = "Get")
          /\ UNCHANGED response
       \/ /\ pc[r] = "locked"
          /\ Goto(r, IF result[r].out = "ok" THEN "broadcast" ELSE "done")
          /\ UNCHANGED <<result, response>>
       \/ RespondDeleted(r) \/ CopyVersion(r) \/ CopyStatus(r) \/ Respond(r)

WatchStep ==
    \E w \in Watches : Stop(w) \/ Receive(w) \/ \E f \in Filters : Watch(w, f)

Kinds(r) ==
    \/ \E k \in Keys, cp \in Solution, op \in Writes : WriteStep(r, k, cp, op)
    \/ \E gone \in SUBSET Keys : RemoveStep(r, gone)
    \/ ListStep(r) \/ MoveStep(r)
    \/ Announce(r) \/ AnnounceDeleted(r)

LEMMA FailMoves ==
  ASSUME NEW r \in Requests, NEW op \in Operations, NEW out \in Outcomes \ {"ok"},
         Fail(r, op, out)
  PROVE  MoveStep(r)
  BY DEF Fail, Lock, Goto, MoveStep

LEMMA CreateKind ==
  ASSUME IInv, NEW r \in Requests, NEW k \in Keys, NEW spec \in SolutionNames,
         NEW phase \in Phases, Create(r, k, spec, phase)
  PROVE  Kinds(r)
<1>1. CASE Fail(r, "Create", "AlreadyExists")
  BY <1>1, FailMoves DEF Operations, Outcomes, Kinds
<1>2. CASE /\ objects[k] = Nil
           /\ heap' = [heap EXCEPT ![r] = Created(r, k, spec, phase)]
           /\ Store(r, k, Created(r, k, spec, phase), "Create")
  <2> DEFINE cp == Created(r, k, spec, phase)
  <2>1. cp \in Solution /\ cp.key = k /\ cp.born = r
    BY CreatedType
  <2> HIDE DEF cp
  <2>2. heap' = [heap EXCEPT ![r] = cp] /\ Store(r, k, cp, "Create")
    BY <1>2 DEF cp
  <2>3. WriteStep(r, k, cp, "Create")
    BY <1>2, <2>1, <2>2 DEF WriteStep, Writes, IInv, TypeOK
  <2> QED
    BY <2>1, <2>3 DEF Kinds, Writes
<1> QED
  BY <1>1, <1>2 DEF Create

LEMMA UpdateKind ==
  ASSUME IInv, NEW r \in Requests, NEW k \in Keys, NEW spec \in SolutionNames,
         NEW phase \in Phases, Update(r, k, spec, phase)
  PROVE  Kinds(r)
<1>1. CASE \E out \in {"NotFound", "Invalid"} : Fail(r, "Update", out)
  BY <1>1, FailMoves DEF Operations, Outcomes, Kinds
<1>2. CASE /\ objects[k] # Nil
           /\ heap' = [heap EXCEPT ![r] = Updated(Existing(k), spec, phase)]
           /\ Store(r, k, Updated(Existing(k), spec, phase), "Update")
  <2> DEFINE cp == Updated(Existing(k), spec, phase)
  <2>1. /\ cp \in Solution /\ cp.key = k
        /\ cp.born = Existing(k).born /\ cp.rv = Existing(k).rv + 1
    BY <1>2, ExistingType, UpdatedType
  <2> HIDE DEF cp
  <2>2. heap' = [heap EXCEPT ![r] = cp] /\ Store(r, k, cp, "Update")
    BY <1>2 DEF cp
  <2>3. WriteStep(r, k, cp, "Update")
    BY <1>2, <2>1, <2>2 DEF WriteStep, Writes, IInv, TypeOK
  <2> QED
    BY <2>1, <2>3 DEF Kinds, Writes
<1> QED
  BY <1>1, <1>2 DEF Update

LEMMA UpdateStatusKind ==
  ASSUME IInv, NEW r \in Requests, NEW k \in Keys, NEW phase \in Phases,
         UpdateStatus(r, k, phase)
  PROVE  Kinds(r)
<1>1. CASE \E out \in {"NotFound", "Invalid"} : Fail(r, "UpdateStatus", out)
  BY <1>1, FailMoves DEF Operations, Outcomes, Kinds
<1>2. CASE /\ objects[k] # Nil
           /\ heap' = [heap EXCEPT ![objects[k]] = StatusUpdated(Existing(k), phase),
                                   ![r] = StatusUpdated(Existing(k), phase)]
           /\ Store(r, k, StatusUpdated(Existing(k), phase), "UpdateStatus")
  <2> DEFINE cp == StatusUpdated(Existing(k), phase)
  <2>1. /\ cp \in Solution /\ cp.key = k
        /\ cp.born = Existing(k).born /\ cp.rv = Existing(k).rv + 1
        /\ cp.spec = Existing(k).spec
    BY <1>2, ExistingType, StatusUpdatedType
  <2>2. objects[k] \in Requests
    BY <1>2, ExistingType
  <2> HIDE DEF cp
  <2>3. heap' = [heap EXCEPT ![objects[k]] = cp, ![r] = cp] /\ Store(r, k, cp, "UpdateStatus")
    BY <1>2 DEF cp
  <2>4. /\ heap' \in [Requests -> Solution \cup {Nil}]
        /\ heap'[r] = cp
        /\ heap'[objects[k]] = cp
        /\ \A s \in Requests : s # r /\ s # objects[k] => heap'[s] = heap[s]
    BY <2>1, <2>2, <2>3 DEF IInv, TypeOK
  <2>5. WriteStep(r, k, cp, "UpdateStatus")
    BY <1>2, <2>1, <2>3, <2>4 DEF WriteStep, Writes, Existing
  <2> QED
    BY <2>1, <2>5 DEF Kinds, Writes
<1> QED
  BY <1>1, <1>2 DEF UpdateStatus

LEMMA DeleteKind ==
  ASSUME IInv, NEW r \in Requests, NEW k \in Keys, Delete(r, k)
  PROVE  Kinds(r)
<1>1. CASE \E out \in {"NotFound", "Invalid"} : Fail(r, "Delete", out)
  BY <1>1, FailMoves DEF Operations, Outcomes, Kinds
<1>2. CASE /\ objects[k] # Nil
           /\ Lock(r)
           /\ objects' = [objects EXCEPT ![k] = Nil]
           /\ items' = [items EXCEPT ![r] = {Existing(k)}]
           /\ Answer(r, "Delete", "ok")
           /\ TakeEffect(r, {Existing(k)})
           /\ UNCHANGED <<heap, watchVars, response>>
  <2>1. objects' = [j \in Keys |-> IF j \in {k} THEN Nil ELSE objects[j]]
    BY <1>2 DEF IInv, TypeOK
  <2>2. {Existing(j) : j \in {j \in {k} : objects[j] # Nil}} = {Existing(k)}
    BY <1>2
  <2>3. TakeEffect(r, {Existing(j) : j \in {j \in {k} : objects[j] # Nil}})
    BY <1>2, <2>2
  <2>4. /\ items'[r] = {Existing(k)}
        /\ \A s \in Requests : s # r => items'[s] = items[s]
    BY <1>2 DEF IInv, TypeOK
  <2>5. RemoveStep(r, {k})
    BY <1>2, <2>1, <2>3, <2>4 DEF RemoveStep, Lock
  <2>6. {k} \in SUBSET Keys
    OBVIOUS
  <2> QED
    BY <2>5, <2>6 DEF Kinds
<1> QED
  BY <1>1, <1>2 DEF Delete

LEMMA DeleteListedKind ==
  ASSUME IInv, NEW r \in Requests, DeleteListed(r)
  PROVE  Kinds(r)
<1>1. PICK valid \in SUBSET items[r] :
        LET gone == {o.key : o \in valid} IN
        /\ objects' = [k \in Keys |-> IF k \in gone THEN Nil ELSE objects[k]]
        /\ TakeEffect(r, {Existing(k) : k \in {k \in gone : objects[k] # Nil}})
        /\ \/ /\ valid = items[r]
              /\ Answer(r, "DeleteCollection", "ok")
              /\ UNCHANGED items
           \/ /\ Answer(r, "DeleteCollection", "Invalid")
              /\ items' = [items EXCEPT ![r] = {}]
  BY DEF DeleteListed
<1> DEFINE gone == {o.key : o \in valid}
<1>2. gone \in SUBSET Keys
  BY DEF IInv, TypeOK, Solution
<1>3. /\ \A s \in Requests : s # r => items'[s] = items[s]
      /\ items'[r] \subseteq items[r]
      /\ \A o \in items'[r] : o.key \in gone
  BY <1>1 DEF IInv, TypeOK
<1>4. \E out \in Outcomes : Answer(r, "DeleteCollection", out)
  BY <1>1 DEF Outcomes
<1>5. RemoveStep(r, gone)
  BY <1>1, <1>2, <1>3, <1>4 DEF RemoveStep, DeleteListed
<1> QED
  BY <1>2, <1>5 DEF Kinds

LEMMA NextKinds ==
  ASSUME IInv, [Next]_vars
  PROVE  UNCHANGED vars \/ WatchStep \/ \E r \in Requests : Kinds(r)
<1>1. ASSUME NEW r \in Requests, Start(r) PROVE Kinds(r)
  <2>1. CASE CreateInvalid(r)
    BY <2>1 DEF CreateInvalid, Goto, MoveStep, Kinds, Operations, Outcomes
  <2>2. ASSUME NEW k \in Keys, Get(r, k) PROVE Kinds(r)
    BY <2>2 DEF Get, Goto, MoveStep, Kinds, Operations, Outcomes
  <2>3. CASE ListStep(r)
    BY <2>3 DEF Kinds
  <2> QED
    BY <1>1, <2>1, <2>2, <2>3, CreateKind, UpdateKind, UpdateStatusKind, DeleteKind
       DEF Start, ListStep
<1>2. ASSUME NEW r \in Requests, Continue(r) PROVE Kinds(r)
  <2>1. CASE Unlock(r)
    BY <2>1 DEF Unlock, MoveStep, Kinds
  <2>2. CASE RespondDeleted(r) \/ CopyVersion(r) \/ CopyStatus(r) \/ Respond(r)
    BY <2>2 DEF RespondDeleted, CopyVersion, CopyStatus, Respond, MoveStep, Kinds
  <2> QED
    BY <1>2, <2>1, <2>2, DeleteListedKind DEF Continue, Kinds
<1> QED
  BY <1>1, <1>2 DEF Next, AllServed, WatchStep

--------------------------------------------------------------------------------
(* What each kind does to the versions ever stored.                            *)

LEMMA ExistingCommitted ==
  ASSUME IInv, VersionInv, NEW k \in Keys, objects[k] # Nil
  PROVE  Existing(k) \in Committed /\ pc[Existing(k).born] # "idle"
  BY ExistingType DEF VersionInv, CellsCommitted, BornBegan, IInv, PointersSound, Existing

LEMMA CommittedType == ASSUME IInv PROVE Committed \subseteq Solution
  BY DEF Committed, IInv, TypeOK

(* An effect adds its objects to those committed so far.                       *)
LEMMA EffectCommits ==
  ASSUME IInv, VersionInv, NEW r \in Requests, Open(r), NEW objs, TakeEffect(r, objs)
  PROVE  /\ Committed' = Committed \cup objs
         /\ effect'[r].objs = objs /\ effect'[r].watched = watchers
         /\ \A s \in Requests : s # r => effect'[s] = effect[s]
<1>1. /\ effect'[r].objs = objs /\ effect'[r].watched = watchers
      /\ \A s \in Requests : s # r => effect'[s] = effect[s]
  BY DEF TakeEffect, IInv, TypeOK
<1>2. effect[r].objs = {}
  BY DEF VersionInv, NoEffectYet, Open
<1> QED
  BY <1>1, <1>2 DEF Committed

(* What is stored after a write.                                               *)
LEMMA WriteStores ==
  ASSUME IInv, NEW r \in Requests, NEW k \in Keys, NEW cp \in Solution, NEW op \in Writes,
         WriteStep(r, k, cp, op)
  PROVE  /\ pc[r] = "idle"
         /\ objects'[k] = r /\ Existing(k)' = cp
         /\ \A j \in Keys \ {k} : objects'[j] = objects[j]
                                  /\ (objects[j] # Nil => Existing(j)' = Existing(j))
<1>1. pc[r] = "idle" /\ objects' = [objects EXCEPT ![k] = r]
  BY DEF WriteStep, Store, Lock
<1>2. objects'[k] = r /\ heap'[r] = cp
  BY <1>1 DEF WriteStep, IInv, TypeOK
<1>3. ASSUME NEW j \in Keys \ {k}, objects[j] # Nil
      PROVE  Existing(j)' = Existing(j)
  <2>1. objects'[j] = objects[j] /\ objects[j] \in Requests \ {r}
    BY <1>1, <1>3 DEF IInv, TypeOK, IdleOwnsNothing
  <2>2. objects[j] # objects[k]
    BY <1>3 DEF IInv, PointersSound
  <2> QED
    BY <2>1, <2>2 DEF WriteStep, Existing
<1> QED
  BY <1>1, <1>2, <1>3 DEF Existing, IInv, TypeOK

LEMMA WriteMoves ==
  ASSUME IInv, NEW r \in Requests, NEW k, NEW cp, NEW op, WriteStep(r, k, cp, op)
  PROVE  /\ pc[r] = "idle" /\ pc'[r] = "locked"
         /\ \A s \in Requests : s # r => pc'[s] = pc[s]
         /\ result'[r] = Reply(op, "ok")
         /\ \A s \in Requests : s # r => result'[s] = result[s]
         /\ TakeEffect(r, {cp})
         /\ UNCHANGED <<watchVars, items, response>>
  BY DEF WriteStep, Store, Lock, Goto, Answer, IInv, TypeOK

(* The version a write makes is newer than every other of that incarnation.    *)
LEMMA WriteIsNew ==
  ASSUME IInv, VersionInv, NEW r \in Requests, NEW k \in Keys, NEW cp \in Solution,
         NEW op \in Writes, WriteStep(r, k, cp, op),
         NEW o \in Committed, o.born = cp.born
  PROVE  objects[k] # Nil /\ o.key = k /\ o.rv < cp.rv
<1>1. pc[r] = "idle"
  BY WriteStores
<1>2. objects[k] # Nil
  BY <1>1 DEF WriteStep, VersionInv, BornBegan
<1>3. o.born = Existing(k).born /\ cp.rv = Existing(k).rv + 1
  BY <1>2 DEF WriteStep
<1>4. o.key = k /\ o.rv <= Existing(k).rv
  BY <1>2, <1>3 DEF VersionInv, StoredIsLatest
<1>5. o.rv \in Nat /\ Existing(k).rv \in Nat
  BY <1>2, CommittedType, ExistingType DEF Solution, Version
<1> QED
  BY <1>2, <1>3, <1>4, <1>5

LEMMA WriteVersionInv ==
  ASSUME IInv, VersionInv, NEW r \in Requests, NEW k \in Keys, NEW cp \in Solution,
         NEW op \in Writes, WriteStep(r, k, cp, op)
  PROVE  VersionInv'
<1>1. /\ pc[r] = "idle" /\ pc'[r] = "locked"
      /\ \A s \in Requests : s # r => pc'[s] = pc[s]
      /\ UNCHANGED items
  BY WriteMoves
<1>2. /\ Committed' = Committed \cup {cp}
      /\ \A s \in Requests : s # r => effect'[s] = effect[s]
  BY <1>1, WriteMoves, EffectCommits DEF Open
<1>3. NoEffectYet'
  BY <1>1, <1>2 DEF VersionInv, NoEffectYet
<1>4. CellsCommitted'
  <2>1. \A s \in Requests : heap'[s] = cp \/ heap'[s] = heap[s]
    BY DEF WriteStep
  <2> QED
    BY <1>1, <1>2, <2>1 DEF VersionInv, CellsCommitted
<1>5. StoredIsLatest'
  <2> SUFFICES ASSUME NEW j \in Keys, objects'[j] # Nil, NEW o \in Committed',
                      o.born = Existing(j)'.born
               PROVE  o.key = j /\ o.rv <= Existing(j)'.rv
    BY DEF StoredIsLatest
  <2>1. o.rv \in Nat /\ cp.rv \in Nat
    BY <1>2, CommittedType DEF Solution, Version
  <2>2. CASE j = k
    <3>1. Existing(j)' = cp /\ cp.key = k
      BY <2>2, WriteStores DEF WriteStep
    <3> QED
      BY <1>2, <2>1, <2>2, <3>1, WriteIsNew
  <2>3. CASE j # k
    <3>1. objects[j] # Nil /\ Existing(j)' = Existing(j)
      BY <2>3, WriteStores
    <3>2. Existing(j) \in Committed /\ Existing(j).key = j
      BY <3>1, ExistingType, ExistingCommitted
    <3>3. Existing(j).born # cp.born
      BY <2>3, <3>2, WriteIsNew
    <3> QED
      BY <1>2, <3>1, <3>3 DEF VersionInv, StoredIsLatest
  <2> QED
    BY <2>2, <2>3
<1>6. BornBegan'
  <2>1. cp.born = r \/ (cp.born \in Requests /\ pc[cp.born] # "idle")
    <3>1. CASE objects[k] # Nil
      BY <3>1, ExistingCommitted, ExistingType DEF WriteStep, Solution
    <3> QED
      BY <3>1 DEF WriteStep
  <2>2. pc'[cp.born] # "idle"
    BY <1>1, <2>1
  <2>3. \A o \in Committed : o.born \in Requests /\ pc[o.born] # "idle"
    BY CommittedType DEF Solution, VersionInv, BornBegan
  <2> QED
    BY <1>1, <1>2, <2>2, <2>3 DEF BornBegan
<1>7. VersionNamesContent'
  <2> SUFFICES ASSUME NEW o1 \in Committed', NEW o2 \in Committed',
                      o1.born = o2.born, o1.rv = o2.rv
               PROVE  o1 = o2
    BY DEF VersionNamesContent
  <2>1. o1.rv \in Nat /\ o2.rv \in Nat
    BY <1>2, CommittedType DEF Solution, Version
  <2>2. CASE o1 \in Committed /\ o2 \in Committed
    BY <2>2 DEF VersionInv, VersionNamesContent
  <2>3. CASE o1 = cp /\ o2 \in Committed
    BY <2>1, <2>3, WriteIsNew
  <2>4. CASE o2 = cp /\ o1 \in Committed
    BY <2>1, <2>4, WriteIsNew
  <2> QED
    BY <1>2, <2>2, <2>3, <2>4
<1> QED
  BY <1>3, <1>4, <1>5, <1>6, <1>7 DEF VersionInv

(* A step that stores nothing new, and makes nobody begin anew.                *)
LEMMA KeepVersionInv ==
  ASSUME IInv, VersionInv, UNCHANGED heap,
         Committed' = Committed,
         \A k \in Keys : objects'[k] # Nil => objects'[k] = objects[k],
         \A s \in Requests : pc[s] # "idle" => pc'[s] # "idle",
         \A s \in Requests : items'[s] \subseteq Committed,
         NoEffectYet'
  PROVE  VersionInv'
<1>1. CellsCommitted'
  BY DEF VersionInv, CellsCommitted
<1>2. StoredIsLatest'
  BY DEF VersionInv, StoredIsLatest, Existing
<1>3. BornBegan'
  BY CommittedType DEF VersionInv, BornBegan, Solution
<1>4. VersionNamesContent'
  BY DEF VersionInv, VersionNamesContent
<1> QED
  BY <1>1, <1>2, <1>3, <1>4 DEF VersionInv

LEMMA RemoveMoves ==
  ASSUME IInv, VersionInv, NEW r \in Requests, NEW gone \in SUBSET Keys, RemoveStep(r, gone)
  PROVE  /\ Open(r) /\ pc'[r] = "locked"
         /\ \A s \in Requests : s # r => pc'[s] = pc[s] /\ effect'[s] = effect[s]
         /\ \A s \in Requests : s # r => items'[s] = items[s] /\ result'[s] = result[s]
         /\ \A k \in Keys : objects'[k] # Nil => objects'[k] = objects[k] /\ k \notin gone
         /\ Committed' = Committed
         /\ effect'[r].watched = watchers
         /\ items'[r] \subseteq Committed
<1>1. Open(r) /\ \A k \in Keys : objects'[k] # Nil => objects'[k] = objects[k] /\ k \notin gone
  BY DEF RemoveStep, Open
<1>2. /\ pc'[r] = "locked"
      /\ \A s \in Requests : s # r => pc'[s] = pc[s]
  BY DEF RemoveStep, Goto, IInv, TypeOK
<1>3. \A s \in Requests : s # r => items'[s] = items[s] /\ result'[s] = result[s]
  BY DEF RemoveStep, Answer, IInv, TypeOK
<1> DEFINE objs == {Existing(k) : k \in {k \in gone : objects[k] # Nil}}
<1>4. objs \subseteq Committed /\ TakeEffect(r, objs)
  BY ExistingCommitted DEF RemoveStep
<1> HIDE DEF objs
<1>5. /\ Committed' = Committed
      /\ effect'[r].watched = watchers
      /\ \A s \in Requests : s # r => effect'[s] = effect[s]
  <2>1. /\ Committed' = Committed \cup objs
        /\ effect'[r].watched = watchers
        /\ \A s \in Requests : s # r => effect'[s] = effect[s]
    BY <1>1, <1>4, EffectCommits
  <2> QED
    BY <1>4, <2>1
<1>6. items'[r] \subseteq Committed
  BY ExistingCommitted DEF RemoveStep, VersionInv, CellsCommitted
<1> QED
  BY <1>1, <1>2, <1>3, <1>5, <1>6

LEMMA ListMoves ==
  ASSUME IInv, VersionInv, NEW r \in Requests, ListStep(r)
  PROVE  /\ pc[r] = "idle" /\ pc'[r] = "collect"
         /\ \A s \in Requests : s # r => pc'[s] = pc[s] /\ items'[s] = items[s]
         /\ items'[r] \subseteq Committed
         /\ UNCHANGED <<objects, heap, effect, watchVars, result, response>>
<1>1. PICK ns \in Namespaces, sel \in Selectors : DeleteCollection(r, ns, sel)
  BY DEF ListStep
<1>2. /\ pc[r] = "idle" /\ pc'[r] = "collect"
      /\ \A s \in Requests : s # r => pc'[s] = pc[s] /\ items'[s] = items[s]
      /\ items'[r] = MemoryList(Stored, ns, sel)
      /\ UNCHANGED <<objects, heap, effect, watchVars, result, response>>
  BY <1>1 DEF DeleteCollection, Goto, objectVars, effectVars, IInv, TypeOK
<1>3. MemoryList(Stored, ns, sel) \subseteq Committed
  BY ListedFacts, ExistingCommitted
<1> QED
  BY <1>2, <1>3

(* Every other step leaves objects, cells and effects alone, and nobody takes  *)
(* on an item or goes back.                                                    *)
Onward ==
    /\ UNCHANGED <<objects, heap, effect>>
    /\ \A s \in Requests :
          /\ items'[s] \subseteq items[s]
          /\ ~Open(s) => pc'[s] \notin {"idle", "collect"}
          /\ Open(s) => items'[s] = items[s]
          /\ pc'[s] # pc[s] => pc'[s] \notin {"idle", "collect"} /\ pc[s] # "collect"

LEMMA OnwardSteps ==
  ASSUME IInv, \/ UNCHANGED vars \/ WatchStep
               \/ \E r \in Requests : MoveStep(r) \/ Announce(r) \/ AnnounceDeleted(r)
  PROVE  Onward
<1>1. CASE UNCHANGED vars \/ WatchStep
  BY <1>1 DEF vars, WatchStep, Stop, Receive, Watch, objectVars, requestVars, effectVars,
     Onward, Open
<1>2. ASSUME NEW r \in Requests, MoveStep(r) PROVE Onward
  BY <1>2 DEF MoveStep, RespondDeleted, CopyVersion, CopyStatus, Respond, Goto,
     objectVars, effectVars, Onward, Open, IInv, TypeOK
<1>3. ASSUME NEW r \in Requests, Announce(r) \/ AnnounceDeleted(r) PROVE Onward
  <2>1. pc[r] = "broadcast" /\ UNCHANGED <<objects, heap, effect>>
    BY <1>3 DEF Announce, AnnounceDeleted, broadcast, objectVars, effectVars
  <2>2. CASE Announce(r)
    BY <2>1, <2>2 DEF Announce, Goto, Onward, Open, IInv, TypeOK
  <2>3. CASE AnnounceDeleted(r)
    <3>1. PICK obj \in items[r] : items' = [items EXCEPT ![r] = @ \ {obj}]
      BY <2>3 DEF AnnounceDeleted
    <3>2. UNCHANGED pc
      BY <2>3 DEF AnnounceDeleted
    <3> QED
      BY <2>1, <3>1, <3>2 DEF Onward, Open, IInv, TypeOK
  <2> QED
    BY <1>3, <2>2, <2>3
<1> QED
  BY <1>1, <1>2, <1>3

LEMMA OnwardVersionInv == ASSUME IInv, VersionInv, Onward PROVE VersionInv'
<1>1. Committed' = Committed
  BY DEF Onward, Committed
<1>2. NoEffectYet'
  BY DEF VersionInv, NoEffectYet, Onward, Open
<1>3. \A s \in Requests : items'[s] \subseteq Committed
  BY DEF VersionInv, CellsCommitted, Onward
<1>4. /\ \A k \in Keys : objects'[k] # Nil => objects'[k] = objects[k]
      /\ \A s \in Requests : pc[s] # "idle" => pc'[s] # "idle"
      /\ UNCHANGED heap
  BY DEF Onward
<1> QED
  BY <1>1, <1>2, <1>3, <1>4, KeepVersionInv

LEMMA NextVersionInv == ASSUME IInv, VersionInv, [Next]_vars PROVE VersionInv'
<1>1. ASSUME NEW r \in Requests, NEW k \in Keys, NEW cp \in Solution, NEW op \in Writes,
             WriteStep(r, k, cp, op)
      PROVE  VersionInv'
  BY <1>1, WriteVersionInv
<1>2. ASSUME NEW r \in Requests, NEW gone \in SUBSET Keys, RemoveStep(r, gone)
      PROVE  VersionInv'
  <2>1. UNCHANGED heap
    BY <1>2 DEF RemoveStep
  <2>2. NoEffectYet'
    BY <1>2, RemoveMoves DEF VersionInv, NoEffectYet
  <2>3. \A s \in Requests : items'[s] \subseteq Committed
    BY <1>2, RemoveMoves DEF VersionInv, CellsCommitted
  <2>4. \A s \in Requests : pc[s] # "idle" => pc'[s] # "idle"
    BY <1>2, RemoveMoves
  <2> QED
    BY <1>2, <2>1, <2>2, <2>3, <2>4, RemoveMoves, KeepVersionInv
<1>3. ASSUME NEW r \in Requests, ListStep(r) PROVE VersionInv'
  <2>1. Committed' = Committed
    BY <1>3, ListMoves DEF Committed
  <2>2. NoEffectYet'
    BY <1>3, ListMoves DEF VersionInv, NoEffectYet
  <2>3. \A s \in Requests : items'[s] \subseteq Committed
    BY <1>3, ListMoves DEF VersionInv, CellsCommitted
  <2> QED
    BY <1>3, <2>1, <2>2, <2>3, ListMoves, KeepVersionInv
<1>4. CASE \/ UNCHANGED vars \/ WatchStep
           \/ \E r \in Requests : MoveStep(r) \/ Announce(r) \/ AnnounceDeleted(r)
  BY <1>4, OnwardSteps, OnwardVersionInv
<1> QED
  BY <1>1, <1>2, <1>3, <1>4, NextKinds DEF Kinds

LEMMA InitVersionInv == Init => VersionInv
<1> SUFFICES ASSUME Init PROVE VersionInv
  OBVIOUS
<1>1. Committed = {}
  BY DEF Init, NoEffect, Committed
<1> QED
  BY <1>1 DEF Init, NoEffect, VersionInv, NoEffectYet, CellsCommitted, StoredIsLatest,
     BornBegan, VersionNamesContent

LEMMA VersionInvariance == Spec => []VersionInv
<1>1. IInv /\ VersionInv /\ [Next]_vars => VersionInv'
  BY NextVersionInv
<1> QED
  BY <1>1, InitVersionInv, Invariance, PTL DEF Spec

(* No two writes, by whatever interleaving of requests and in-place status     *)
(* updates, ever give two states of one incarnation the same resourceVersion.  *)
THEOREM VersionsDistinct == Spec => []VersionNamesContent
<1>1. VersionInv => VersionNamesContent
  BY DEF VersionInv
<1> QED
  BY <1>1, VersionInvariance, PTL

--------------------------------------------------------------------------------
(* What a broadcast does to the channels.                                      *)

(* w is sent an event of obj.                                                  *)
Reached(w, obj) == w \in watchers \ stopped /\ Matches(w, obj) /\ ~Full(w)

LEMMA BroadcastSends ==
  ASSUME IInv, NEW r \in Requests, NEW type \in EventTypes, NEW obj \in Solution,
         broadcast(r, type, obj), NEW w \in Watches
  PROVE  /\ Reached(w, obj) =>
              /\ Len(sent'[w]) = Len(sent[w]) + 1
              /\ sent'[w][Len(sent[w]) + 1].type = type
              /\ sent'[w][Len(sent[w]) + 1].by = r
              /\ sent'[w][Len(sent[w]) + 1].obj = obj
         /\ ~Reached(w, obj) => sent'[w] = sent[w]
         /\ \A i \in DOMAIN sent[w] : i \in DOMAIN sent'[w] /\ sent'[w][i] = sent[w][i]
         /\ \A i \in DOMAIN sent'[w] : i \in DOMAIN sent[w] \/ i = Len(sent[w]) + 1
         /\ Len(sent[w]) \in Nat /\ DOMAIN sent[w] = 1 .. Len(sent[w])
         /\ DOMAIN sent'[w] = 1 .. Len(sent'[w])
<1> DEFINE event == [type |-> type, by |-> r, obj |-> obj]
<1>1. event \in Event /\ event.type = type /\ event.by = r /\ event.obj = obj
  BY DEF Event
<1>2. sent[w] \in Seq(Event)
  BY DEF IInv, TypeOK
<1>3. sent'[w] = IF Reached(w, obj) THEN Append(sent[w], event) ELSE sent[w]
  BY DEF broadcast, Reached
<1> HIDE DEF event
<1>4. Len(sent[w]) \in Nat /\ DOMAIN sent[w] = 1 .. Len(sent[w])
  BY <1>2
<1>5. CASE ~Reached(w, obj)
  BY <1>3, <1>4, <1>5
<1>6. CASE Reached(w, obj)
  <2>1. /\ Len(sent'[w]) = Len(sent[w]) + 1
        /\ sent'[w][Len(sent[w]) + 1] = event
        /\ DOMAIN sent'[w] = 1 .. Len(sent[w]) + 1
        /\ \A i \in 1 .. Len(sent[w]) : sent'[w][i] = sent[w][i]
    BY <1>1, <1>2, <1>3, <1>6, AppendProperties
  <2> QED
    BY <1>1, <1>4, <1>6, <2>1
<1> QED
  BY <1>5, <1>6

(* Whatever is sent now is of r, of that type and that object.                 *)
LEMMA BroadcastTells ==
  ASSUME IInv, NEW r \in Requests, NEW type \in EventTypes, NEW obj \in Solution,
         broadcast(r, type, obj), NEW w \in Watches, NEW i \in DOMAIN sent'[w]
  PROVE  \/ i \in DOMAIN sent[w] /\ sent'[w][i] = sent[w][i]
         \/ sent'[w][i].type = type /\ sent'[w][i].by = r /\ sent'[w][i].obj = obj
<1>1. CASE i \in DOMAIN sent[w]
  BY <1>1, BroadcastSends
<1>2. CASE i \notin DOMAIN sent[w]
  <2>1. i = Len(sent[w]) + 1 /\ sent'[w] # sent[w]
    BY <1>2, BroadcastSends
  <2> QED
    BY <2>1, BroadcastSends
<1> QED
  BY <1>1, <1>2

LEMMA AnnounceSends ==
  ASSUME IInv, NEW r \in Requests, Announce(r)
  PROVE  \E type \in EventTypes \ {"DELETED"} :
            /\ broadcast(r, type, heap[r])
            /\ pc[r] = "broadcast" /\ result[r].op \in Writes
            /\ heap[r] # Nil /\ heap[r] \in Solution
  BY DEF Announce, EventTypes, IInv, CellAllocated, TypeOK, Writes

LEMMA AnnounceDeletedSends ==
  ASSUME IInv, NEW r \in Requests, AnnounceDeleted(r)
  PROVE  \E obj \in items[r] :
            /\ broadcast(r, "DELETED", obj)
            /\ items' = [items EXCEPT ![r] = @ \ {obj}]
            /\ pc[r] = "broadcast" /\ result[r].op \in {"Delete", "DeleteCollection"}
            /\ obj \in Solution /\ "DELETED" \in EventTypes
  BY DEF AnnounceDeleted, EventTypes, IInv, TypeOK

--------------------------------------------------------------------------------
(* What is sent, and what is gone.                                             *)

LEMMA WriteDead ==
  ASSUME IInv, VersionInv, NEW r \in Requests, NEW k \in Keys, NEW cp \in Solution,
         NEW op \in Writes, WriteStep(r, k, cp, op), NEW o \in Committed, Dead(o)
  PROVE  Dead(o)'
<1> SUFFICES ASSUME NEW j \in Keys, objects'[j] # Nil
             PROVE  Existing(j)'.born # o.born
  BY DEF Dead
<1>1. CASE j = k
  <2>1. Existing(j)' = cp
    BY <1>1, WriteStores
  <2>2. CASE objects[k] = Nil
    BY <2>1, <2>2, WriteIsNew
  <2>3. CASE objects[k] # Nil
    BY <2>1, <2>3 DEF WriteStep, Dead
  <2> QED
    BY <2>2, <2>3
<1>2. CASE j # k
  BY <1>2, WriteStores DEF Dead
<1> QED
  BY <1>1, <1>2

LEMMA StillDead ==
  ASSUME UNCHANGED heap, \A k \in Keys : objects'[k] # Nil => objects'[k] = objects[k],
         NEW o, Dead(o)
  PROVE  Dead(o)'
  BY DEF Dead, Existing

LEMMA QuietEventInv ==
  ASSUME IInv, VersionInv, EventInv, UNCHANGED sent, Committed \subseteq Committed',
         \A o \in Committed : Dead(o) => Dead(o)',
         RemovedIsDead'
  PROVE  EventInv'
  BY DEF EventInv, EventsCommitted, DeletedIsDead

LEMMA WriteEventInv ==
  ASSUME IInv, VersionInv, EventInv, NEW r \in Requests, NEW k \in Keys,
         NEW cp \in Solution, NEW op \in Writes, WriteStep(r, k, cp, op)
  PROVE  EventInv'
<1>1. /\ pc[r] = "idle" /\ UNCHANGED <<items, sent>>
      /\ \A s \in Requests : s # r => pc'[s] = pc[s]
  BY WriteMoves DEF watchVars
<1>2. Committed' = Committed \cup {cp}
  BY <1>1, WriteMoves, EffectCommits DEF Open
<1>3. \A o \in Committed : Dead(o) => Dead(o)'
  BY WriteDead
<1>4. RemovedIsDead'
  <2> SUFFICES ASSUME NEW s \in Requests, pc'[s] # "collect", NEW o \in items'[s]
               PROVE  Dead(o)'
    BY DEF RemovedIsDead
  <2>1. s # r /\ o \in items[s] /\ o \in Committed
    BY <1>1 DEF VersionInv, NoEffectYet, CellsCommitted
  <2> QED
    BY <1>1, <1>3, <2>1 DEF EventInv, RemovedIsDead
<1> QED
  BY <1>1, <1>2, <1>3, <1>4, QuietEventInv

LEMMA RemoveEventInv ==
  ASSUME IInv, VersionInv, EventInv, NEW r \in Requests, NEW gone \in SUBSET Keys,
         RemoveStep(r, gone)
  PROVE  EventInv'
<1>1. UNCHANGED <<heap, sent>>
  BY DEF RemoveStep, watchVars
<1>2. \A o : Dead(o) => Dead(o)'
  BY <1>1, RemoveMoves, StillDead
<1>3. \A o \in items'[r] : o.key \in gone
  BY ExistingType DEF RemoveStep
<1>4. RemovedIsDead'
  <2> SUFFICES ASSUME NEW s \in Requests, pc'[s] # "collect", NEW o \in items'[s]
               PROVE  Dead(o)'
    BY DEF RemovedIsDead
  <2>1. CASE s = r
    <3> SUFFICES ASSUME NEW k \in Keys, objects'[k] # Nil
                 PROVE  Existing(k)'.born # o.born
      BY DEF Dead
    <3>1. objects[k] # Nil /\ k \notin gone /\ Existing(k)' = Existing(k)
      BY <1>1, RemoveMoves DEF Existing
    <3>2. o \in Committed /\ o.key # k
      BY <1>3, <2>1, <3>1, RemoveMoves
    <3> QED
      BY <3>1, <3>2 DEF VersionInv, StoredIsLatest
  <2>2. CASE s # r
    BY <1>2, <2>2, RemoveMoves DEF EventInv, RemovedIsDead
  <2> QED
    BY <2>1, <2>2
<1> QED
  BY <1>1, <1>2, <1>4, RemoveMoves, QuietEventInv

LEMMA ListEventInv ==
  ASSUME IInv, VersionInv, EventInv, NEW r \in Requests, ListStep(r)
  PROVE  EventInv'
<1>1. UNCHANGED <<objects, heap, effect, sent>>
  BY ListMoves DEF watchVars
<1>2. Committed' = Committed /\ \A o : Dead(o) => Dead(o)'
  BY <1>1 DEF Committed, Dead, Existing
<1>3. RemovedIsDead'
  BY <1>2, ListMoves DEF EventInv, RemovedIsDead
<1> QED
  BY <1>1, <1>2, <1>3, QuietEventInv

(* Other steps send nothing, or what they find in a cell or among their items. *)
LEMMA OnwardDead ==
  ASSUME IInv, VersionInv, EventInv, Onward
  PROVE  /\ Committed' = Committed
         /\ \A o : Dead(o) => Dead(o)'
         /\ RemovedIsDead'
<1>1. Committed' = Committed /\ \A o : Dead(o) => Dead(o)'
  BY DEF Onward, Committed, Dead, Existing
<1>2. RemovedIsDead'
  BY <1>1 DEF EventInv, RemovedIsDead, Onward
<1> QED
  BY <1>1, <1>2

LEMMA BroadcastEventInv ==
  ASSUME IInv, VersionInv, EventInv, Onward, NEW r \in Requests, NEW type \in EventTypes,
         NEW obj \in Committed, broadcast(r, type, obj),
         type = "DELETED" => Dead(obj)
  PROVE  EventInv'
<1>1. obj \in Solution
  BY CommittedType
<1>2. EventsCommitted'
  <2> SUFFICES ASSUME NEW w \in Watches, NEW i \in DOMAIN sent'[w]
               PROVE  sent'[w][i].obj \in Committed'
    BY DEF EventsCommitted
  <2> QED
    BY <1>1, BroadcastTells, OnwardDead DEF EventInv, EventsCommitted
<1>3. DeletedIsDead'
  <2> SUFFICES ASSUME NEW w \in Watches, NEW i \in DOMAIN sent'[w],
                      sent'[w][i].type = "DELETED", NEW o, o = sent'[w][i].obj
               PROVE  Dead(o)'
    BY DEF DeletedIsDead, Dead
  <2>1. Dead(o)
    BY <1>1, BroadcastTells DEF EventInv, DeletedIsDead
  <2> QED
    BY <2>1, OnwardDead
<1> QED
  BY <1>2, <1>3, OnwardDead DEF EventInv

LEMMA NextEventInv ==
  ASSUME IInv, VersionInv, EventInv, [Next]_vars
  PROVE  EventInv'
<1>1. CASE \E r \in Requests : Kinds(r) /\ ~MoveStep(r) /\ ~Announce(r) /\ ~AnnounceDeleted(r)
  BY <1>1, WriteEventInv, RemoveEventInv, ListEventInv DEF Kinds
<1>2. ASSUME NEW r \in Requests, Announce(r) PROVE EventInv'
  <2>1. PICK type \in EventTypes \ {"DELETED"} :
          broadcast(r, type, heap[r]) /\ heap[r] # Nil
    BY <1>2, AnnounceSends
  <2>2. heap[r] \in Committed /\ Onward
    BY <1>2, <2>1, OnwardSteps DEF VersionInv, CellsCommitted
  <2> QED
    BY <2>1, <2>2, BroadcastEventInv
<1>3. ASSUME NEW r \in Requests, AnnounceDeleted(r) PROVE EventInv'
  <2>1. PICK obj \in items[r] : broadcast(r, "DELETED", obj) /\ pc[r] = "broadcast"
    BY <1>3, AnnounceDeletedSends
  <2>2. obj \in Committed /\ Dead(obj) /\ Onward
    BY <1>3, <2>1, OnwardSteps DEF VersionInv, CellsCommitted, EventInv, RemovedIsDead
  <2> QED
    BY <2>1, <2>2, BroadcastEventInv DEF EventTypes
<1>4. CASE UNCHANGED vars \/ WatchStep \/ \E r \in Requests : MoveStep(r)
  <2>1. Onward
    BY <1>4, OnwardSteps
  <2>2. UNCHANGED sent
    BY <1>4 DEF vars, WatchStep, Stop, Receive, Watch, MoveStep, RespondDeleted, CopyVersion,
       CopyStatus, Respond, watchVars
  <2> QED
    BY <2>1, <2>2, OnwardDead, QuietEventInv
<1> QED
  BY <1>1, <1>2, <1>3, <1>4, NextKinds

LEMMA InitEventInv == Init => EventInv
  BY DEF Init, EventInv, EventsCommitted, RemovedIsDead, DeletedIsDead

LEMMA EventInvariance == Spec => []EventInv
<1>1. IInv /\ VersionInv /\ EventInv /\ [Next]_vars => EventInv'
  BY NextEventInv
<1> QED
  BY <1>1, InitEventInv, Invariance, VersionInvariance, PTL DEF Spec

(* No event shows a state of an object that was never stored.                  *)
THEOREM EventsWereStored == Spec => []EventsCommitted
<1>1. EventInv => EventsCommitted
  BY DEF EventInv
<1> QED
  BY <1>1, EventInvariance, PTL

(* What a watcher has seen DELETED is never stored again, although what        *)
(* DeleteCollection deletes may have been overtaken by other writes.           *)
THEOREM DeletedForGood == Spec => []DeletedIsGone
<1>1. ASSUME IInv, EventInv PROVE DeletedIsGone
  BY <1>1, StoredValue DEF EventInv, DeletedIsDead, Dead, DeletedIsGone
<1> QED
  BY <1>1, Invariance, EventInvariance, PTL

--------------------------------------------------------------------------------
(* How far a cell, an event, a response may run ahead of its write.            *)

(* The effect of a request that has had one is final.                          *)
LEMMA EffectFinal ==
  ASSUME IInv, VersionInv, NEW r \in Requests, NEW objs, Open(r), TakeEffect(r, objs),
         NEW s \in Requests, effect[s].objs # {}
  PROVE  s # r /\ effect'[s] = effect[s]
  BY EffectCommits DEF VersionInv, NoEffectYet, Open

LEMMA NearStays ==
  ASSUME NEW s \in Requests, NEW sol, Near(s, sol), effect'[s] = effect[s]
  PROVE  Near(s, sol)'
  BY DEF Near

(* The properties of responses and events, by themselves.                      *)
ResponseNear ==
    \A r \in Requests : response[r].rv # 0 =>
        \E o \in effect[r].objs : response[r].rv \in {o.rv, o.rv + 1}

EventNear ==
    \A w \in Watches : \A i \in DOMAIN sent[w] :
        sent[w][i].type # "DELETED" =>
            \E o \in effect[sent[w][i].by].objs : sent[w][i].obj.rv \in {o.rv, o.rv + 1}

LEMMA NearParts == AtMostOneAhead <=> ResponseNear /\ EventNear
  BY DEF AtMostOneAhead, ResponseNear, EventNear

LEMMA EffectNearInv ==
  ASSUME IInv, VersionInv, NearInv, NEW r \in Requests, NEW objs, Open(r),
         TakeEffect(r, objs), UNCHANGED <<sent, response>>
  PROVE  AtMostOneAhead'
<1>1. \A s \in Requests : effect[s].objs # {} => effect'[s] = effect[s]
  BY EffectFinal
<1>2. ResponseNear'
  BY <1>1, NearParts DEF NearInv, ResponseNear
<1>3. EventNear'
  <2> SUFFICES ASSUME NEW w \in Watches, NEW i \in DOMAIN sent[w],
                      sent[w][i].type # "DELETED"
               PROVE  \E o \in effect'[sent[w][i].by].objs :
                         sent[w][i].obj.rv \in {o.rv, o.rv + 1}
    BY DEF EventNear
  <2>1. PICK o \in effect[sent[w][i].by].objs : sent[w][i].obj.rv \in {o.rv, o.rv + 1}
    BY NearParts DEF NearInv, EventNear
  <2>2. sent[w][i].by \in Requests
    BY EventRequest DEF IInv
  <2> QED
    BY <1>1, <2>1, <2>2
<1>4. AtMostOneAhead' <=> ResponseNear' /\ EventNear'
  BY DEF AtMostOneAhead, ResponseNear, EventNear
<1> QED
  BY <1>2, <1>3, <1>4

LEMMA WriteNearInv ==
  ASSUME IInv, VersionInv, NearInv, NEW r \in Requests, NEW k \in Keys,
         NEW cp \in Solution, NEW op \in Writes, WriteStep(r, k, cp, op)
  PROVE  NearInv'
<1>1. Open(r) /\ TakeEffect(r, {cp}) /\ UNCHANGED <<sent, response>>
  BY WriteMoves DEF Open, watchVars
<1>2. AtMostOneAhead'
  BY <1>1, EffectNearInv
<1>3. effect'[r].objs = {cp} /\ \A s \in Requests : s # r => effect'[s] = effect[s]
  BY <1>1, EffectCommits
<1>4. PointedIsOwn'
  <2> SUFFICES ASSUME NEW j \in Keys, objects'[j] # Nil
               PROVE  heap'[objects'[j]] \in effect'[objects'[j]].objs
    BY DEF PointedIsOwn
  <2>1. CASE j = k
    BY <1>3, <2>1, WriteStores DEF WriteStep
  <2>2. CASE j # k
    <3>1. /\ objects[j] # Nil /\ objects'[j] = objects[j] /\ objects[j] \in Requests
          /\ heap'[objects[j]] = heap[objects[j]]
      BY <2>2, WriteStores, ExistingType DEF Existing
    <3>2. heap[objects[j]] \in effect[objects[j]].objs
      BY <3>1 DEF NearInv, PointedIsOwn
    <3>3. effect'[objects[j]] = effect[objects[j]]
      BY <1>1, <3>1, <3>2, EffectFinal
    <3> QED
      BY <3>1, <3>2, <3>3
  <2> QED
    BY <2>1, <2>2
<1>5. CellNear'
  <2> SUFFICES ASSUME NEW s \in Requests, heap'[s] # Nil, NEW sol, sol = heap'[s]
               PROVE  Near(s, sol)'
    BY DEF CellNear, Near
  <2>1. CASE s = r
    BY <1>3, <2>1 DEF WriteStep, Near
  <2>2. CASE s # r /\ heap'[s] = heap[s]
    <3>1. Near(s, sol)
      BY <2>2 DEF NearInv, CellNear
    <3> QED
      BY <1>3, <2>2, <3>1, NearStays
  <2>3. CASE s # r /\ objects[k] = s /\ heap'[s] = cp /\ cp.spec = heap[s].spec
    <3>1. objects[k] # Nil /\ Existing(k) = heap[s]
      BY <2>3, NilIsNoSolution DEF Existing
    <3>2. heap[s] \in effect[s].objs /\ heap[s].key = k
      BY <2>3, <3>1, ExistingType DEF NearInv, PointedIsOwn
    <3>3. cp.key = k /\ cp.rv = heap[s].rv + 1
      BY <3>1 DEF WriteStep
    <3>4. Near(s, sol)
      BY <2>3, <3>2, <3>3 DEF Near
    <3> QED
      BY <1>3, <2>3, <3>4, NearStays
  <2> QED
    BY <2>1, <2>2, <2>3 DEF WriteStep
<1> QED
  BY <1>2, <1>4, <1>5 DEF NearInv

LEMMA RemoveNearInv ==
  ASSUME IInv, VersionInv, NearInv, NEW r \in Requests, NEW gone \in SUBSET Keys,
         RemoveStep(r, gone)
  PROVE  NearInv'
<1>1. PICK objs : TakeEffect(r, objs)
  BY DEF RemoveStep
<1>2. Open(r) /\ UNCHANGED <<heap, sent, response>>
  BY DEF RemoveStep, Open, watchVars
<1>3. AtMostOneAhead'
  BY <1>1, <1>2, EffectNearInv
<1>4. \A s \in Requests : effect[s].objs # {} => effect'[s] = effect[s]
  BY <1>1, <1>2, EffectFinal
<1>5. PointedIsOwn'
  BY <1>2, <1>4, RemoveMoves, ExistingType DEF NearInv, PointedIsOwn
<1>6. CellNear'
  BY <1>2, <1>4 DEF NearInv, CellNear, Near
<1> QED
  BY <1>3, <1>5, <1>6 DEF NearInv

LEMMA OnwardNearInv ==
  ASSUME NearInv, UNCHANGED <<objects, heap, effect>>, ResponseNear', EventNear'
  PROVE  NearInv'
<1>1. PointedIsOwn' /\ CellNear'
  BY DEF NearInv, PointedIsOwn, CellNear, Near
<1>2. AtMostOneAhead' <=> ResponseNear' /\ EventNear'
  BY DEF AtMostOneAhead, ResponseNear, EventNear
<1> QED
  BY <1>1, <1>2 DEF NearInv

LEMMA CopyNearInv ==
  ASSUME IInv, NearInv, NEW r \in Requests, CopyVersion(r) \/ CopyStatus(r)
  PROVE  NearInv'
<1>1. UNCHANGED <<objects, heap, effect, sent>>
  BY DEF CopyVersion, CopyStatus, objectVars, effectVars, watchVars
<1>2. heap[r] # Nil
  BY DEF CopyVersion, CopyStatus, IInv, CellAllocated
<1>3. /\ response'[r].rv \in {response[r].rv, heap[r].rv}
      /\ \A s \in Requests : s # r => response'[s] = response[s]
  <2>1. response \in [Requests -> [rv: Nat, phase: Phases \cup {Nil}]]
    BY DEF IInv, TypeOK
  <2> QED
    BY <2>1 DEF CopyVersion, CopyStatus
<1>4. ResponseNear'
  <2> SUFFICES ASSUME NEW s \in Requests, response'[s].rv # 0
               PROVE  \E o \in effect[s].objs : response'[s].rv \in {o.rv, o.rv + 1}
    BY <1>1 DEF ResponseNear
  <2>1. CASE response'[s].rv = response[s].rv
    BY <2>1, NearParts DEF NearInv, ResponseNear
  <2>2. CASE s = r /\ response'[r].rv = heap[r].rv
    BY <1>2, <2>2 DEF NearInv, CellNear, Near
  <2> QED
    BY <1>3, <2>1, <2>2
<1>5. EventNear'
  BY <1>1, NearParts DEF NearInv, EventNear
<1> QED
  BY <1>1, <1>4, <1>5, OnwardNearInv

LEMMA AnnounceNearInv ==
  ASSUME IInv, NearInv, NEW r \in Requests, Announce(r) \/ AnnounceDeleted(r)
  PROVE  NearInv'
<1>1. PICK type \in EventTypes, obj \in Solution :
        /\ broadcast(r, type, obj)
        /\ type # "DELETED" => obj = heap[r] /\ heap[r] # Nil
  BY AnnounceSends, AnnounceDeletedSends
<1>2. UNCHANGED <<objects, heap, effect, response>>
  BY <1>1 DEF broadcast, objectVars, effectVars
<1>3. ResponseNear'
  BY <1>2, NearParts DEF NearInv, ResponseNear
<1>4. EventNear'
  <2> SUFFICES ASSUME NEW w \in Watches, NEW i \in DOMAIN sent'[w],
                      sent'[w][i].type # "DELETED"
               PROVE  \E o \in effect[sent'[w][i].by].objs :
                         sent'[w][i].obj.rv \in {o.rv, o.rv + 1}
    BY <1>2 DEF EventNear
  <2>1. CASE i \in DOMAIN sent[w] /\ sent'[w][i] = sent[w][i]
    BY <2>1, NearParts DEF NearInv, EventNear
  <2>2. CASE sent'[w][i].type = type /\ sent'[w][i].by = r /\ sent'[w][i].obj = obj
    <3>1. sent'[w][i].obj = heap[r] /\ Near(r, heap[r])
      BY <1>1, <2>2 DEF NearInv, CellNear
    <3> QED
      BY <2>2, <3>1 DEF Near
  <2> QED
    BY <1>1, <2>1, <2>2, BroadcastTells
<1> QED
  BY <1>2, <1>3, <1>4, OnwardNearInv

LEMMA NextNearInv ==
  ASSUME IInv, VersionInv, NearInv, [Next]_vars
  PROVE  NearInv'
<1>1. ASSUME NEW r \in Requests, NEW k \in Keys, NEW cp \in Solution, NEW op \in Writes,
             WriteStep(r, k, cp, op)
      PROVE  NearInv'
  BY <1>1, WriteNearInv
<1>2. ASSUME NEW r \in Requests, NEW gone \in SUBSET Keys, RemoveStep(r, gone)
      PROVE  NearInv'
  BY <1>2, RemoveNearInv
<1>3. ASSUME NEW r \in Requests,
             CopyVersion(r) \/ CopyStatus(r) \/ Announce(r) \/ AnnounceDeleted(r)
      PROVE  NearInv'
  BY <1>3, CopyNearInv, AnnounceNearInv
<1>4. CASE UNCHANGED <<objects, heap, effect, sent, response>>
  <2>1. ResponseNear' /\ EventNear'
    BY <1>4, NearParts DEF NearInv, ResponseNear, EventNear
  <2> QED
    BY <1>4, <2>1, OnwardNearInv
<1>5. ASSUME NEW r \in Requests, ListStep(r) PROVE NearInv'
  BY <1>4, <1>5, ListMoves DEF watchVars
<1>6. ASSUME NEW r \in Requests, MoveStep(r) PROVE NearInv'
  BY <1>3, <1>4, <1>6 DEF MoveStep, RespondDeleted, Respond, objectVars, effectVars, watchVars
<1>7. CASE UNCHANGED vars \/ WatchStep
  BY <1>4, <1>7 DEF vars, WatchStep, Stop, Receive, Watch, objectVars, effectVars, watchVars,
     requestVars
<1> QED
  BY <1>1, <1>2, <1>3, <1>5, <1>6, <1>7, NextKinds DEF Kinds

LEMMA InitNearInv == Init => NearInv
  BY DEF Init, NoFields, NearInv, PointedIsOwn, CellNear, AtMostOneAhead

LEMMA NearInvariance == Spec => []NearInv
<1>1. IInv /\ VersionInv /\ NearInv /\ [Next]_vars => NearInv'
  BY NextNearInv
<1> QED
  BY <1>1, InitNearInv, Invariance, VersionInvariance, PTL DEF Spec

(* The in-place write of UpdateStatus moves the event and the response of an   *)
(* earlier write by at most one version, however many status updates follow.   *)
THEOREM OneAhead == Spec => []AtMostOneAhead
<1>1. NearInv => AtMostOneAhead
  BY DEF NearInv
<1> QED
  BY <1>1, NearInvariance, PTL

--------------------------------------------------------------------------------
(* Who has been told.                                                          *)

LEMMA SilentUntilAnnouncing ==
  ASSUME OrderInv, NEW r \in Requests, pc[r] \notin Announcing
  PROVE  Silent(r)
  BY DEF OrderInv, EventsAnnounced, Silent, Copies

LEMMA RegisteredFilter ==
  ASSUME IInv, OrderInv, NEW w \in watchers
  PROVE  w \in Watches /\ filter[w] # Nil
  BY DEF IInv, TypeOK, OrderInv, UnwatchedSentNothing

(* A request in whose watchers, answer and channels nothing changes.           *)
Settled(s) ==
    /\ pc'[s] = pc[s] /\ result'[s] = result[s]
    /\ effect'[s] = effect[s]
    /\ Open(s) \/ items'[s] = items[s]

(* The parts of OnceInv that speak of one request.                             *)
Registered(r) ==
    \A w \in effect[r].watched : filter[w] # Nil /\ (w \in watchers \/ w \in stopped)

EffectOne(r) ==
    ~Open(r) =>
        /\ result[r] # Nil
        /\ Tells(r) => \E o \in effect[r].objs :
              /\ effect[r].objs = {o}
              /\ result[r].op = "Delete" =>
                    /\ pc[r] # "respond"
                    /\ items[r] = {o} \/ (items[r] = {} /\ Told(r))
        /\ ~Tells(r) /\ result[r].op # "DeleteCollection" => effect[r].watched = {}

QuietBefore(r) == ~Open(r) /\ Tells(r) /\ ~Told(r) => Silent(r)

InformedAfter(r) ==
    ~Open(r) /\ Tells(r) /\ Told(r) =>
        \A w \in effect[r].watched : \A o \in effect[r].objs : Informed(r, w, o)

Kept(r) == Registered(r) /\ EffectOne(r) /\ QuietBefore(r) /\ InformedAfter(r)

LEMMA OnceParts == OnceInv <=> \A r \in Requests : Kept(r)
  BY DEF OnceInv, WatchedIsRegistered, OneEffect, SilentBefore, ToldIsInformed, Kept,
     Registered, EffectOne, QuietBefore, InformedAfter

LEMMA OncePartsNext == OnceInv' <=> \A r \in Requests : Kept(r)'
  BY DEF OnceInv, WatchedIsRegistered, OneEffect, SilentBefore, ToldIsInformed, Kept,
     Registered, EffectOne, QuietBefore, InformedAfter

(* Nothing is sent, and who is registered stays so or is stopped.              *)
ChannelsQuiet ==
    /\ UNCHANGED <<sent, missed>>
    /\ stopped \subseteq stopped'
    /\ watchers \subseteq watchers'
    /\ \A w \in Watches : filter[w] # Nil => filter'[w] = filter[w]

LEMMA InformedStays ==
  ASSUME TypeOK, ChannelsQuiet, NEW s \in Requests, NEW w \in Watches, filter[w] # Nil, NEW o,
         Informed(s, w, o)
  PROVE  Informed(s, w, o)'
  BY DEF ChannelsQuiet, Informed, Matches, Copies

LEMMA KeptSettled ==
  ASSUME IInv, NEW s \in Requests, Kept(s), Settled(s), ChannelsQuiet
  PROVE  Kept(s)'
<1>1. \A w \in effect[s].watched : w \in Watches /\ filter[w] # Nil
  BY DEF Kept, Registered, IInv, TypeOK
<1>2. Registered(s)'
  BY <1>1 DEF Kept, Registered, Settled, ChannelsQuiet
<1>3. EffectOne(s)'
  BY DEF Kept, EffectOne, Settled, Tells, Told, Open
<1>4. QuietBefore(s)'
  BY DEF Kept, QuietBefore, Settled, Tells, Told, Open, Silent, Copies, ChannelsQuiet
<1>5. InformedAfter(s)'
  <2> SUFFICES ASSUME ~Open(s)', Tells(s)', Told(s)',
                      NEW w \in effect'[s].watched, NEW o \in effect'[s].objs
               PROVE  Informed(s, w, o)'
    BY DEF InformedAfter
  <2>1. ~Open(s) /\ Tells(s) /\ Told(s)
    BY DEF Settled, Tells, Told, Open
  <2>2. Informed(s, w, o)
    BY <2>1 DEF Kept, InformedAfter, Settled
  <2> QED
    BY <1>1, <2>2, InformedStays DEF IInv, Settled
<1> QED
  BY <1>2, <1>3, <1>4, <1>5 DEF Kept

LEMMA WriteKept ==
  ASSUME IInv, VersionInv, OrderInv, NEW r \in Requests, NEW k \in Keys,
         NEW cp \in Solution, NEW op \in Writes, WriteStep(r, k, cp, op)
  PROVE  Kept(r)'
<1>1. /\ pc[r] = "idle" /\ pc'[r] = "locked" /\ result'[r] = Reply(op, "ok")
      /\ UNCHANGED watchVars
  BY WriteMoves
<1>2. effect'[r].objs = {cp} /\ effect'[r].watched = watchers
  BY <1>1, WriteMoves, EffectCommits DEF Open
<1>3. op \in Operations /\ "ok" \in Outcomes /\ op # "Delete"
  BY DEF Writes, Operations, Outcomes
<1>4. /\ Tells(r)' /\ ~Told(r)'
      /\ result'[r] # Nil /\ result'[r].op # "Delete"
  BY <1>1, <1>3, ReplyType DEF Tells, Told
<1>5. Registered(r)'
  BY <1>1, <1>2, RegisteredFilter DEF Registered, watchVars
<1>6. EffectOne(r)'
  BY <1>2, <1>4 DEF EffectOne
<1>7. QuietBefore(r)'
  <2>1. Silent(r)
    BY <1>1, SilentUntilAnnouncing DEF Announcing
  <2> QED
    BY <1>1, <2>1 DEF QuietBefore, Silent, Copies, watchVars
<1>8. InformedAfter(r)'
  BY <1>4 DEF InformedAfter
<1> QED
  BY <1>5, <1>6, <1>7, <1>8 DEF Kept

LEMMA RemoveKept ==
  ASSUME IInv, VersionInv, OrderInv, NEW r \in Requests, NEW gone \in SUBSET Keys,
         RemoveStep(r, gone)
  PROVE  Kept(r)'
<1>1. /\ Open(r) /\ pc'[r] = "locked" /\ effect'[r].watched = watchers
      /\ UNCHANGED watchVars
  BY RemoveMoves DEF RemoveStep
<1>2. Registered(r)'
  BY <1>1, RegisteredFilter DEF Registered, watchVars
<1>3. Silent(r)'
  <2>1. Silent(r)
    BY <1>1, SilentUntilAnnouncing DEF Announcing, Open
  <2> QED
    BY <1>1, <2>1 DEF Silent, Copies, watchVars
<1>4. ~Told(r)'
  BY <1>1 DEF Told
<1>5. EffectOne(r)'
  <2>1. CASE Answer(r, "Delete", "ok")
             /\ \E k \in Keys : gone = {k} /\ objects[k] # Nil /\ items'[r] = {Existing(k)}
    <3>1. PICK k \in Keys : gone = {k} /\ objects[k] # Nil /\ items'[r] = {Existing(k)}
      BY <2>1
    <3>2. {Existing(j) : j \in {j \in gone : objects[j] # Nil}} = {Existing(k)}
      BY <3>1
    <3>3. effect'[r].objs = {Existing(k)}
      BY <3>2 DEF RemoveStep, TakeEffect, IInv, TypeOK
    <3>4. result'[r] = Reply("Delete", "ok")
      BY <2>1 DEF Answer, IInv, TypeOK
    <3>5. result'[r] # Nil /\ Tells(r)'
      BY <3>4, ReplyType DEF Tells, Operations, Outcomes
    <3> QED
      BY <1>1, <3>1, <3>3, <3>5 DEF EffectOne
  <2>2. CASE \E out \in Outcomes : Answer(r, "DeleteCollection", out)
    <3>1. PICK out \in Outcomes : result'[r] = Reply("DeleteCollection", out)
      BY <2>2 DEF Answer, IInv, TypeOK
    <3>2. result'[r] # Nil /\ result'[r].op = "DeleteCollection"
      BY <3>1, ReplyType DEF Operations
    <3> QED
      BY <3>2 DEF EffectOne, Tells, Writes
  <2> QED
    BY <2>1, <2>2 DEF RemoveStep
<1> QED
  BY <1>2, <1>3, <1>4, <1>5 DEF Kept, QuietBefore, InformedAfter

LEMMA MoveKept ==
  ASSUME IInv, VersionInv, OrderInv, NEW r \in Requests, Kept(r), MoveStep(r)
  PROVE  Kept(r)'
<1>1. UNCHANGED <<objects, heap, items, effect, sent, missed, watchers, stopped, filter>>
  BY DEF MoveStep, objectVars, watchVars, effectVars
<1>2. Registered(r)'
  BY <1>1 DEF Kept, Registered
<1>3. CASE /\ pc[r] = "idle"
           /\ \E op \in Operations, out \in Outcomes :
                 Answer(r, op, out) /\ (out = "ok" => op = "Get")
  <2>1. PICK op \in Operations, out \in Outcomes :
               result'[r] = Reply(op, out) /\ (out = "ok" => op = "Get")
    BY <1>3 DEF Answer, IInv, TypeOK
  <2>2. result'[r] # Nil /\ ~Tells(r)'
    BY <2>1, ReplyType DEF Tells, Writes
  <2>3. effect[r].watched = {}
    BY <1>3 DEF VersionInv, NoEffectYet
  <2>4. EffectOne(r)'
    BY <1>1, <2>2, <2>3 DEF EffectOne
  <2> QED
    BY <1>2, <2>2, <2>4 DEF Kept, QuietBefore, InformedAfter
<1>4. CASE ~Open(r) /\ ~Open(r)' /\ result'[r] = result[r] /\ (Tells(r) => (Told(r)' <=> Told(r)))
           /\ (Tells(r) /\ result[r].op = "Delete" => pc'[r] # "respond")
  <2>1. Tells(r)' <=> Tells(r)
    BY <1>4 DEF Tells
  <2>2. EffectOne(r)'
    BY <1>1, <1>4, <2>1 DEF Kept, EffectOne
  <2>3. QuietBefore(r)'
    BY <1>1, <1>4, <2>1 DEF Kept, QuietBefore, Silent, Copies
  <2>4. InformedAfter(r)'
    BY <1>1, <1>4, <2>1 DEF Kept, InformedAfter, Informed, Copies, Matches
  <2> QED
    BY <1>2, <2>2, <2>3, <2>4 DEF Kept
<1>5. CASE /\ pc[r] = "locked"
           /\ Goto(r, IF result[r].out = "ok" THEN "broadcast" ELSE "done")
           /\ UNCHANGED <<result, response>>
  <2>1. pc'[r] = IF result[r].out = "ok" THEN "broadcast" ELSE "done"
    BY <1>5 DEF Goto, IInv, TypeOK
  <2>2. ASSUME Tells(r) PROVE ~Told(r) /\ ~Told(r)' /\ pc'[r] # "respond"
    <3>1. ~Told(r) /\ pc'[r] = "broadcast"
      BY <1>5, <2>1, <2>2 DEF Told, Tells
    <3>2. result[r].op = "Delete" => items[r] # {}
      BY <1>5, <2>2, <3>1 DEF Kept, EffectOne, Open
    <3> QED
      BY <1>1, <1>5, <3>1, <3>2 DEF Told
  <2> QED
    BY <1>4, <1>5, <2>1, <2>2 DEF Open
<1>6. CASE CopyVersion(r) \/ CopyStatus(r)
  <2>1. UNCHANGED <<pc, result>> /\ pc[r] = "respond"
    BY <1>6 DEF CopyVersion, CopyStatus
  <2> QED
    BY <1>4, <2>1 DEF Open, Told, Kept, EffectOne
<1>7. CASE Respond(r) \/ RespondDeleted(r)
  <2>1. /\ pc'[r] = "done" /\ UNCHANGED result
        /\ pc[r] = "respond" \/ (pc[r] = "broadcast" /\ items[r] = {}
                                 /\ result[r].op \in {"Delete", "DeleteCollection"})
    BY <1>7 DEF Respond, RespondDeleted, Goto, IInv, TypeOK
  <2>2. Tells(r) => Told(r) /\ Told(r)'
    BY <2>1 DEF Told, Tells, Writes
  <2> QED
    BY <1>4, <2>1, <2>2 DEF Open
<1> QED
  BY <1>3, <1>5, <1>6, <1>7 DEF MoveStep

(* A step that leaves the requests but r, and all channels, alone.             *)
LEMMA OthersKept ==
  ASSUME IInv, OnceInv, NEW r \in Requests, Kept(r)', ChannelsQuiet,
         \A s \in Requests \ {r} : Settled(s)
  PROVE  OnceInv'
<1>1. \A s \in Requests : Kept(s)
  BY OnceParts
<1>2. \A s \in Requests \ {r} : Kept(s)'
  BY <1>1, KeptSettled
<1> QED
  BY <1>2, OncePartsNext

--------------------------------------------------------------------------------
(* The broadcast itself.                                                       *)

LEMMA BroadcastCopies ==
  ASSUME IInv, NEW r \in Requests, NEW type \in EventTypes, NEW obj \in Solution,
         broadcast(r, type, obj), NEW w \in Watches
  PROVE  /\ \A s \in Requests : s # r => Copies(w, s)' = Copies(w, s)
         /\ Copies(w, r) = {} =>
              Copies(w, r)' = IF Reached(w, obj) THEN {Len(sent[w]) + 1} ELSE {}
<1> DEFINE last == Len(sent[w]) + 1
<1>1. /\ Len(sent[w]) \in Nat /\ DOMAIN sent[w] = 1 .. Len(sent[w])
      /\ \A i \in DOMAIN sent[w] : i \in DOMAIN sent'[w] /\ sent'[w][i] = sent[w][i]
      /\ \A i \in DOMAIN sent'[w] : i \in DOMAIN sent[w] \/ i = last
      /\ ~Reached(w, obj) => sent'[w] = sent[w]
      /\ DOMAIN sent'[w] = 1 .. Len(sent'[w])
  BY BroadcastSends
<1>2. CASE ~Reached(w, obj)
  BY <1>1, <1>2 DEF Copies
<1>3. CASE Reached(w, obj)
  <2>1. last \in DOMAIN sent'[w] /\ last \notin DOMAIN sent[w] /\ sent'[w][last].by = r
    BY <1>1, <1>3, BroadcastSends
  <2> HIDE DEF last
  <2>2. ASSUME NEW s \in Requests, s # r PROVE Copies(w, s)' = Copies(w, s)
    BY <1>1, <2>1, <2>2 DEF Copies
  <2>3. ASSUME Copies(w, r) = {} PROVE Copies(w, r)' = {last}
    BY <1>1, <2>1, <2>3 DEF Copies
  <2> QED
    BY <1>3, <2>2, <2>3 DEF last
<1> QED
  BY <1>2, <1>3

(* What a broadcast leaves alone.                                              *)
LEMMA BroadcastKeeps ==
  ASSUME IInv, NEW r \in Requests, NEW type \in EventTypes, NEW obj \in Solution,
         broadcast(r, type, obj)
  PROVE  /\ UNCHANGED <<filter, stopped, result, effect>>
         /\ watchers' = watchers \ stopped
         /\ \A w \in Watches : missed[w] \subseteq missed'[w] /\ Len(sent[w]) <= Len(sent'[w])
         /\ \A w \in Watches : \A o : Matches(w, o)' = Matches(w, o)
<1>1. /\ UNCHANGED <<filter, stopped, result, effect>>
      /\ watchers' = watchers \ stopped
  BY DEF broadcast, effectVars
<1>2. \A w \in Watches : missed[w] \subseteq missed'[w]
  BY DEF broadcast
<1>3. ASSUME NEW w \in Watches PROVE Len(sent[w]) <= Len(sent'[w])
  <2>1. Len(sent[w]) \in Nat
    BY BroadcastSends
  <2>2. Reached(w, obj) => Len(sent'[w]) = Len(sent[w]) + 1
    BY BroadcastSends
  <2>3. ~Reached(w, obj) => sent'[w] = sent[w]
    BY BroadcastSends
  <2> QED
    BY <2>1, <2>2, <2>3
<1> QED
  BY <1>1, <1>2, <1>3 DEF Matches

LEMMA BroadcastOthers ==
  ASSUME IInv, NEW r \in Requests, NEW type \in EventTypes, NEW obj \in Solution,
         broadcast(r, type, obj), NEW s \in Requests \ {r}, Kept(s), Settled(s)
  PROVE  Kept(s)'
<1>1. Registered(s)'
  BY BroadcastKeeps DEF Kept, Registered
<1>2. EffectOne(s)'
  BY DEF Kept, EffectOne, Settled, Tells, Told, Open
<1>3. QuietBefore(s)'
  BY BroadcastCopies DEF Kept, QuietBefore, Settled, Tells, Told, Open, Silent
<1>4. InformedAfter(s)'
  <2> SUFFICES ASSUME ~Open(s)', Tells(s)', Told(s)',
                      NEW w \in effect'[s].watched, NEW o \in effect'[s].objs
               PROVE  Informed(s, w, o)'
    BY DEF InformedAfter
  <2>1. ~Open(s) /\ Tells(s) /\ Told(s)
    BY DEF Settled, Tells, Told, Open
  <2>2. Informed(s, w, o) /\ w \in Watches
    BY <2>1 DEF Kept, InformedAfter, Settled, IInv, TypeOK
  <2>3. Copies(w, s)' = Copies(w, s)
    BY <2>2, BroadcastCopies
  <2>4. /\ Matches(w, o)' = Matches(w, o) /\ stopped' = stopped
        /\ missed[w] \subseteq missed'[w]
        /\ \A i \in DOMAIN sent[w] : i \in DOMAIN sent'[w]
        /\ Len(sent[w]) >= ChanSize => Len(sent'[w]) >= ChanSize
    <3>1. Len(sent[w]) \in Nat /\ Len(sent'[w]) \in Nat /\ Len(sent[w]) <= Len(sent'[w])
      <4>1. Len(sent[w]) \in Nat /\ Len(sent[w]) <= Len(sent'[w])
        BY <2>2, BroadcastSends, BroadcastKeeps
      <4>2. Len(sent'[w]) \in Nat
        BY <2>2, <4>1, BroadcastSends
      <4> QED
        BY <4>1, <4>2
    <3>2. \A i \in DOMAIN sent[w] : i \in DOMAIN sent'[w]
      BY <2>2, BroadcastSends
    <3> QED
      BY <2>2, <3>1, <3>2, BroadcastKeeps, ChanSizeAssumption DEF ChanSizeAssumption
  <2> QED
    BY <2>2, <2>3, <2>4 DEF Informed
<1> QED
  BY <1>1, <1>2, <1>3, <1>4 DEF Kept

(* Nobody the request has to tell is left out, and nobody else is told.        *)
LEMMA BroadcastInforms ==
  ASSUME IInv, NEW r \in Requests, NEW type \in EventTypes, NEW obj \in Solution,
         broadcast(r, type, obj), Silent(r), Registered(r),
         NEW w \in effect[r].watched, NEW o, o.key = obj.key, o.spec = obj.spec
  PROVE  Informed(r, w, o)'
<1>1. w \in Watches /\ (w \in watchers \/ w \in stopped)
  BY DEF Registered, IInv, TypeOK
<1>2. Copies(w, r)' = IF Reached(w, obj) THEN {Len(sent[w]) + 1} ELSE {}
  BY <1>1, BroadcastCopies DEF Silent
<1>3. /\ Matches(w, o)' <=> Matches(w, obj)
      /\ stopped' = stopped
  <2>1. Matches(w, o) <=> Matches(w, obj)
    BY DEF Matches, Selects, GetAttrs
  <2> QED
    BY <1>1, <2>1, BroadcastKeeps
<1>4. Reached(w, obj) => Len(sent[w]) + 1 \in DOMAIN sent'[w]
  BY <1>1, BroadcastSends
<1>5. ASSUME w \in watchers \ stopped, Matches(w, obj), Full(w)
      PROVE  <<r, o.key>> \in missed'[w] /\ Len(sent'[w]) >= ChanSize
  <2>1. <<r, obj.key>> \in missed'[w]
    BY <1>1, <1>5 DEF broadcast
  <2>2. sent'[w] = sent[w]
    BY <1>1, <1>5, BroadcastSends DEF Reached
  <2>3. Len(sent[w]) - taken[w] >= ChanSize /\ taken[w] \in Nat /\ Len(sent[w]) \in Nat
    BY <1>1, <1>5, BroadcastSends DEF Full, IInv, TypeOK
  <2> QED
    BY <2>1, <2>2, <2>3, ChanSizeAssumption DEF ChanSizeAssumption
<1> QED
  BY <1>1, <1>2, <1>3, <1>4, <1>5 DEF Informed, Reached

LEMMA AnnounceKept ==
  ASSUME IInv, NearInv, OnceInv, NEW r \in Requests, Announce(r)
  PROVE  Kept(r)'
<1>1. PICK type \in EventTypes \ {"DELETED"} :
        /\ broadcast(r, type, heap[r])
        /\ pc[r] = "broadcast" /\ result[r].op \in Writes
        /\ heap[r] # Nil /\ heap[r] \in Solution
  BY AnnounceSends
<1>2. pc'[r] = "respond"
  BY DEF Announce, Goto, IInv, TypeOK
<1>3. UNCHANGED <<filter, stopped, result, effect>> /\ watchers' = watchers \ stopped
  BY <1>1, BroadcastKeeps
<1>4. Kept(r)
  BY OnceParts
<1>5. result[r].op # "Delete" /\ ~Told(r) /\ ~Open(r) /\ Tells(r)
  BY <1>1 DEF Told, Open, Tells, Writes, IInv, CellAllocated
<1>6. Tells(r)' /\ Told(r)'
  BY <1>2, <1>3, <1>5 DEF Tells, Told
<1>7. Silent(r) /\ Registered(r)
  BY <1>4, <1>5 DEF Kept, QuietBefore
<1>8. Registered(r)'
  BY <1>3, <1>7 DEF Registered
<1>9. EffectOne(r)'
  BY <1>3, <1>4, <1>5, <1>6 DEF Kept, EffectOne
<1>10. InformedAfter(r)'
  <2> SUFFICES ASSUME NEW w \in effect[r].watched, NEW o \in effect[r].objs
               PROVE  Informed(r, w, o)'
    BY <1>3 DEF InformedAfter
  <2>1. effect[r].objs = {o}
    BY <1>4, <1>5 DEF Kept, EffectOne
  <2>2. o.key = heap[r].key /\ o.spec = heap[r].spec
    BY <1>1, <2>1 DEF NearInv, CellNear, Near
  <2> QED
    BY <1>1, <1>7, <2>2, BroadcastInforms
<1> QED
  BY <1>6, <1>8, <1>9, <1>10 DEF Kept, QuietBefore

LEMMA AnnounceDeletedKept ==
  ASSUME IInv, OnceInv, NEW r \in Requests, AnnounceDeleted(r)
  PROVE  Kept(r)'
<1>1. PICK obj \in items[r] :
        /\ broadcast(r, "DELETED", obj)
        /\ items' = [items EXCEPT ![r] = @ \ {obj}]
        /\ pc[r] = "broadcast" /\ result[r].op \in {"Delete", "DeleteCollection"}
        /\ obj \in Solution /\ "DELETED" \in EventTypes
  BY AnnounceDeletedSends
<1>2. UNCHANGED pc
  BY DEF AnnounceDeleted
<1>3. UNCHANGED <<filter, stopped, result, effect>> /\ watchers' = watchers \ stopped
  BY <1>1, BroadcastKeeps
<1>4. Kept(r) /\ ~Open(r) /\ (Tells(r)' <=> Tells(r))
  BY <1>1, <1>3, OnceParts DEF Open, Tells
<1>5. Registered(r)'
  BY <1>3, <1>4 DEF Kept, Registered
<1>6. CASE result[r].op = "DeleteCollection"
  <2>1. ~Tells(r)
    BY <1>6 DEF Tells, Writes
  <2> QED
    BY <1>3, <1>4, <1>5, <1>6, <2>1 DEF Kept, EffectOne, QuietBefore, InformedAfter
<1>7. CASE result[r].op = "Delete"
  <2>1. Tells(r)
    BY <1>1, <1>7 DEF Tells, IInv, CellAllocated
  <2>2. effect[r].objs = {obj} /\ items[r] = {obj}
    BY <1>1, <1>4, <1>7, <2>1 DEF Kept, EffectOne
  <2>3. items'[r] = {}
    BY <1>1, <2>2 DEF IInv, TypeOK
  <2>4. ~Told(r) /\ Told(r)'
    BY <1>1, <1>2, <1>3, <1>7, <2>2, <2>3 DEF Told
  <2>5. Silent(r) /\ Registered(r)
    BY <1>4, <2>1, <2>4 DEF Kept, QuietBefore
  <2>6. EffectOne(r)'
    BY <1>1, <1>2, <1>3, <1>4, <1>7, <2>1, <2>2, <2>3, <2>4 DEF Kept, EffectOne
  <2>7. InformedAfter(r)'
    <3> SUFFICES ASSUME NEW w \in effect[r].watched, NEW o \in effect[r].objs
                 PROVE  Informed(r, w, o)'
      BY <1>3 DEF InformedAfter
    <3>1. o = obj
      BY <2>2
    <3> QED
      BY <1>1, <2>5, <3>1, BroadcastInforms
  <2> QED
    BY <1>5, <2>4, <2>6, <2>7 DEF Kept, QuietBefore
<1> QED
  BY <1>1, <1>6, <1>7

LEMMA AnnounceOnceInv ==
  ASSUME IInv, NearInv, OnceInv, NEW r \in Requests, Announce(r) \/ AnnounceDeleted(r)
  PROVE  OnceInv'
<1>1. PICK type \in EventTypes, obj \in Solution : broadcast(r, type, obj)
  BY AnnounceSends, AnnounceDeletedSends
<1>2. Kept(r)'
  BY AnnounceKept, AnnounceDeletedKept
<1>3. \A s \in Requests \ {r} : Settled(s)
  <2>1. UNCHANGED <<result, effect>>
    BY <1>1, BroadcastKeeps
  <2>2. \A s \in Requests \ {r} : pc'[s] = pc[s]
    BY DEF Announce, AnnounceDeleted, Goto, IInv, TypeOK
  <2>3. \A s \in Requests \ {r} : items'[s] = items[s]
    <3>1. CASE Announce(r)
      BY <3>1 DEF Announce
    <3>2. CASE AnnounceDeleted(r)
      BY <3>2, AnnounceDeletedSends DEF IInv, TypeOK
    <3> QED
      BY <3>1, <3>2
  <2> QED
    BY <2>1, <2>2, <2>3 DEF Settled
<1>4. \A s \in Requests \ {r} : Kept(s)'
  BY <1>1, <1>3, BroadcastOthers, OnceParts
<1> QED
  BY <1>2, <1>4, OncePartsNext

LEMMA NextOnceInv ==
  ASSUME IInv, VersionInv, OrderInv, NearInv, OnceInv, [Next]_vars
  PROVE  OnceInv'
<1>1. ASSUME UNCHANGED watchVars PROVE ChannelsQuiet
  BY <1>1 DEF ChannelsQuiet, watchVars
<1>2. ASSUME NEW r \in Requests, NEW k \in Keys, NEW cp \in Solution, NEW op \in Writes,
             WriteStep(r, k, cp, op)
      PROVE  OnceInv'
  <2>1. Kept(r)' /\ ChannelsQuiet
    BY <1>1, <1>2, WriteKept, WriteMoves
  <2>2. \A s \in Requests \ {r} : Settled(s)
    BY <1>2, WriteMoves, EffectCommits DEF Settled, Open
  <2> QED
    BY <2>1, <2>2, OthersKept
<1>3. ASSUME NEW r \in Requests, NEW gone \in SUBSET Keys, RemoveStep(r, gone)
      PROVE  OnceInv'
  <2>1. Kept(r)' /\ ChannelsQuiet
    BY <1>1, <1>3, RemoveKept DEF RemoveStep
  <2>2. \A s \in Requests \ {r} : Settled(s)
    BY <1>3, RemoveMoves DEF Settled
  <2> QED
    BY <2>1, <2>2, OthersKept
<1>4. ASSUME NEW r \in Requests, ListStep(r) PROVE OnceInv'
  <2>1. ChannelsQuiet
    BY <1>1, <1>4, ListMoves
  <2>2. \A s \in Requests \ {r} : Settled(s)
    BY <1>4, ListMoves DEF Settled
  <2>3. Kept(r)'
    <3>1. Kept(r) /\ Open(r)' /\ UNCHANGED <<effect, filter, watchers, stopped>>
      BY <1>4, ListMoves, OnceParts DEF Open, watchVars
    <3> QED
      BY <3>1 DEF Kept, Registered, EffectOne, QuietBefore, InformedAfter
  <2> QED
    BY <2>1, <2>2, <2>3, OthersKept
<1>5. ASSUME NEW r \in Requests, MoveStep(r) PROVE OnceInv'
  <2>1. Kept(r)' /\ ChannelsQuiet
    BY <1>1, <1>5, MoveKept, OnceParts DEF MoveStep
  <2>2. \A s \in Requests \ {r} : pc'[s] = pc[s] /\ result'[s] = result[s]
    BY <1>5 DEF MoveStep, RespondDeleted, CopyVersion, CopyStatus, Respond, Goto, Answer,
       IInv, TypeOK
  <2>3. \A s \in Requests \ {r} : Settled(s)
    BY <1>5, <2>2 DEF Settled, MoveStep, effectVars
  <2> QED
    BY <2>1, <2>3, OthersKept
<1>6. CASE UNCHANGED vars \/ WatchStep
  <2>1. ChannelsQuiet
    BY <1>6, NilAssumption, FiltersAssumption
       DEF vars, watchVars, WatchStep, Stop, Receive, Watch, ChannelsQuiet, IInv, TypeOK
  <2>2. \A s \in Requests : Settled(s)
    BY <1>6 DEF vars, requestVars, effectVars, WatchStep, Stop, Receive, Watch, Settled
  <2> QED
    BY <2>1, <2>2, KeptSettled, OnceParts, OncePartsNext
<1> QED
  BY <1>2, <1>3, <1>4, <1>5, <1>6, AnnounceOnceInv, NextKinds DEF Kinds

LEMMA InitOnceInv == Init => OnceInv
  BY DEF Init, NoEffect, OnceInv, WatchedIsRegistered, OneEffect, SilentBefore,
     ToldIsInformed, Open

LEMMA OnceInvariance == Spec => []OnceInv
<1>1. IInv /\ VersionInv /\ OrderInv /\ NearInv /\ OnceInv /\ [Next]_vars => OnceInv'
  BY NextOnceInv
<1> QED
  BY <1>1, InitOnceInv, Invariance, VersionInvariance, OrderInvariance, NearInvariance,
     PTL DEF Spec

(* A successful write reaches every watcher that was registered when it took   *)
(* effect and wants it, once, unless the watcher has stopped or was full; it   *)
(* reaches nobody else of them.                                                *)
THEOREM ToldOnce == Spec => []AnnouncedOnce
<1>1. ASSUME IInv, OnceInv PROVE AnnouncedOnce
  <2> SUFFICES ASSUME NEW r \in Requests, NEW w \in effect[r].watched,
                      pc[r] \in {"respond", "done"}, result[r].out = "ok",
                      result[r].op # "DeleteCollection", NEW o \in effect[r].objs
               PROVE  Informed(r, w, o)
    BY DEF AnnouncedOnce, Informed
  <2>1. ~Open(r) /\ Told(r) /\ Kept(r)
    BY <1>1, OnceParts DEF Open, Told
  <2>2. Tells(r)
    BY <2>1 DEF Kept, EffectOne
  <2> QED
    BY <2>1, <2>2 DEF Kept, InformedAfter
<1> QED
  BY <1>1, Invariance, OnceInvariance, PTL
================================================================================
